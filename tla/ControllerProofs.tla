-------------------------- MODULE ControllerProofs ---------------------------
(***************************************************************************)
(* Theorems about the controller, for every set of paths, keys, tunnels    *)
(* and intents and every capacity the assumptions allow: types first, then *)
(* safety from the inductive invariants below (the logs, the tables, all   *)
(* or nothing, the record and the audit trail).  What each adapter sees    *)
(* comes last: the controller with the VPP mock implements the safety part *)
(* of SwitchService, every step of it being a step of the service or none; *)
(* and with the command adapter the FIB follows the record.  That every    *)
(* request is answered is left to the model checker.                       *)
(***************************************************************************)
EXTENDS ControllerService, FiniteSetTheorems, TLAPS

------------------------------------------------------------------------------
(* What the helpers return.                                                  *)

LEMMA Append1Type ==
  ASSUME NEW log \in AuditLogs, NEW event \in AuditEvents, NEW ref \in Paths \cup {NoPath}
  PROVE  Append1(log, event, ref) \in AuditLogs
BY ControllerAssumption DEF Append1, AuditLogs

LEMMA CountErrorsType ==
  ASSUME NEW n \in 0..MaxErrors, NEW added \in Nat
  PROVE  CountErrors(n, added) \in 0..MaxErrors
BY ControllerAssumption DEF CountErrors

LEMMA StoreHealthType ==
  ASSUME health \in [Paths -> HealthRecords \cup {NoHealth}],
         NEW p \in Paths, NEW h \in HealthRecords
  PROVE  StoreHealth(p, h) \in [Paths -> HealthRecords \cup {NoHealth}]
BY DEF StoreHealth

LEMMA RecordType ==
  ASSUME NEW t \in [Keys -> Paths \cup {NoPath}], NEW k \in Keys, NEW p \in Paths \cup {NoPath}
  PROVE  Record(t, k, p) \in [Keys -> Paths \cup {NoPath}]
BY DEF Record

LEMMA ProbeType ==
  ASSUME net \in [Paths -> Readings], NEW p \in Paths
  PROVE  Probe(p) \in ProbeResults
<1>1. net[p] \in HealthRecords
  BY WiringAssumption
<1>2. [state |-> "healthy", rtt |-> 0, loss |-> 0] \in HealthRecords
  BY DEF HealthRecords, HealthStates
<1>3. [state |-> "failed", rtt |-> 0, loss |-> 100] \in HealthRecords
  BY DEF HealthRecords, HealthStates
<1> QED
  BY <1>1, <1>2, <1>3 DEF Probe, ProbeResults

(* A selection without error names a known path; every answer is an error    *)
(* code and a path or none.                                                  *)
LEMMA SelectPathType ==
  ASSUME NEW i \in Intents, NEW h, NEW o \in SelectPath(i, h)
  PROVE  /\ o.err \in ErrorCodes
         /\ o.path \in Paths \cup {NoPath}
         /\ o.err = "none" => o.path \in Paths
<1>1. CASE i.mode = "explicit"
  BY <1>1 DEF SelectPath, ExplicitOutcome, Outcome, ErrorCodes
<1>2. CASE i.mode = "priority"
  BY <1>2 DEF SelectPath, PriorityOutcome, NoneUsable, Outcome, ErrorCodes
<1>3. CASE i.mode \notin {"explicit", "priority"}
  <2>1. o \in EvaluatedOutcome(i, h)
    BY <1>3 DEF SelectPath
  <2>2. BestOf(i, h) \subseteq Paths
    BY DEF BestOf, UsableOf
  <2> QED
    BY <2>1, <2>2 DEF EvaluatedOutcome, NoneUsable, Outcome, ErrorCodes
<1> QED
  BY <1>1, <1>2, <1>3

------------------------------------------------------------------------------
(* Type correctness.                                                         *)

ClientTypeOK == reply \in Answers /\ before \in BeforeRecords /\ restarts \in 0..MaxRestarts

LEMMA CapacitiesType ==
  /\ MaxCandidates \in Nat /\ MaxCandidates > 0
  /\ MaxPaths \in Nat /\ MaxTunnels \in Nat /\ MaxEvents \in Nat
  /\ MaxErrors \in Nat /\ MaxRestarts \in Nat
<1>1. MaxCandidates \in Nat /\ MaxCandidates > 0
  BY WiringAssumption
<1> QED
  BY <1>1, ControllerAssumption

LEMMA IntentKey ==
  ASSUME NEW i \in Intents
  PROVE  /\ i.key \in Keys /\ i.strategy \in Strategies
         /\ ToObserve(i) \in Seq(PathIds \cup {NoPath})
<1>1. i \in IntentRecords
  BY ControllerAssumption
<1>2. PathList \in Seq(PathIds \cup {NoPath})
  BY ControllerAssumption, PathsAssumption
<1>3. i.cands \in Seq(PathIds \cup {NoPath}) /\ <<i.path>> \in Seq(PathIds \cup {NoPath})
  BY <1>1 DEF IntentRecords
<1> QED
  BY <1>1, <1>2, <1>3 DEF IntentRecords, ToObserve

LEMMA EndCallType ==
  ASSUME TypeOK, pc # "idle", NEW err \in ErrorCodes, NEW path \in Paths \cup {NoPath},
         EndCall(err, path)
  PROVE  CallTypeOK' /\ ClientTypeOK'
<1>1. intent.key \in Keys
  BY IntentKey DEF TypeOK, CallTypeOK
<1>2. reply' \in Answers
  BY <1>1 DEF EndCall, Answer, Answers
<1>3. CallTypeOK'
  BY DEF EndCall, CallTypeOK, ProgramCounters
<1> QED
  BY <1>2, <1>3 DEF EndCall, ClientTypeOK, TypeOK

LEMMA FailType ==
  ASSUME TypeOK, pc \notin {"idle", "observing"}, NEW err \in ErrorCodes,
         NEW log \in AuditLogs, NEW added \in Nat, Fail(err, log, added)
  PROVE  /\ CallTypeOK' /\ ClientTypeOK'
         /\ applied' \in [Keys -> Paths \cup {NoPath}]
         /\ transition' \in TransitionStates
         /\ audit' \in AuditLogs
         /\ errors' \in 0..MaxErrors
         /\ intentCount' = intentCount
<1>1. intent.key \in Keys /\ target \in Paths /\ prev \in Paths \cup {NoPath}
  BY IntentKey DEF TypeOK, CallTypeOK
<1>2. CallTypeOK' /\ ClientTypeOK'
  BY <1>1, EndCallType DEF Fail
<1>3. errors' \in 0..MaxErrors
  BY CountErrorsType DEF Fail, TypeOK, StateTypeOK
<1>4. audit' \in AuditLogs
  BY <1>1, Append1Type DEF Fail, Rollback, AuditEvents
<1>5. applied' \in [Keys -> Paths \cup {NoPath}] /\ transition' \in TransitionStates
  BY <1>1, RecordType DEF Fail, Rollback, TypeOK, StateTypeOK, TransitionStates
<1> QED
  BY <1>2, <1>3, <1>4, <1>5 DEF Fail

LEMMA InstallPathType ==
  ASSUME AdaptersTypeOK, NEW k \in Keys, NEW p \in Paths, NEW err, InstallPath(k, p, err)
  PROVE  AdaptersTypeOK'
<1>1. CASE MockInstall(k, p, err)
  BY <1>1 DEF MockInstall, AdaptersTypeOK
<1>2. CASE CommandInstall(k, p, err)
  <2>1. table' \in [Keys -> Paths \cup {NoPath}]
    BY <1>2, RecordType DEF CommandInstall, AdaptersTypeOK
  <2>2. routes' = routes \/ routes' = [routes EXCEPT ![RoutePrefix[p]] = p]
    BY <1>2 DEF CommandInstall
  <2>3. routes' \in [FibPrefixes -> Paths \cup {NoPath}]
    BY <2>2 DEF AdaptersTypeOK
  <2> QED
    BY <1>2, <2>1, <2>3 DEF CommandInstall, AdaptersTypeOK
<1> QED
  BY <1>1, <1>2 DEF InstallPath

(* A step that stays inside the call keeps its argument, target and client. *)
LEMMA GotoType ==
  ASSUME TypeOK, NEW label \in ProgramCounters \ {"idle"}, Goto(label), pc # "idle",
         label # "observing" => pc # "observing",
         todo' \in IF label = "observing" THEN Seq(PathIds \cup {NoPath}) ELSE Seq(Tunnels)
  PROVE  CallTypeOK' /\ ClientTypeOK'
BY DEF Goto, TypeOK, CallTypeOK, ClientTypeOK, clientVars

LEMMA InitType == Init => TypeOK
<1> SUFFICES ASSUME Init PROVE TypeOK
  OBVIOUS
<1>1. AdaptersTypeOK
  BY DEF Init, AdaptersInit, AdaptersTypeOK, EmptyTable
<1>2. StateTypeOK
  BY ControllerAssumption, WiringAssumption
  DEF Init, StateTypeOK, EmptyTable, PathStates, TransitionStates, AuditLogs
<1>3. CallTypeOK
  BY DEF Init, CallTypeOK, ProgramCounters
<1>4. ClientTypeOK
  <2>1. reply \in Answers
    BY DEF Init, NoReply, Answer, Answers, ErrorCodes
  <2>2. before \in BeforeRecords
    BY <1>1, <1>2, ControllerAssumption
    DEF Init, Snapshot, BeforeRecords, AdaptersTypeOK, StateTypeOK
  <2>3. restarts \in 0..MaxRestarts
    BY ControllerAssumption DEF Init
  <2> QED
    BY <2>1, <2>2, <2>3 DEF ClientTypeOK
<1> QED
  BY <1>1, <1>2, <1>3, <1>4 DEF TypeOK, ClientTypeOK

LEMMA SubmitType == ASSUME TypeOK, NEW i \in Intents, Submit(i) PROVE TypeOK'
<1>1. AdaptersTypeOK'
  BY DEF Submit, TypeOK, AdaptersTypeOK, adapterVars
<1>2. StateTypeOK'
  <2>1. audit' \in AuditLogs
    BY Append1Type DEF Submit, TypeOK, StateTypeOK, AuditEvents
  <2>2. intentCount' \in 0..MaxCandidates
    BY CapacitiesType DEF Submit, TypeOK, StateTypeOK
  <2> QED
    BY <2>1, <2>2 DEF Submit, TypeOK, StateTypeOK
<1>3. CallTypeOK'
  BY IntentKey DEF Submit, TypeOK, CallTypeOK, ProgramCounters
<1>4. ClientTypeOK'
  BY DEF Submit, TypeOK, ClientTypeOK, AdaptersTypeOK, StateTypeOK, Snapshot, BeforeRecords
<1> QED
  BY <1>1, <1>2, <1>3, <1>4 DEF TypeOK, ClientTypeOK

LEMMA SubmitRejectedType == ASSUME TypeOK, SubmitRejected PROVE TypeOK'
<1>1. ClientTypeOK'
  BY DEF SubmitRejected, TypeOK, ClientTypeOK, AdaptersTypeOK, StateTypeOK, Snapshot,
         BeforeRecords, Answer, Answers, ErrorCodes
<1> QED
  BY <1>1 DEF SubmitRejected, TypeOK, ClientTypeOK, AdaptersTypeOK, StateTypeOK, CallTypeOK,
              adapterVars, stateVars, callVars

LEMMA ObserveType ==
  ASSUME TypeOK, ObserveUnknown \/ ObserveFails \/ ObserveOne PROVE TypeOK'
<1>1. CASE ObserveUnknown
  <2>1. CallTypeOK' /\ ClientTypeOK'
    BY <1>1, EndCallType DEF ObserveUnknown, ErrorCodes
  <2> QED
    BY <1>1, <2>1 DEF ObserveUnknown, TypeOK, ClientTypeOK, AdaptersTypeOK, StateTypeOK,
                      adapterVars, stateVars
<1>2. CASE ObserveFails
  <2>1. Probe(Head(todo)).err \in ErrorCodes
    BY <1>2, ProbeType DEF ObserveFails, TypeOK, AdaptersTypeOK, ProbeResults, ErrorCodes
  <2>2. CallTypeOK' /\ ClientTypeOK'
    BY <1>2, <2>1, EndCallType DEF ObserveFails
  <2> QED
    BY <1>2, <2>2 DEF ObserveFails, TypeOK, ClientTypeOK, AdaptersTypeOK, StateTypeOK,
                      adapterVars, stateVars
<1>3. CASE ObserveOne
  <2>1. Probe(Head(todo)).health \in HealthRecords
    BY <1>3, ProbeType DEF ObserveOne, TypeOK, AdaptersTypeOK, ProbeResults
  <2>2. health' \in [Paths -> HealthRecords \cup {NoHealth}]
    BY <1>3, <2>1, StoreHealthType DEF ObserveOne, TypeOK, StateTypeOK
  <2>3. todo' \in Seq(PathIds \cup {NoPath})
    BY <1>3 DEF ObserveOne, TypeOK, CallTypeOK
  <2>4. CallTypeOK' /\ ClientTypeOK'
    BY <1>3, <2>3, GotoType DEF ObserveOne, ProgramCounters
  <2> QED
    BY <1>3, <2>2, <2>4 DEF ObserveOne, TypeOK, ClientTypeOK, AdaptersTypeOK, StateTypeOK,
                            adapterVars
<1> QED
  BY <1>1, <1>2, <1>3

LEMMA SelectType == ASSUME TypeOK, SelectFails \/ Select PROVE TypeOK'
<1>0. pc = "observing" /\ intent \in Intents
  BY DEF SelectFails, Select, TypeOK, CallTypeOK
<1>1. CASE SelectFails
  <2>1. PICK o \in SelectPath(intent, health) : EndCall(o.err, NoPath)
    BY <1>1 DEF SelectFails
  <2>2. CallTypeOK' /\ ClientTypeOK'
    BY <1>0, <2>1, SelectPathType, EndCallType
  <2>3. errors' \in 0..MaxErrors
    BY <1>1, CountErrorsType DEF SelectFails, TypeOK, StateTypeOK
  <2> QED
    BY <1>1, <2>2, <2>3 DEF SelectFails, TypeOK, ClientTypeOK, AdaptersTypeOK, StateTypeOK,
                            adapterVars
<1>2. CASE Select
  <2>1. PICK o \in SelectPath(intent, health) :
          /\ o.err = "none"
          /\ target' = o.path
          /\ pathState' = [pathState EXCEPT ![o.path] = "preparing"]
          /\ audit' = Append1(Append1(Append1(audit, "PATH_SELECTED", o.path),
                                      "TRANSITION_STARTED", o.path), "PREPARE", o.path)
          /\ todo' = Segments[o.path]
    BY <1>2 DEF Select
  <2>2. o.path \in Paths
    BY <1>0, <2>1, SelectPathType
  <2>3. audit' \in AuditLogs
    BY <2>1, <2>2, Append1Type DEF TypeOK, StateTypeOK, AuditEvents
  <2>4. pathState' \in [Paths -> PathStates]
    BY <2>1 DEF TypeOK, StateTypeOK, PathStates
  <2>5. todo' \in Seq(Tunnels)
    BY <2>1, <2>2, ControllerAssumption
  <2>6. prev' \in Paths \cup {NoPath}
    BY <1>0, <1>2, IntentKey DEF Select, TypeOK, StateTypeOK
  <2>7. CallTypeOK'
    BY <1>0, <1>2, <2>1, <2>2, <2>5, <2>6 DEF Select, TypeOK, CallTypeOK, ProgramCounters
  <2>8. StateTypeOK'
    BY <1>2, <2>3, <2>4 DEF Select, TypeOK, StateTypeOK, TransitionStates
  <2> QED
    BY <1>2, <2>7, <2>8 DEF Select, TypeOK, AdaptersTypeOK, adapterVars, clientVars
<1> QED
  BY <1>1, <1>2

LEMMA PrepareType ==
  ASSUME TypeOK, EnsureTunnel \/ EnsureFails \/ ObservedFull \/ Prepared PROVE TypeOK'
<1>0. pc = "preparing" /\ target \in Paths /\ todo \in Seq(Tunnels) /\ audit \in AuditLogs
  BY DEF EnsureTunnel, EnsureFails, ObservedFull, Prepared, TypeOK, CallTypeOK, StateTypeOK
<1>1. CASE EnsureTunnel
  <2>1. Head(todo) \in Tunnels /\ todo' \in Seq(Tunnels)
    BY <1>0, <1>1 DEF EnsureTunnel
  <2>2. CallTypeOK' /\ ClientTypeOK'
    BY <1>0, <1>1, <2>1, GotoType DEF EnsureTunnel, ProgramCounters
  <2> QED
    BY <1>1, <2>1, <2>2 DEF EnsureTunnel, TypeOK, ClientTypeOK, AdaptersTypeOK, StateTypeOK,
                            adapterVars
<1>2. CASE EnsureFails
  <2>1. PICK err \in {"state_conflict", "invalid_argument"} : Fail(err, audit, 1)
    BY <1>2 DEF EnsureFails, EnsureErrors
  <2>2. err \in ErrorCodes
    BY DEF ErrorCodes
  <2> QED
    BY <1>0, <1>2, <2>1, <2>2, FailType
    DEF EnsureFails, TypeOK, ClientTypeOK, AdaptersTypeOK, StateTypeOK, adapterVars
<1>3. CASE ObservedFull
  <2>1. "invalid_argument" \in ErrorCodes
    BY DEF ErrorCodes
  <2> QED
    BY <1>0, <1>3, <2>1, FailType
    DEF ObservedFull, TypeOK, ClientTypeOK, AdaptersTypeOK, StateTypeOK, adapterVars
<1>4. CASE Prepared
  <2>1. audit' \in AuditLogs
    BY <1>0, <1>4, Append1Type DEF Prepared, AuditEvents
  <2>2. CallTypeOK' /\ ClientTypeOK'
    BY <1>0, <1>4, GotoType DEF Prepared, ProgramCounters
  <2> QED
    BY <1>4, <2>1, <2>2 DEF Prepared, TypeOK, ClientTypeOK, AdaptersTypeOK, StateTypeOK,
                            adapterVars, PathStates, TransitionStates
<1> QED
  BY <1>1, <1>2, <1>3, <1>4

LEMMA ReadyType ==
  ASSUME TypeOK, Validate \/ ProbeFails \/ ValidationFails PROVE TypeOK'
<1>0. /\ pc = "validating" /\ target \in Paths /\ todo \in Seq(Tunnels)
      /\ audit \in AuditLogs /\ Probe(target) \in ProbeResults
  BY ProbeType DEF Validate, ProbeFails, ValidationFails, TypeOK, CallTypeOK, StateTypeOK,
                   AdaptersTypeOK
<1>1. StoreHealth(target, Probe(target).health) \in [Paths -> HealthRecords \cup {NoHealth}]
  BY <1>0, StoreHealthType DEF TypeOK, StateTypeOK, ProbeResults
<1>2. CASE Validate
  <2>1. CallTypeOK' /\ ClientTypeOK'
    BY <1>0, <1>2, GotoType DEF Validate, ProgramCounters
  <2> QED
    BY <1>1, <1>2, <2>1 DEF Validate, TypeOK, ClientTypeOK, AdaptersTypeOK, StateTypeOK,
                            adapterVars, TransitionStates
<1>3. CASE ProbeFails
  <2>1. Probe(target).err \in ErrorCodes
    BY <1>0 DEF ProbeResults, ErrorCodes
  <2> QED
    BY <1>0, <1>3, <2>1, FailType
    DEF ProbeFails, TypeOK, ClientTypeOK, AdaptersTypeOK, StateTypeOK, adapterVars
<1>4. CASE ValidationFails
  <2>1. "path_validation_failed" \in ErrorCodes
    BY DEF ErrorCodes
  <2> QED
    BY <1>0, <1>1, <1>4, <2>1, FailType
    DEF ValidationFails, TypeOK, ClientTypeOK, AdaptersTypeOK, StateTypeOK, adapterVars
<1> QED
  BY <1>2, <1>3, <1>4

LEMMA CommitType ==
  ASSUME TypeOK,
         CommitImmediate \/ CommitGraceful \/ CommitReserved \/ PauseEnds \/ DrainEnds
  PROVE  TypeOK'
<1>0. /\ pc \in {"committing", "pausing", "draining"} /\ target \in Paths
      /\ todo \in Seq(Tunnels) /\ Append1(audit, "COMMIT", target) \in AuditLogs
  BY Append1Type DEF CommitImmediate, CommitGraceful, CommitReserved, PauseEnds, DrainEnds,
                     TypeOK, CallTypeOK, StateTypeOK, AuditEvents
<1>1. CASE CommitImmediate \/ CommitGraceful \/ PauseEnds \/ DrainEnds
  <2>1. CallTypeOK' /\ ClientTypeOK'
    BY <1>0, <1>1, GotoType
    DEF CommitImmediate, CommitGraceful, PauseEnds, DrainEnds, ProgramCounters
  <2> QED
    BY <1>0, <1>1, <2>1 DEF CommitImmediate, CommitGraceful, PauseEnds, DrainEnds, TypeOK,
      ClientTypeOK, AdaptersTypeOK, StateTypeOK, adapterVars, PathStates, TransitionStates
<1>2. CASE CommitReserved
  <2>1. "forwarding_update_failed" \in ErrorCodes
    BY DEF ErrorCodes
  <2> QED
    BY <1>0, <1>2, <2>1, FailType
    DEF CommitReserved, TypeOK, ClientTypeOK, AdaptersTypeOK, StateTypeOK, adapterVars
<1> QED
  BY <1>1, <1>2

LEMMA SwitchType ==
  ASSUME TypeOK, Switch \/ SwitchFails \/ Confirm \/ ConfirmFails PROVE TypeOK'
<1>0. /\ pc \in {"switching", "confirming"} /\ target \in Paths /\ intent.key \in Keys
      /\ todo \in Seq(Tunnels) /\ audit \in AuditLogs
  BY IntentKey DEF Switch, SwitchFails, Confirm, ConfirmFails, TypeOK, CallTypeOK, StateTypeOK
<1>e. {"none", "forwarding_update_failed"} \subseteq ErrorCodes
  BY DEF ErrorCodes
<1>1. CASE Switch
  <2>1. AdaptersTypeOK'
    BY <1>0, <1>1, InstallPathType DEF Switch, TypeOK
  <2>2. applied' \in [Keys -> Paths \cup {NoPath}]
    BY <1>0, <1>1, RecordType DEF Switch, TypeOK, StateTypeOK
  <2>3. audit' \in AuditLogs
    BY <1>0, <1>1, Append1Type DEF Switch, AuditEvents
  <2>4. CallTypeOK' /\ ClientTypeOK'
    BY <1>0, <1>1, GotoType DEF Switch, ProgramCounters
  <2> QED
    BY <1>1, <2>1, <2>2, <2>3, <2>4
    DEF Switch, TypeOK, ClientTypeOK, StateTypeOK, PathStates, TransitionStates
<1>2. CASE SwitchFails
  <2>1. AdaptersTypeOK'
    BY <1>0, <1>2, InstallPathType DEF SwitchFails, TypeOK
  <2> QED
    BY <1>0, <1>e, <1>2, <2>1, FailType DEF SwitchFails, TypeOK, ClientTypeOK, StateTypeOK
<1>3. CASE Confirm
  <2>1. audit' \in AuditLogs
    BY <1>0, <1>3, Append1Type DEF Confirm, AuditEvents
  <2>2. CallTypeOK' /\ ClientTypeOK'
    BY <1>0, <1>e, <1>3, EndCallType DEF Confirm
  <2> QED
    BY <1>3, <2>1, <2>2 DEF Confirm, TypeOK, ClientTypeOK, AdaptersTypeOK, StateTypeOK,
                            adapterVars, TransitionStates
<1>4. CASE ConfirmFails
  BY <1>0, <1>e, <1>4, FailType
  DEF ConfirmFails, TypeOK, ClientTypeOK, AdaptersTypeOK, StateTypeOK, adapterVars
<1> QED
  BY <1>1, <1>2, <1>3, <1>4

LEMMA NewControllerType ==
  ASSUME TypeOK, NewController
  PROVE  StateTypeOK' /\ CallTypeOK' /\ reply' \in Answers /\ restarts' \in 0..MaxRestarts
<1>1. StateTypeOK'
  BY CapacitiesType
  DEF NewController, StateTypeOK, EmptyTable, PathStates, TransitionStates, AuditLogs
<1>2. CallTypeOK'
  BY DEF NewController, CallTypeOK, ProgramCounters
<1>3. reply' \in Answers
  BY DEF NewController, NoReply, Answer, Answers, ErrorCodes
<1>4. restarts' \in 0..MaxRestarts
  BY CapacitiesType DEF NewController, TypeOK
<1> QED
  BY <1>1, <1>2, <1>3, <1>4

LEMMA EnvironmentType == ASSUME TypeOK, Environment PROVE TypeOK'
<1>s. Snapshot(NoIntent) \in BeforeRecords
  BY CapacitiesType DEF Snapshot, BeforeRecords, TypeOK, AdaptersTypeOK, StateTypeOK
<1>1. CASE NetworkChange
  BY <1>1 DEF NetworkChange, TypeOK, AdaptersTypeOK, StateTypeOK, CallTypeOK, stateVars,
              callVars, clientVars
<1>2. CASE InjectFailure
  BY <1>2 DEF InjectFailure, TypeOK, AdaptersTypeOK, StateTypeOK, CallTypeOK, stateVars,
              callVars, clientVars
<1>3. CASE Restart
  <2>1. before' \in BeforeRecords
    BY <1>s, <1>3 DEF Restart, BeforeRecords, EmptyTable
  <2> QED
    BY <1>3, <2>1, NewControllerType DEF Restart, TypeOK, AdaptersTypeOK, adapterVars
<1>4. CASE Crash
  <2>1. before' \in BeforeRecords
    BY <1>s, <1>4 DEF Crash, BeforeRecords, EmptyTable
  <2> QED
    BY <1>4, <2>1, NewControllerType DEF Crash, TypeOK, AdaptersTypeOK, EmptyTable
<1> QED
  BY <1>1, <1>2, <1>3, <1>4 DEF Environment

LEMMA StutterType == ASSUME TypeOK, UNCHANGED vars PROVE TypeOK'
BY DEF vars, adapterVars, stateVars, callVars, clientVars, TypeOK, AdaptersTypeOK,
       StateTypeOK, CallTypeOK

LEMMA NextType == TypeOK /\ [Next]_vars => TypeOK'
<1> SUFFICES ASSUME TypeOK, [Next]_vars PROVE TypeOK'
  OBVIOUS
<1>1. ASSUME CallStep PROVE TypeOK'
  BY <1>1, ObserveType, SelectType, PrepareType, ReadyType, CommitType, SwitchType
  DEF CallStep
<1> QED
  BY <1>1, SubmitType, SubmitRejectedType, EnvironmentType, StutterType DEF Next

(* Every variable keeps its type in every behaviour of the controller, for   *)
(* every wiring: the indices of the bounded arrays of internal.h stay in     *)
(* range and a call past its selection has a known target path.              *)
THEOREM TypeCorrect == Spec => []TypeOK
BY InitType, NextType, PTL DEF Spec

------------------------------------------------------------------------------
(* The logs.  A running call still has at most EventsLeft(pc) audit events   *)
(* and two errors to append; every accepted submission pays for eight and    *)
(* two.  LogsHaveRoom alone is not inductive: it does not say how much room  *)
(* the calls to come will find.                                              *)

EventsLeft(label) ==
  IF label = "observing" THEN 7
  ELSE IF label = "preparing" THEN 4
  ELSE IF label \in {"validating", "committing"} THEN 3
  ELSE IF label \in {"pausing", "draining", "switching"} THEN 2
  ELSE IF label = "confirming" THEN 1 ELSE 0

RoomInv ==
  /\ audit.count + EventsLeft(pc) <= 8 * intentCount
  /\ errors + (IF pc = "idle" THEN 0 ELSE 2) <= 2 * intentCount

LEMMA RoomSuffices == TypeOK /\ RoomInv => LogsHaveRoom
BY CapacitiesType, CapacityAssumption
DEF TypeOK, StateTypeOK, CallTypeOK, AuditLogs, RoomInv, LogsHaveRoom, EventsLeft,
    ProgramCounters

LEMMA Append1Count ==
  ASSUME NEW log \in AuditLogs, NEW event \in AuditEvents, NEW ref \in Paths \cup {NoPath}
  PROVE  /\ Append1(log, event, ref).count \in Nat
         /\ Append1(log, event, ref).count <= log.count + 1
BY CapacitiesType DEF Append1, AuditLogs

LEMMA CountErrorsBound ==
  ASSUME NEW n \in 0..MaxErrors, NEW added \in Nat
  PROVE  CountErrors(n, added) \in Nat /\ CountErrors(n, added) <= n + added
BY CapacitiesType DEF CountErrors

(* A failing stage appends one rollback event and at most two errors. *)
LEMMA FailRoom ==
  ASSUME TypeOK, RoomInv, pc \notin {"idle", "observing"}, NEW err, NEW log \in AuditLogs,
         NEW added \in 0..2, Fail(err, log, added),
         log.count + 1 <= 8 * intentCount
  PROVE  RoomInv'
<1>1. /\ prev \in Paths \cup {NoPath} /\ intentCount \in Nat
      /\ errors \in 0..MaxErrors /\ errors \in Nat
  BY CapacitiesType DEF TypeOK, StateTypeOK, CallTypeOK
<1>2. audit'.count \in Nat /\ audit'.count <= log.count + 1
  BY <1>1, Append1Count DEF Fail, Rollback, AuditEvents
<1>3. errors' \in Nat /\ errors' <= errors + added
  BY <1>1, CountErrorsBound DEF Fail
<1>4. pc' = "idle" /\ intentCount' = intentCount /\ log.count \in Nat
  BY CapacitiesType DEF Fail, EndCall, AuditLogs
<1>5. errors + 2 <= 2 * intentCount
  BY DEF RoomInv
<1>6. audit'.count <= 8 * intentCount'
  BY <1>1, <1>2, <1>4
<1>7. errors' <= 2 * intentCount'
  BY <1>1, <1>3, <1>4, <1>5
<1> QED
  BY <1>2, <1>3, <1>4, <1>6, <1>7 DEF RoomInv, EventsLeft

LEMMA RoomStep == TypeOK /\ RoomInv /\ [Next]_vars => RoomInv'
<1> SUFFICES ASSUME TypeOK, RoomInv, [Next]_vars PROVE RoomInv'
  OBVIOUS
<1>1. /\ audit \in AuditLogs /\ audit.count \in Nat /\ errors \in 0..MaxErrors
      /\ errors \in Nat /\ intentCount \in Nat
      /\ target \in Paths \cup {NoPath}
  BY CapacitiesType DEF TypeOK, StateTypeOK, CallTypeOK, AuditLogs
<1>2. ASSUME NEW i \in Intents, Submit(i) PROVE RoomInv'
  BY <1>1, <1>2, Append1Count DEF Submit, RoomInv, EventsLeft, AuditEvents
<1>3. CASE SubmitRejected \/ NetworkChange \/ InjectFailure \/ UNCHANGED vars
  BY <1>3 DEF SubmitRejected, NetworkChange, InjectFailure, vars, stateVars, callVars, RoomInv
<1>4. CASE Restart \/ Crash
  BY <1>4 DEF Restart, Crash, NewController, RoomInv, EventsLeft
<1>5. CASE ObserveUnknown \/ ObserveFails \/ ObserveOne
  BY <1>1, <1>5 DEF ObserveUnknown, ObserveFails, ObserveOne, EndCall, Goto, stateVars,
                    RoomInv, EventsLeft
<1>6. CASE SelectFails
  <2>1. errors' \in Nat /\ errors' <= errors + 1
    BY <1>1, <1>6, CountErrorsBound DEF SelectFails
  <2> QED
    BY <1>1, <1>6, <2>1 DEF SelectFails, EndCall, RoomInv, EventsLeft
<1>7. CASE Select
  <2>1. PICK o \in SelectPath(intent, health) :
          /\ o.err = "none"
          /\ audit' = Append1(Append1(Append1(audit, "PATH_SELECTED", o.path),
                                      "TRANSITION_STARTED", o.path), "PREPARE", o.path)
    BY <1>7 DEF Select
  <2>2. intent \in Intents
    BY <1>7 DEF Select, TypeOK, CallTypeOK
  <2>3. o.path \in Paths
    BY <2>1, <2>2, SelectPathType
  <2>4. {"PATH_SELECTED", "TRANSITION_STARTED", "PREPARE"} \subseteq AuditEvents
    BY DEF AuditEvents
  <2>5. Append1(audit, "PATH_SELECTED", o.path) \in AuditLogs
    BY <1>1, <2>3, <2>4, Append1Type
  <2>6. Append1(Append1(audit, "PATH_SELECTED", o.path), "TRANSITION_STARTED", o.path)
          \in AuditLogs
    BY <2>3, <2>4, <2>5, Append1Type
  <2>7. audit'.count \in Nat /\ audit'.count <= audit.count + 3
    BY <1>1, <2>1, <2>3, <2>4, <2>5, <2>6, Append1Count DEF AuditLogs
  <2> QED
    BY <1>1, <1>7, <2>7 DEF Select, RoomInv, EventsLeft
<1>8. CASE EnsureTunnel \/ Validate \/ PauseEnds \/ DrainEnds
  BY <1>1, <1>8 DEF EnsureTunnel, Validate, PauseEnds, DrainEnds, Goto, RoomInv, EventsLeft
<1>9. CASE Prepared \/ CommitImmediate \/ CommitGraceful \/ Switch
  <2>1. /\ audit'.count \in Nat /\ audit'.count <= audit.count + 1
        /\ UNCHANGED <<errors, intentCount>>
    BY <1>1, <1>9, Append1Count
    DEF Prepared, CommitImmediate, CommitGraceful, Switch, AuditEvents
  <2> QED
    BY <1>1, <1>9, <2>1
    DEF Prepared, CommitImmediate, CommitGraceful, Switch, Goto, RoomInv, EventsLeft
<1>10. CASE EnsureFails \/ ObservedFull \/ ProbeFails \/ ValidationFails \/ SwitchFails
            \/ ConfirmFails
  <2>1. /\ pc \in {"preparing", "validating", "switching", "confirming"}
        /\ \E err : Fail(err, audit, 1) \/ Fail(err, audit, 2)
    BY <1>10 DEF EnsureFails, ObservedFull, ProbeFails, ValidationFails, SwitchFails,
                 ConfirmFails
  <2>2. audit.count + 1 <= 8 * intentCount
    BY <1>1, <2>1 DEF RoomInv, EventsLeft
  <2> QED
    BY <1>1, <2>1, <2>2, FailRoom
<1>11. CASE CommitReserved
  <2> DEFINE log == Append1(audit, "COMMIT", target)
  <2>1. log \in AuditLogs /\ log.count \in Nat /\ log.count <= audit.count + 1
    BY <1>1, Append1Type, Append1Count DEF AuditEvents
  <2>2. pc = "committing" /\ Fail("forwarding_update_failed", log, 2)
    BY <1>11 DEF CommitReserved
  <2>3. log.count + 1 <= 8 * intentCount
    BY <1>1, <2>1, <2>2 DEF RoomInv, EventsLeft
  <2> HIDE DEF log
  <2> QED
    BY <2>1, <2>2, <2>3, FailRoom
<1>12. CASE Confirm
  <2>1. audit'.count \in Nat /\ audit'.count <= audit.count + 1
    BY <1>1, <1>12, Append1Count DEF Confirm, AuditEvents
  <2> QED
    BY <1>1, <1>12, <2>1 DEF Confirm, EndCall, RoomInv, EventsLeft
<1> QED
  BY <1>2, <1>3, <1>4, <1>5, <1>6, <1>7, <1>8, <1>9, <1>10, <1>11, <1>12
  DEF Next, CallStep, Environment

(* No audit event and no error is ever dropped, whatever the outcomes of the *)
(* accepted submissions: en_audit_append and en_error_append always find a   *)
(* free entry, with the capacities of types.h.                               *)
THEOREM LogsNeverFull == Spec => []LogsHaveRoom
<1>1. Init => RoomInv
  BY DEF Init, RoomInv, EventsLeft
<1> QED
  BY <1>1, TypeCorrect, RoomStep, RoomSuffices, PTL DEF Spec

------------------------------------------------------------------------------
(* The table of applied paths.  Each accepted submission adds at most one    *)
(* key, so a running call that has not switched yet finds a free slot.       *)

SlotInv ==
  /\ pc \in {"idle", "confirming"} => Cardinality(Filled(applied)) <= intentCount
  /\ pc \notin {"idle", "confirming"} => Cardinality(Filled(applied)) + 1 <= intentCount
  /\ AppliedNeverDropped

LEMMA FilledFinite ==
  ASSUME NEW t \in [Keys -> Paths \cup {NoPath}]
  PROVE  IsFiniteSet(Filled(t)) /\ Cardinality(Filled(t)) \in Nat
<1>1. Filled(t) \subseteq Keys /\ IsFiniteSet(Keys)
  BY WiringAssumption DEF Filled
<1> QED
  BY <1>1, FS_Subset, FS_CardinalityType

LEMMA RecordCount ==
  ASSUME NEW t \in [Keys -> Paths \cup {NoPath}], NEW k \in Keys, NEW p \in Paths \cup {NoPath}
  PROVE  /\ Cardinality(Filled(Record(t, k, p))) \in Nat
         /\ Cardinality(Filled(Record(t, k, p))) <= Cardinality(Filled(t)) + 1
         /\ k \in Filled(t) => Cardinality(Filled(Record(t, k, p))) <= Cardinality(Filled(t))
<1>1. Filled(Record(t, k, p)) \subseteq Filled(t) \cup {k}
  BY DEF Record, Filled
<1>2. IsFiniteSet(Filled(t)) /\ Cardinality(Filled(t)) \in Nat
  BY FilledFinite
<1>3. /\ IsFiniteSet(Filled(t) \cup {k})
      /\ Cardinality(Filled(t) \cup {k}) =
           IF k \in Filled(t) THEN Cardinality(Filled(t)) ELSE Cardinality(Filled(t)) + 1
  BY <1>2, FS_AddElement
<1>4. /\ IsFiniteSet(Filled(Record(t, k, p)))
      /\ Cardinality(Filled(Record(t, k, p))) <= Cardinality(Filled(t) \cup {k})
  BY <1>1, <1>3, FS_Subset
<1>5. Cardinality(Filled(Record(t, k, p))) \in Nat
  BY <1>4, FS_CardinalityType
<1> QED
  BY <1>2, <1>3, <1>4, <1>5

(* Rolling back never adds a key beyond the one of the call. *)
LEMMA FailSlots ==
  ASSUME TypeOK, SlotInv, pc \notin {"idle", "observing"},
         NEW err, NEW log, NEW added, Fail(err, log, added)
  PROVE  SlotInv'
<1>1. /\ intent.key \in Keys /\ prev \in Paths \cup {NoPath} /\ target \in Paths
      /\ applied \in [Keys -> Paths \cup {NoPath}] /\ intentCount \in Nat
  BY IntentKey, CapacitiesType DEF TypeOK, CallTypeOK, StateTypeOK
<1>2. applied' = applied \/ applied' = Record(applied, intent.key, prev)
  BY DEF Fail, Rollback
<1>3. Cardinality(Filled(applied)) \in Nat
  BY <1>1, FilledFinite
<1>4. Cardinality(Filled(applied')) <= intentCount
  <2>1. CASE pc = "confirming"
    <3>1. intent.key \in Filled(applied) /\ Cardinality(Filled(applied)) <= intentCount
      BY <1>1, <2>1, PathsAssumption DEF SlotInv, AppliedNeverDropped, Filled
    <3> QED
      BY <1>1, <1>2, <1>3, <3>1, RecordCount
  <2>2. CASE pc # "confirming"
    <3>1. Cardinality(Filled(applied)) + 1 <= intentCount
      BY <2>2 DEF SlotInv
    <3> QED
      BY <1>1, <1>2, <1>3, <3>1, RecordCount
  <2> QED
    BY <2>1, <2>2
<1> QED
  BY <1>4 DEF Fail, EndCall, SlotInv, AppliedNeverDropped

(* The install step records the new path for certain. *)
LEMMA SwitchRecords ==
  ASSUME TypeOK, SlotInv, Switch
  PROVE  /\ intent.key \in Keys /\ target \in Paths
         /\ applied' = [applied EXCEPT ![intent.key] = target]
<1>1. /\ intent.key \in Keys /\ target \in Paths
      /\ applied \in [Keys -> Paths \cup {NoPath}] /\ intentCount \in 0..MaxCandidates
  BY IntentKey DEF Switch, TypeOK, CallTypeOK, StateTypeOK
<1>2. Cardinality(Filled(applied)) < MaxCandidates
  <2>1. Cardinality(Filled(applied)) + 1 <= intentCount
    BY DEF Switch, SlotInv
  <2> QED
    BY <1>1, <2>1, FilledFinite, CapacitiesType
<1> QED
  BY <1>1, <1>2 DEF Switch, Record, HasSlot

LEMMA SlotStep == TypeOK /\ SlotInv /\ [Next]_vars => SlotInv'
<1> SUFFICES ASSUME TypeOK, SlotInv, [Next]_vars PROVE SlotInv'
  OBVIOUS
<1>1. /\ applied \in [Keys -> Paths \cup {NoPath}] /\ intentCount \in Nat
      /\ Cardinality(Filled(applied)) \in Nat
  BY FilledFinite, CapacitiesType DEF TypeOK, StateTypeOK
<1>2. ASSUME NEW i \in Intents, Submit(i) PROVE SlotInv'
  BY <1>1, <1>2 DEF Submit, SlotInv, AppliedNeverDropped
<1>3. CASE SubmitRejected \/ NetworkChange \/ InjectFailure \/ UNCHANGED vars
  BY <1>3 DEF SubmitRejected, NetworkChange, InjectFailure, vars, stateVars, callVars, SlotInv,
              AppliedNeverDropped
<1>4. CASE Restart \/ Crash
  <2>1. applied' = EmptyTable /\ pc' = "idle" /\ intentCount' = 0
    BY <1>4 DEF Restart, Crash, NewController
  <2>2. Filled(EmptyTable) = {}
    BY DEF Filled, EmptyTable
  <2> QED
    BY <2>1, <2>2, FS_EmptySet DEF SlotInv, AppliedNeverDropped
<1>5. CASE ObserveUnknown \/ ObserveFails \/ ObserveOne \/ SelectFails \/ Select
  BY <1>1, <1>5 DEF ObserveUnknown, ObserveFails, ObserveOne, SelectFails, Select, EndCall,
                    Goto, stateVars, SlotInv, AppliedNeverDropped
<1>6. CASE EnsureTunnel \/ Prepared \/ Validate \/ CommitImmediate \/ CommitGraceful
           \/ PauseEnds \/ DrainEnds
  BY <1>1, <1>6 DEF EnsureTunnel, Prepared, Validate, CommitImmediate, CommitGraceful,
                    PauseEnds, DrainEnds, Goto, SlotInv, AppliedNeverDropped
<1>7. CASE EnsureFails \/ ObservedFull \/ ProbeFails \/ ValidationFails \/ CommitReserved
           \/ SwitchFails \/ ConfirmFails
  <2>1. pc \notin {"idle", "observing"} /\ \E err, log, added : Fail(err, log, added)
    BY <1>7 DEF EnsureFails, ObservedFull, ProbeFails, ValidationFails, CommitReserved,
                SwitchFails, ConfirmFails
  <2> QED
    BY <2>1, FailSlots
<1>8. CASE Switch
  <2>1. /\ pc' = "confirming" /\ UNCHANGED <<intent, target, intentCount>>
        /\ applied' = Record(applied, intent.key, target)
    BY <1>8 DEF Switch, Goto
  <2>2. Cardinality(Filled(applied)) + 1 <= intentCount
    BY <1>8 DEF Switch, SlotInv
  <2>3. Cardinality(Filled(applied')) <= intentCount
    BY <1>1, <1>8, <2>1, <2>2, SwitchRecords, RecordCount
  <2>4. applied'[intent.key] = target
    BY <1>1, <1>8, SwitchRecords
  <2> QED
    BY <2>1, <2>3, <2>4 DEF SlotInv, AppliedNeverDropped
<1>9. CASE Confirm
  BY <1>1, <1>9 DEF Confirm, EndCall, SlotInv, AppliedNeverDropped
<1> QED
  BY <1>2, <1>3, <1>4, <1>5, <1>6, <1>7, <1>8, <1>9 DEF Next, CallStep, Environment

LEMMA SlotInit == Init => SlotInv
<1>1. Filled(EmptyTable) = {}
  BY DEF Filled, EmptyTable
<1>2. Init => pc = "idle" /\ applied = EmptyTable /\ intentCount = 0
  BY DEF Init
<1> QED
  BY <1>1, <1>2, FS_EmptySet DEF SlotInv, AppliedNeverDropped

(* en_set_applied_path never drops the path a switch has just installed,     *)
(* although it drops silently when its table is full: the limit on accepted  *)
(* intents keeps a slot free.                                                *)
THEOREM SwitchIsRecorded == Spec => []AppliedNeverDropped
<1>1. SlotInv => AppliedNeverDropped
  BY DEF SlotInv
<1> QED
  BY <1>1, TypeCorrect, SlotInit, SlotStep, PTL DEF Spec

------------------------------------------------------------------------------
(* The switch, with the VPP mock.  Until the install step neither the record *)
(* nor the adapter has changed since the submission, and the rollback path   *)
(* is the one still recorded; after it both have moved the call's key to the *)
(* target, so the confirmation cannot fail.                                  *)

Moved(t, k, p) == [t EXCEPT ![k] = p]

SwitchInv ==
  /\ AllOrNothing
  /\ pc \notin {"idle", "confirming"} => applied = before.applied /\ table = before.table
  /\ pc \notin {"idle", "observing", "confirming"} => prev = applied[intent.key]
  /\ pc = "confirming" =>
       /\ applied = Moved(before.applied, intent.key, target)
       /\ table = Moved(before.table, intent.key, target)

(* Before the install step, rollback() leaves the record as it is. *)
LEMMA FailKeeps ==
  ASSUME TypeOK, SwitchInv, pc \notin {"idle", "observing", "confirming"},
         NEW err, err # "none", NEW log, NEW added, Fail(err, log, added), table' = table
  PROVE  SwitchInv' /\ applied' = applied
<1>1. intent.key \in Keys /\ applied \in [Keys -> Paths \cup {NoPath}]
  BY IntentKey DEF TypeOK, CallTypeOK, StateTypeOK
<1>2. prev = applied[intent.key]
  BY DEF SwitchInv
<1>3. applied' = applied
  BY <1>1, <1>2 DEF Fail, Rollback, Record
<1>4. pc' = "idle" /\ reply'.err = err /\ before' = before
  BY DEF Fail, EndCall, Answer
<1>5. applied = before.applied /\ table = before.table
  BY DEF SwitchInv
<1> QED
  BY <1>3, <1>4, <1>5 DEF SwitchInv, AllOrNothing

LEMMA SwitchStep ==
  ASSUME VppAdapter = "mock"
  PROVE  TypeOK /\ SlotInv /\ SwitchInv /\ [Next]_vars => SwitchInv'
<1> SUFFICES ASSUME TypeOK, SlotInv, SwitchInv, [Next]_vars PROVE SwitchInv'
  OBVIOUS
<1>1. /\ applied \in [Keys -> Paths \cup {NoPath}] /\ table \in [Keys -> Paths \cup {NoPath}]
      /\ pc # "idle" => intent.key \in Keys
  BY IntentKey DEF TypeOK, CallTypeOK, StateTypeOK, AdaptersTypeOK
<1>2. ASSUME NEW i \in Intents, Submit(i) PROVE SwitchInv'
  BY <1>2 DEF Submit, Snapshot, adapterVars, SwitchInv, AllOrNothing
<1>3. CASE SubmitRejected
  <2>1. /\ pc' = "idle" /\ reply'.err = "invalid_argument"
        /\ applied' = applied /\ table' = table
        /\ before'.applied = applied /\ before'.table = table
    BY <1>3 DEF SubmitRejected, Snapshot, Answer, adapterVars, stateVars, callVars
  <2> QED
    BY <2>1 DEF SwitchInv, AllOrNothing
<1>4. CASE NetworkChange \/ InjectFailure \/ UNCHANGED vars
  BY <1>4 DEF NetworkChange, InjectFailure, vars, adapterVars, stateVars, callVars, clientVars,
              SwitchInv, AllOrNothing
<1>5. CASE Restart
  <2>1. /\ pc' = "idle" /\ reply' = NoReply /\ applied' = EmptyTable /\ table' = table
        /\ before'.applied = EmptyTable /\ before'.table = table
    BY <1>5 DEF Restart, NewController, Snapshot, adapterVars
  <2>2. NoReply.key \notin Keys
    BY ControllerAssumption DEF NoReply, Answer
  <2> QED
    BY <2>1, <2>2 DEF SwitchInv, AllOrNothing
<1>6. ~ Crash
  BY DEF Crash
<1>7. CASE ObserveUnknown \/ ObserveFails \/ SelectFails
  <2>1. /\ pc = "observing" /\ pc' = "idle" /\ before' = before /\ reply'.err # "none"
        /\ UNCHANGED <<applied, table>>
    BY <1>7 DEF ObserveUnknown, ObserveFails, SelectFails, EndCall, Answer, adapterVars,
                stateVars
  <2> QED
    BY <2>1 DEF SwitchInv, AllOrNothing
<1>8. CASE ObserveOne \/ Select
  BY <1>8 DEF ObserveOne, Select, Goto, adapterVars, clientVars, SwitchInv, AllOrNothing
<1>9. CASE EnsureTunnel \/ Prepared \/ Validate \/ CommitImmediate \/ CommitGraceful
           \/ PauseEnds \/ DrainEnds
  BY <1>9 DEF EnsureTunnel, Prepared, Validate, CommitImmediate, CommitGraceful, PauseEnds,
              DrainEnds, Goto, adapterVars, clientVars, SwitchInv, AllOrNothing
<1>10. CASE EnsureFails \/ ObservedFull \/ ProbeFails \/ ValidationFails \/ CommitReserved
            \/ SwitchFails
  <2>1. /\ pc \notin {"idle", "observing", "confirming"}
        /\ \E err, log, added : err # "none" /\ Fail(err, log, added)
    BY <1>10 DEF EnsureFails, ObservedFull, ProbeFails, ValidationFails, CommitReserved,
                 SwitchFails
  <2>2. table' = table
    BY <1>10, PathsAssumption
    DEF EnsureFails, ObservedFull, ProbeFails, ValidationFails, CommitReserved,
        SwitchFails, InstallPath, MockInstall, adapterVars
  <2> QED
    BY <2>1, <2>2, FailKeeps
<1>11. CASE Switch
  <2>1. /\ pc = "switching" /\ pc' = "confirming"
        /\ UNCHANGED <<intent, target, before>>
        /\ table' = Moved(table, intent.key, target)
    BY <1>11 DEF Switch, Goto, clientVars, InstallPath, MockInstall, Moved
  <2>2. applied' = Moved(applied, intent.key, target)
    BY <1>11, SwitchRecords DEF Moved
  <2> QED
    BY <2>1, <2>2 DEF SwitchInv, AllOrNothing
<1>12. CASE Confirm
  <2>1. /\ pc = "confirming" /\ pc' = "idle" /\ before' = before
        /\ reply' = Answer(intent.key, "none", target)
        /\ UNCHANGED <<applied, table>>
    BY <1>12 DEF Confirm, EndCall, adapterVars
  <2> QED
    BY <1>1, <2>1 DEF SwitchInv, AllOrNothing, Answer, Moved
<1>13. ~ ConfirmFails
  <2> SUFFICES ASSUME ConfirmFails PROVE FALSE
    OBVIOUS
  <2>1. intent.key \in Keys /\ table = Moved(before.table, intent.key, target)
    BY <1>1 DEF ConfirmFails, SwitchInv
  <2>2. before.table \in [Keys -> Paths \cup {NoPath}]
    BY DEF TypeOK, BeforeRecords
  <2> QED
    BY <2>1, <2>2 DEF ConfirmFails, ActivePath, Moved
<1> QED
  BY <1>2, <1>3, <1>4, <1>5, <1>6, <1>7, <1>8, <1>9, <1>10, <1>11, <1>12, <1>13
  DEF Next, CallStep, Environment

LEMMA SwitchInit == Init => SwitchInv
<1> SUFFICES ASSUME Init PROVE SwitchInv
  OBVIOUS
<1>1. NoReply.key \notin Keys
  BY ControllerAssumption DEF NoReply, Answer
<1>2. pc = "idle" /\ reply = NoReply /\ before.applied = applied /\ before.table = table
  BY DEF Init, Snapshot
<1> QED
  BY <1>1, <1>2 DEF SwitchInv, AllOrNothing

(* With the VPP mock a submission is all or nothing: an answered call moved  *)
(* exactly its own key to the path it reports, in the record and in the      *)
(* adapter, or it changed neither, whichever stage failed.                   *)
THEOREM SubmissionIsAtomic ==
  ASSUME VppAdapter = "mock"
  PROVE  Spec => []AllOrNothing
<1>1. SwitchInv => AllOrNothing
  BY DEF SwitchInv
<1>2. TypeOK /\ SlotInv /\ SwitchInv /\ [Next]_vars => SwitchInv'
  BY SwitchStep
<1> QED
  BY <1>1, <1>2, TypeCorrect, SlotInit, SlotStep, SwitchInit, PTL DEF Spec

LEMMA ForwardedStep ==
  ASSUME VppAdapter = "mock"
  PROVE  TypeOK /\ SlotInv /\ SwitchInv /\ AppliedIsForwarded /\ [Next]_vars
           => AppliedIsForwarded'
<1> SUFFICES ASSUME TypeOK, SlotInv, SwitchInv, AppliedIsForwarded, [Next]_vars
             PROVE  AppliedIsForwarded'
  OBVIOUS
<1>1. /\ applied \in [Keys -> Paths \cup {NoPath}] /\ table \in [Keys -> Paths \cup {NoPath}]
      /\ before.table \in [Keys -> Paths \cup {NoPath}]
      /\ pc # "idle" => intent.key \in Keys
  BY IntentKey DEF TypeOK, CallTypeOK, StateTypeOK, AdaptersTypeOK, BeforeRecords
<1>2. CASE /\ UNCHANGED <<applied, table>>
  BY <1>2 DEF AppliedIsForwarded
<1>3. CASE Restart
  BY <1>3 DEF Restart, NewController, EmptyTable, adapterVars, AppliedIsForwarded
<1>4. CASE Switch
  <2>1. table' = [table EXCEPT ![intent.key] = target]
    BY <1>4 DEF Switch, InstallPath, MockInstall
  <2>2. applied' = [applied EXCEPT ![intent.key] = target]
    BY <1>4, SwitchRecords
  <2> QED
    BY <1>1, <2>1, <2>2 DEF AppliedIsForwarded
<1>5. CASE EnsureFails \/ ObservedFull \/ ProbeFails \/ ValidationFails \/ CommitReserved
           \/ SwitchFails
  <2>1. /\ pc \notin {"idle", "observing", "confirming"}
        /\ \E err, log, added : err # "none" /\ Fail(err, log, added)
    BY <1>5 DEF EnsureFails, ObservedFull, ProbeFails, ValidationFails, CommitReserved,
                SwitchFails
  <2>2. table' = table
    BY <1>5 DEF EnsureFails, ObservedFull, ProbeFails, ValidationFails, CommitReserved,
                SwitchFails, InstallPath, MockInstall, adapterVars
  <2>3. applied' = applied
    BY <2>1, <2>2, FailKeeps
  <2> QED
    BY <2>2, <2>3 DEF AppliedIsForwarded
<1>6. ASSUME ConfirmFails PROVE FALSE
  <2>1. table = Moved(before.table, intent.key, target) /\ intent.key \in Keys
    BY <1>1, <1>6 DEF ConfirmFails, SwitchInv
  <2> QED
    BY <1>1, <1>6, <2>1 DEF ConfirmFails, ActivePath, Moved
<1>7. ASSUME Crash PROVE FALSE
  BY <1>7 DEF Crash
<1>8. ASSUME \/ \E i \in Intents : Submit(i)
             \/ SubmitRejected \/ NetworkChange \/ InjectFailure \/ UNCHANGED vars
             \/ ObserveUnknown \/ ObserveFails \/ ObserveOne \/ SelectFails \/ Select
             \/ EnsureTunnel \/ Prepared \/ Validate \/ CommitImmediate \/ CommitGraceful
             \/ PauseEnds \/ DrainEnds \/ Confirm
      PROVE  UNCHANGED <<applied, table>>
  BY <1>8 DEF Submit, SubmitRejected, NetworkChange, InjectFailure, vars, ObserveUnknown,
    ObserveFails, ObserveOne, SelectFails, Select, EnsureTunnel, Prepared, Validate,
    CommitImmediate, CommitGraceful, PauseEnds, DrainEnds, Confirm, adapterVars, stateVars
<1> QED
  BY <1>2, <1>3, <1>4, <1>5, <1>6, <1>7, <1>8 DEF Next, CallStep, Environment

(* With the VPP mock, what the controller records as applied is what the     *)
(* adapter forwards on, in every state of every behaviour.                   *)
THEOREM RecordMatchesAdapter ==
  ASSUME VppAdapter = "mock"
  PROVE  Spec => []AppliedIsForwarded
<1>1. Init => AppliedIsForwarded
  BY DEF Init, AppliedIsForwarded, EmptyTable
<1>2. TypeOK /\ SlotInv /\ SwitchInv /\ AppliedIsForwarded /\ [Next]_vars
        => AppliedIsForwarded'
  BY ForwardedStep
<1>3. TypeOK /\ SlotInv /\ SwitchInv /\ [Next]_vars => SwitchInv'
  BY SwitchStep
<1> QED
  BY <1>1, <1>2, <1>3, TypeCorrect, SlotInit, SlotStep, SwitchInit, PTL DEF Spec

------------------------------------------------------------------------------
(* What the audit trail says of an answered call is true, for every wiring  *)
(* of the adapters: also when commands fail after they acted, when the      *)
(* network changes during the call and when the process dies.               *)

(* TrailTellsOutcome is about answered calls only.  Until the install step   *)
(* the record is the one the call began with, and the rollback path is what  *)
(* it holds for the call's key; after it that key alone has moved.  A call   *)
(* that observes has appended its first event and no other.                  *)
TrailInv ==
  /\ TrailTellsOutcome
  /\ pc = "observing" => audit.event = "INTENT_CREATED"
  /\ pc \notin {"idle", "confirming"} => applied = before.applied
  /\ pc \notin {"idle", "observing"} => prev = before.applied[intent.key]
  /\ pc = "confirming" => applied = Moved(before.applied, intent.key, target)

(* A log with a free entry takes the event. *)
LEMMA Append1Last ==
  ASSUME NEW log, NEW event, NEW ref, log.count \in Nat, log.count < MaxEvents
  PROVE  /\ Append1(log, event, ref).event = event
         /\ Append1(log, event, ref).ref = ref
BY CapacitiesType DEF Append1

(* Every stage ends with the record it began with, and says whether there    *)
(* was a path to go back to.                                                 *)
LEMMA FailTells ==
  ASSUME TypeOK, TrailInv, pc \notin {"idle", "observing"},
         NEW err \in ErrorCodes \ {"none"}, NEW log, NEW added, Fail(err, log, added),
         log.count \in Nat, log.count < MaxEvents
  PROVE  TrailInv'
<1>1. /\ intent.key \in Keys /\ target \in Paths /\ prev \in Paths \cup {NoPath}
      /\ applied \in [Keys -> Paths \cup {NoPath}]
      /\ before.applied \in [Keys -> Paths \cup {NoPath}]
      /\ NoPath \notin Paths
  BY IntentKey, PathsAssumption DEF TypeOK, CallTypeOK, StateTypeOK, BeforeRecords
<1>2. prev = before.applied[intent.key]
  BY DEF TrailInv
<1>3. /\ pc' = "idle" /\ before' = before
      /\ reply'.key = intent.key /\ reply'.err = err
  BY DEF Fail, EndCall, Answer
<1>4. CASE prev = NoPath
  <2>1. transition' = "failed" /\ audit'.event = "ROLLBACK_SKIPPED"
    BY <1>4, Append1Last DEF Fail, Rollback
  <2> QED
    BY <1>1, <1>2, <1>3, <1>4, <2>1 DEF TrailInv, TrailTellsOutcome, Answered
<1>5. CASE prev # NoPath
  <2>1. /\ transition' = "idle" /\ audit'.event = "ROLLBACK_COMPLETED" /\ audit'.ref = prev
        /\ applied' = Record(applied, intent.key, prev)
    BY <1>5, Append1Last DEF Fail, Rollback
  <2>2. intent.key \in Filled(applied)
    <3>1. CASE pc = "confirming"
      BY <1>1, <3>1 DEF TrailInv, Moved, Filled
    <3>2. CASE pc # "confirming"
      BY <1>1, <1>2, <1>5, <3>2 DEF TrailInv, Filled
    <3> QED
      BY <3>1, <3>2
  <2>3. applied' = [applied EXCEPT ![intent.key] = prev]
    BY <2>1, <2>2 DEF Record, HasSlot
  <2>4. applied' = before.applied
    <3>1. CASE pc = "confirming"
      BY <1>1, <1>2, <2>3, <3>1 DEF TrailInv, Moved
    <3>2. CASE pc # "confirming"
      BY <1>1, <1>2, <2>3, <3>2 DEF TrailInv
    <3> QED
      BY <3>1, <3>2
  <2> QED
    BY <1>1, <1>2, <1>3, <1>5, <2>1, <2>4 DEF TrailInv, TrailTellsOutcome, Answered
<1> QED
  BY <1>4, <1>5

LEMMA TrailStep == TypeOK /\ RoomInv /\ SlotInv /\ TrailInv /\ [Next]_vars => TrailInv'
<1> SUFFICES ASSUME TypeOK, RoomInv, SlotInv, TrailInv, [Next]_vars PROVE TrailInv'
  OBVIOUS
<1>1. /\ audit.count \in Nat /\ intentCount \in Nat
      /\ pc # "idle" => /\ audit.count < MaxEvents
                        /\ intent.key \in Keys
      /\ NoPath \notin Paths
      /\ applied \in [Keys -> Paths \cup {NoPath}]
      /\ before.applied \in [Keys -> Paths \cup {NoPath}]
  BY IntentKey, RoomSuffices, CapacitiesType, PathsAssumption
  DEF TypeOK, StateTypeOK, CallTypeOK, AuditLogs, LogsHaveRoom, BeforeRecords
<1>2. ASSUME NEW i \in Intents, Submit(i) PROVE TrailInv'
  <2>1. audit.count < MaxEvents
    BY <1>1, <1>2, CapacitiesType, CapacityAssumption DEF Submit, RoomInv, EventsLeft
  <2> QED
    BY <1>1, <1>2, <2>1, Append1Last DEF Submit, Snapshot, TrailInv, TrailTellsOutcome, Answered
<1>3. CASE SubmitRejected
  <2>1. reply'.key \notin Keys
    BY <1>3, ControllerAssumption DEF SubmitRejected, Answer
  <2> QED
    BY <1>3, <2>1 DEF SubmitRejected, callVars, TrailInv, TrailTellsOutcome, Answered
<1>4. CASE NetworkChange \/ InjectFailure \/ UNCHANGED vars
  BY <1>4 DEF NetworkChange, InjectFailure, vars, stateVars, callVars, clientVars, TrailInv,
              TrailTellsOutcome, Answered
<1>5. CASE Restart \/ Crash
  <2>1. pc' = "idle" /\ reply'.key \notin Keys
    BY <1>5, ControllerAssumption DEF Restart, Crash, NewController, NoReply, Answer
  <2> QED
    BY <2>1 DEF TrailInv, TrailTellsOutcome, Answered
<1>6. CASE ObserveUnknown \/ ObserveFails \/ SelectFails
  <2>1. /\ pc = "observing" /\ pc' = "idle"
        /\ UNCHANGED <<applied, audit, before>>
        /\ reply'.err # "none" /\ reply'.path = NoPath
    BY <1>6 DEF ObserveUnknown, ObserveFails, SelectFails, EndCall, Answer, stateVars
  <2> QED
    BY <1>1, <2>1 DEF TrailInv, TrailTellsOutcome, Answered
<1>7. CASE ObserveOne
  BY <1>7 DEF ObserveOne, Goto, clientVars, TrailInv, TrailTellsOutcome, Answered
<1>8. CASE Select
  BY <1>8 DEF Select, clientVars, TrailInv, TrailTellsOutcome, Answered
<1>9. CASE EnsureTunnel \/ Prepared \/ Validate \/ CommitImmediate \/ CommitGraceful
           \/ PauseEnds \/ DrainEnds
  BY <1>9 DEF EnsureTunnel, Prepared, Validate, CommitImmediate, CommitGraceful, PauseEnds,
              DrainEnds, Goto, clientVars, TrailInv, TrailTellsOutcome, Answered
<1>10. CASE EnsureFails \/ ObservedFull \/ ProbeFails \/ ValidationFails \/ SwitchFails
            \/ ConfirmFails
  <2>1. /\ pc \notin {"idle", "observing"}
        /\ \E err \in ErrorCodes \ {"none"} : \E added \in {1, 2} : Fail(err, audit, added)
    BY <1>10, ProbeType
    DEF EnsureFails, ObservedFull, ProbeFails, ValidationFails, SwitchFails, ConfirmFails,
        ErrorCodes, EnsureErrors, ProbeResults, TypeOK, AdaptersTypeOK, CallTypeOK
  <2> QED
    BY <1>1, <2>1, FailTells
<1>11. CASE CommitReserved
  <2> DEFINE log == Append1(audit, "COMMIT", target)
  <2>1. log.count \in Nat /\ log.count <= audit.count + 1
    BY <1>1, <1>11, Append1Count
    DEF CommitReserved, TypeOK, StateTypeOK, CallTypeOK, AuditEvents
  <2>2. log.count < MaxEvents
    BY <1>1, <1>11, <2>1, CapacitiesType, CapacityAssumption
    DEF CommitReserved, RoomInv, EventsLeft, TypeOK, StateTypeOK
  <2>3. pc \notin {"idle", "observing"} /\ Fail("forwarding_update_failed", log, 2)
    BY <1>11 DEF CommitReserved
  <2> HIDE DEF log
  <2> QED
    BY <2>1, <2>2, <2>3, FailTells DEF ErrorCodes
<1>12. CASE Switch
  <2>1. applied' = Moved(applied, intent.key, target)
    BY <1>12, SwitchRecords DEF Moved
  <2> QED
    BY <1>12, <2>1 DEF Switch, Goto, clientVars, TrailInv, TrailTellsOutcome, Answered
<1>13. CASE Confirm
  <2>1. /\ audit'.event = "TRANSITION_COMPLETED" /\ audit'.ref = target
        /\ transition' = "idle" /\ pc' = "idle" /\ UNCHANGED <<applied, before>>
        /\ reply' = Answer(intent.key, "none", target)
    BY <1>1, <1>13, Append1Last DEF Confirm, EndCall
  <2>2. applied[intent.key] = target
    BY <1>1, <1>13 DEF Confirm, TrailInv, Moved
  <2> QED
    BY <2>1, <2>2 DEF TrailInv, TrailTellsOutcome, Answered, Answer
<1> QED
  BY <1>2, <1>3, <1>4, <1>5, <1>6, <1>7, <1>8, <1>9, <1>10, <1>11, <1>12, <1>13
  DEF Next, CallStep, Environment

LEMMA TrailInit == Init => TrailInv
<1> SUFFICES ASSUME Init PROVE TrailInv
  OBVIOUS
<1>1. pc = "idle" /\ reply.key \notin Keys
  BY ControllerAssumption DEF Init, NoReply, Answer
<1> QED
  BY <1>1 DEF TrailInv, TrailTellsOutcome, Answered

(* The audit trail tells how an answered call ended, whatever stage failed   *)
(* and whatever the adapters did: a completed transition is recorded exactly *)
(* when the call succeeded, and after a rollback the record is the one the   *)
(* call found (en_transition_path, rollback).                                *)
THEOREM TrailIsTrue == Spec => []TrailTellsOutcome
<1>1. TrailInv => TrailTellsOutcome
  BY DEF TrailInv
<1>2. Init => RoomInv
  BY DEF Init, RoomInv, EventsLeft
<1> QED
  BY <1>1, <1>2, TypeCorrect, RoomStep, SlotInit, SlotStep, TrailInit, TrailStep, PTL DEF Spec

-----------------------------------------------------------------------------
(* What each adapter sees.                                                  *)

(* Once a path is selected it is one the intent accepts. *)
AcceptedInv == pc \notin {"idle", "observing"} => target \in Accepts(intent)

LEMMA SelectedIsAccepted ==
  ASSUME NEW i \in Intents, NEW h, NEW o \in SelectPath(i, h), o.err = "none"
  PROVE  o.path \in Accepts(i)
<1>0. o.path \in Paths
  BY SelectPathType
<1>1. CASE i.mode = "explicit"
  BY <1>0, <1>1 DEF SelectPath, ExplicitOutcome, Outcome, Accepts
<1>2. CASE i.mode = "priority"
  BY <1>0, <1>2 DEF SelectPath, PriorityOutcome, PriorityStops, NoneUsable, Outcome, Accepts
<1>3. CASE i.mode \notin {"explicit", "priority"}
  <2>1. o \in EvaluatedOutcome(i, h)
    BY <1>3 DEF SelectPath
  <2>2. o.path \in UsableOf(i, h)
    BY <2>1 DEF EvaluatedOutcome, NoneUsable, Outcome, BestOf
  <2>3. i.cands \in Seq(PathIds)
    BY ControllerAssumption DEF IntentRecords
  <2> QED
    BY <1>0, <1>3, <2>2, <2>3 DEF UsableOf, Named, Accepts
<1> QED
  BY <1>1, <1>2, <1>3

LEMMA AcceptedStep == TypeOK /\ AcceptedInv /\ [Next]_vars => AcceptedInv'
<1> SUFFICES ASSUME TypeOK, AcceptedInv, [Next]_vars PROVE AcceptedInv'
  OBVIOUS
<1>1. CASE \/ \E i \in Intents : Submit(i)
           \/ SubmitRejected \/ Restart \/ Crash
           \/ ObserveUnknown \/ ObserveFails \/ ObserveOne \/ SelectFails
           \/ EnsureFails \/ ObservedFull \/ ProbeFails \/ ValidationFails \/ CommitReserved
           \/ SwitchFails \/ Confirm \/ ConfirmFails
  <2>1. pc' \in {"idle", "observing"}
    BY <1>1 DEF Submit, SubmitRejected, Restart, Crash, NewController, ObserveUnknown,
      ObserveFails, ObserveOne, SelectFails, EnsureFails, ObservedFull, ProbeFails,
      ValidationFails, CommitReserved, SwitchFails, Confirm, ConfirmFails, Fail, EndCall,
      Goto, callVars
  <2> QED
    BY <2>1 DEF AcceptedInv
<1>2. CASE Select
  <2>1. PICK o \in SelectPath(intent, health) : o.err = "none" /\ target' = o.path
    BY <1>2 DEF Select
  <2>2. intent \in Intents /\ intent' = intent
    BY <1>2 DEF Select, TypeOK, CallTypeOK
  <2>3. target' \in Accepts(intent)
    BY <2>1, <2>2, SelectedIsAccepted
  <2> QED
    BY <2>2, <2>3 DEF AcceptedInv
<1>3. CASE \/ EnsureTunnel \/ Prepared \/ Validate \/ CommitImmediate \/ CommitGraceful
           \/ PauseEnds \/ DrainEnds \/ Switch
           \/ NetworkChange \/ InjectFailure \/ UNCHANGED vars
  <2>1. /\ UNCHANGED <<target, intent>>
        /\ pc' \notin {"idle", "observing"} => pc \notin {"idle", "observing"}
    BY <1>3 DEF EnsureTunnel, Prepared, Validate, CommitImmediate, CommitGraceful, PauseEnds,
      DrainEnds, Switch, NetworkChange, InjectFailure, vars, callVars, Goto
  <2> QED
    BY <2>1 DEF AcceptedInv
<1> QED
  BY <1>1, <1>2, <1>3 DEF Next, CallStep, Environment

------------------------------------------------------------------------------
(* The refinement mapping, step by step.                                     *)

LEMMA JobIsNoneIffIdle ==
  ASSUME TypeOK
  PROVE  JobOf = NoIntent <=> pc = "idle"
<1>1. pc # "idle" => intent.key \in Keys /\ Accepts(intent) \in SUBSET Paths
  BY IntentKey DEF TypeOK, CallTypeOK, Accepts
<1> QED
  BY <1>1, JobAssumption DEF JobOf

(* An answer to a submission is a success or an error, never "none". *)
LEMMA AnswerOfCall ==
  ASSUME NEW k, NEW err, NEW path, reply' = Answer(k, err, path),
         k \in Keys \/ err # "none"
  PROVE  AnswerOf' = IF err = "none" THEN "success" ELSE "error"
BY ControllerAssumption DEF AnswerOf, NoReply, Answer

(* A call that ends without having moved its key refuses the request. *)
LEMMA EndsRefused ==
  ASSUME TypeOK, pc \notin {"idle", "confirming"}, NEW err, err # "none", NEW path,
         EndCall(err, path), table' = table
  PROVE  Service!ServiceNext
<1>1. AnswerOf' = "error" /\ JobOf' = NoIntent
  BY AnswerOfCall DEF EndCall, JobOf
<1>2. JobOf # NoIntent /\ ~ JobOf.done
  BY JobIsNoneIffIdle DEF JobOf
<1>3. Service!Refuse
  BY <1>1, <1>2 DEF Service!Refuse
<1> QED
  BY <1>3 DEF Service!ServiceNext

LEMMA ServiceStep ==
  ASSUME VppAdapter = "mock"
  PROVE  TypeOK /\ TypeOK' /\ SlotInv /\ SwitchInv /\ AcceptedInv /\ [Next]_vars
           => [Service!ServiceNext]_(Service!serviceVars)
<1> SUFFICES ASSUME TypeOK, TypeOK', SlotInv, SwitchInv, AcceptedInv, [Next]_vars,
                    ~ UNCHANGED Service!serviceVars
             PROVE  Service!ServiceNext
  OBVIOUS
<1>1. pc # "idle" => intent \in Intents /\ intent.key \in Keys
  BY IntentKey DEF TypeOK, CallTypeOK
<1>2. ASSUME NEW i \in Intents, Submit(i) PROVE Service!ServiceNext
  <2>1. i.key \in Keys /\ Accepts(i) \in SUBSET Paths
    BY IntentKey DEF Accepts
  <2>2. /\ JobOf = NoIntent /\ JobOf' = [key |-> i.key, accepts |-> Accepts(i), done |-> FALSE]
        /\ UNCHANGED <<table, reply>>
    BY <1>2 DEF Submit, JobOf, adapterVars, Accepts
  <2>3. Service!Request(i.key, Accepts(i))
    BY <2>2 DEF Service!Request, AnswerOf
  <2> QED
    BY <2>1, <2>3 DEF Service!ServiceNext
<1>3. CASE SubmitRejected
  <2>1. JobOf = NoIntent /\ JobOf' = NoIntent /\ table' = table
    BY <1>3 DEF SubmitRejected, JobOf, callVars, adapterVars
  <2>2. AnswerOf' = "error"
    BY <1>3, AnswerOfCall DEF SubmitRejected
  <2>3. Service!Refuse
    BY <2>1, <2>2 DEF Service!Refuse
  <2> QED
    BY <2>3 DEF Service!ServiceNext
<1>4. CASE Restart
  <2>1. JobOf = NoIntent /\ JobOf' = NoIntent /\ table' = table /\ AnswerOf' = "none"
    BY <1>4 DEF Restart, NewController, JobOf, adapterVars, AnswerOf
  <2>2. Service!Forget
    BY <2>1 DEF Service!Forget
  <2> QED
    BY <2>2 DEF Service!ServiceNext
<1>5. CASE ObserveUnknown \/ ObserveFails \/ SelectFails
  <2>1. /\ pc = "observing" /\ table' = table
        /\ \E err, path : err # "none" /\ EndCall(err, path)
    BY <1>5 DEF ObserveUnknown, ObserveFails, SelectFails, adapterVars
  <2> QED
    BY <2>1, EndsRefused
<1>6. CASE EnsureFails \/ ObservedFull \/ ProbeFails \/ ValidationFails \/ CommitReserved
           \/ SwitchFails
  <2>1. /\ pc \notin {"idle", "confirming"}
        /\ \E err, path : err # "none" /\ EndCall(err, path)
    BY <1>6 DEF EnsureFails, ObservedFull, ProbeFails, ValidationFails, CommitReserved,
                SwitchFails, Fail
  <2>2. table' = table
    BY <1>6 DEF EnsureFails, ObservedFull, ProbeFails, ValidationFails, CommitReserved,
                SwitchFails, InstallPath, MockInstall, adapterVars
  <2> QED
    BY <2>1, <2>2, EndsRefused
<1>7. CASE Switch
  <2>1. /\ pc = "switching" /\ pc' = "confirming" /\ UNCHANGED <<intent, reply>>
        /\ table' = [table EXCEPT ![intent.key] = target]
    BY <1>7 DEF Switch, Goto, clientVars, InstallPath, MockInstall
  <2>2. /\ JobOf = [key |-> intent.key, accepts |-> Accepts(intent), done |-> FALSE]
        /\ JobOf' = [key |-> intent.key, accepts |-> Accepts(intent), done |-> TRUE]
    <3>1. Accepts(intent)' = Accepts(intent)
      BY <2>1 DEF Accepts
    <3> QED
      BY <2>1, <3>1 DEF JobOf
  <2>3. JobOf # NoIntent /\ target \in Accepts(intent) /\ target \in Paths
    BY <2>1, JobIsNoneIffIdle DEF AcceptedInv, Accepts
  <2>4. /\ ~ JobOf.done /\ target \in JobOf.accepts
        /\ table' = [table EXCEPT ![JobOf.key] = target]
    BY <2>1, <2>2, <2>3
  <2>5. JobOf' = [JobOf EXCEPT !.done = TRUE]
    <3> DEFINE JobsOfIntent == [key : {intent.key}, accepts : {Accepts(intent)}, done : BOOLEAN]
    <3>1. JobOf \in JobsOfIntent /\ JobOf' \in JobsOfIntent
      <4>1. FALSE \in BOOLEAN /\ TRUE \in BOOLEAN
        OBVIOUS
      <4> QED
        BY <2>2, <4>1, Zenon
    <3>2. [JobOf EXCEPT !.done = TRUE] \in JobsOfIntent
      BY <3>1
    <3>3. JobOf'.done = TRUE /\ [JobOf EXCEPT !.done = TRUE].done = TRUE
      BY <2>2, <3>1
    <3> QED
      BY <3>1, <3>2, <3>3
  <2>6. UNCHANGED AnswerOf
    BY <2>1 DEF AnswerOf
  <2>7. Service!PutOn(target)
    BY <2>3, <2>4, <2>5, <2>6 DEF Service!PutOn
  <2> QED
    BY <2>3, <2>7 DEF Service!ServiceNext
<1>8. CASE Confirm
  <2>1. /\ pc = "confirming" /\ pc' = "idle" /\ table' = table
        /\ reply' = Answer(intent.key, "none", target)
    BY <1>8 DEF Confirm, EndCall, adapterVars
  <2>2. AnswerOf' = "success"
    BY <1>1, <2>1, AnswerOfCall
  <2>3. JobOf # NoIntent /\ JobOf.done /\ JobOf' = NoIntent
    BY <2>1, JobIsNoneIffIdle DEF JobOf
  <2>4. Service!Succeed
    BY <2>1, <2>2, <2>3 DEF Service!Succeed
  <2> QED
    BY <2>4 DEF Service!ServiceNext
<1>9. ASSUME ConfirmFails PROVE FALSE
  <2>1. /\ table = Moved(before.table, intent.key, target) /\ intent.key \in Keys
        /\ before.table \in [Keys -> Paths \cup {NoPath}]
    BY <1>1, <1>9 DEF ConfirmFails, SwitchInv, TypeOK, BeforeRecords
  <2> QED
    BY <1>9, <2>1 DEF ConfirmFails, ActivePath, Moved
<1>10. ASSUME Crash PROVE FALSE
  BY <1>10 DEF Crash
<1>11. ASSUME \/ ObserveOne \/ Select \/ EnsureTunnel \/ Prepared \/ Validate
              \/ CommitImmediate \/ CommitGraceful \/ PauseEnds \/ DrainEnds
              \/ NetworkChange \/ InjectFailure \/ UNCHANGED vars
       PROVE  FALSE
  <2>1. /\ UNCHANGED <<table, reply, intent>>
        /\ pc' = pc \/ (pc \notin {"idle", "confirming"} /\ pc' \notin {"idle", "confirming"})
    BY <1>11 DEF ObserveOne, Select, EnsureTunnel, Prepared, Validate, CommitImmediate,
      CommitGraceful, PauseEnds, DrainEnds, NetworkChange, InjectFailure, vars, adapterVars,
      callVars, clientVars, Goto
  <2>2. JobOf' = JobOf /\ AnswerOf' = AnswerOf
    BY <2>1 DEF JobOf, AnswerOf, Accepts
  <2> QED
    BY <2>1, <2>2 DEF Service!serviceVars
<1> QED
  BY <1>2, <1>3, <1>4, <1>5, <1>6, <1>7, <1>8, <1>9, <1>10, <1>11
  DEF Next, CallStep, Environment

(* With the VPP mock, every behaviour of the controller is, step by step,    *)
(* one of the abstract service: while a request is served its key moves at   *)
(* most once, to a path the intent accepts, no other key moves, and the      *)
(* answer is a success exactly when it moved.                                *)
THEOREM StepsRefineService ==
  ASSUME VppAdapter = "mock"
  PROVE  Spec => StepsAsService
<1>1. Init => Service!ServiceInit
  BY DEF Init, AdaptersInit, EmptyTable, JobOf, AnswerOf, Service!ServiceInit
<1>2. Init => AcceptedInv
  BY DEF Init, AcceptedInv
<1>3. TypeOK /\ SlotInv /\ SwitchInv /\ [Next]_vars => SwitchInv'
  BY SwitchStep
<1>4. TypeOK /\ TypeOK' /\ SlotInv /\ SwitchInv /\ AcceptedInv /\ [Next]_vars
        => [Service!ServiceNext]_(Service!serviceVars)
  BY ServiceStep
<1> QED
  BY <1>1, <1>2, <1>3, <1>4, TypeCorrect, SlotInit, SlotStep, SwitchInit, AcceptedStep, PTL
  DEF Spec, StepsAsService

------------------------------------------------------------------------------
(* The FIB follows the controller's record, with the command adapter: when   *)
(* each key has a prefix of its own, the adapter's table has a slot for each *)
(* key, and a route command that fails has not acted.                        *)

(* The wiring this is about: "prefix" is the FIB prefix of each key. *)
OwnPrefixes(prefix) ==
  /\ VppAdapter = "command"
  /\ "applied" \notin FailEffects
  /\ Cardinality(Keys) <= MaxCandidates
  /\ \A i \in Intents : \A p \in Accepts(i) : RoutePrefix[p] = prefix[i.key]
  /\ \A k, l \in Keys : prefix[k] = prefix[l] => k = l

(* The record of a key is a path over the key's prefix, and the FIB uses it. *)
(* A call has not touched the record before its switch, so rollback restores *)
(* what the FIB still has; after the switch the adapter remembers the target *)
(* and the confirmation cannot fail.                                         *)
RouteInv(prefix) ==
  /\ \A k \in Keys : applied[k] # NoPath =>
       RoutePrefix[applied[k]] = prefix[k] /\ routes[prefix[k]] = applied[k]
  /\ pc \notin {"idle", "observing", "confirming"} => prev = applied[intent.key]
  /\ pc = "confirming" => table[intent.key] = target

(* A table with a slot for every key never drops an entry. *)
LEMMA RoomForEveryKey ==
  ASSUME Cardinality(Keys) <= MaxCandidates, NEW t \in [Keys -> Paths \cup {NoPath}],
         NEW k \in Keys
  PROVE  HasSlot(t, k)
<1>1. Filled(t) \subseteq Keys /\ IsFiniteSet(Keys) /\ MaxCandidates \in Nat
  BY WiringAssumption DEF Filled
<1>2. CASE k \in Filled(t)
  BY <1>2 DEF HasSlot
<1>3. CASE k \notin Filled(t)
  <2>1. IsFiniteSet(Keys \ {k}) /\ Cardinality(Keys \ {k}) = Cardinality(Keys) - 1
    BY <1>1, FS_RemoveElement
  <2>2. Filled(t) \subseteq Keys \ {k}
    BY <1>1, <1>3
  <2>3. Cardinality(Filled(t)) <= Cardinality(Keys \ {k})
    BY <2>1, <2>2, FS_Subset
  <2>4. Cardinality(Filled(t)) \in Nat /\ Cardinality(Keys) \in Nat
    BY <1>1, <2>1, <2>2, FS_Subset, FS_CardinalityType
  <2>5. Cardinality(Filled(t)) < MaxCandidates
    BY <1>1, <2>1, <2>3, <2>4
  <2> QED
    BY <2>5 DEF HasSlot
<1> QED
  BY <1>2, <1>3

LEMMA FailKeepsRoutes ==
  ASSUME TypeOK, NEW prefix, RouteInv(prefix), pc \notin {"idle", "observing", "confirming"},
         NEW err, NEW log, NEW added, Fail(err, log, added), routes' = routes
  PROVE  RouteInv(prefix)'
<1>1. intent.key \in Keys /\ applied \in [Keys -> Paths \cup {NoPath}]
  BY IntentKey DEF TypeOK, CallTypeOK, StateTypeOK
<1>2. applied' = applied
  BY <1>1 DEF RouteInv, Fail, Rollback, Record
<1>3. pc' = "idle"
  BY DEF Fail, EndCall
<1> QED
  BY <1>2, <1>3 DEF RouteInv

LEMMA SwitchKeepsRoutes ==
  ASSUME TypeOK, SlotInv, AcceptedInv, NEW prefix, OwnPrefixes(prefix), RouteInv(prefix), Switch
  PROVE  RouteInv(prefix)'
<1>1. /\ pc = "switching" /\ pc' = "confirming" /\ UNCHANGED <<intent, target>>
      /\ CommandInstall(intent.key, target, "none")
  BY DEF Switch, Goto, OwnPrefixes, InstallPath
<1>2. /\ intent \in Intents /\ intent.key \in Keys /\ target \in Paths
      /\ target \in Accepts(intent)
      /\ applied \in [Keys -> Paths \cup {NoPath}] /\ table \in [Keys -> Paths \cup {NoPath}]
      /\ routes \in [FibPrefixes -> Paths \cup {NoPath}] /\ NoPath \notin Paths
  BY <1>1, IntentKey, PathsAssumption
  DEF TypeOK, CallTypeOK, StateTypeOK, AdaptersTypeOK, AcceptedInv
<1>3. applied' = [applied EXCEPT ![intent.key] = target]
  BY <1>2, RoomForEveryKey DEF OwnPrefixes, Switch, Record
<1>4. table' = [table EXCEPT ![intent.key] = target]
  BY <1>1, <1>2, RoomForEveryKey DEF OwnPrefixes, CommandInstall, Record
<1>5. routes' = [routes EXCEPT ![prefix[intent.key]] = target] /\ RoutePrefix[target] = prefix[intent.key]
  BY <1>1, <1>2 DEF OwnPrefixes, CommandInstall
<1>6. prefix[intent.key] \in FibPrefixes
  BY <1>2, <1>5, WiringAssumption
<1>7. ASSUME NEW k \in Keys, applied'[k] # NoPath
      PROVE  RoutePrefix[applied'[k]] = prefix[k] /\ routes'[prefix[k]] = applied'[k]
  <2>1. CASE k = intent.key
    BY <1>2, <1>3, <1>5, <1>6, <2>1
  <2>2. CASE k # intent.key
    <3>1. applied'[k] = applied[k] /\ prefix[k] # prefix[intent.key]
      BY <1>2, <1>3, <2>2 DEF OwnPrefixes
    <3>2. RoutePrefix[applied[k]] = prefix[k] /\ routes[prefix[k]] = applied[k]
      BY <1>7, <3>1 DEF RouteInv
    <3>3. applied[k] \in Paths
      BY <1>2, <1>7, <3>1
    <3>4. prefix[k] \in FibPrefixes
      BY <3>2, <3>3, WiringAssumption
    <3> QED
      BY <1>2, <1>5, <3>1, <3>2, <3>4
  <2> QED
    BY <2>1, <2>2
<1>8. table'[intent'.key] = target'
  BY <1>1, <1>2, <1>4
<1> QED
  BY <1>1, <1>7, <1>8 DEF RouteInv

LEMMA RouteStep ==
  ASSUME NEW prefix, OwnPrefixes(prefix)
  PROVE  TypeOK /\ SlotInv /\ AcceptedInv /\ RouteInv(prefix) /\ [Next]_vars => RouteInv(prefix)'
<1> SUFFICES ASSUME TypeOK, SlotInv, AcceptedInv, RouteInv(prefix), [Next]_vars
             PROVE  RouteInv(prefix)'
  OBVIOUS
<1>1. CASE (\E i \in Intents : Submit(i)) \/ SubmitRejected \/ NetworkChange \/ InjectFailure
           \/ UNCHANGED vars \/ ObserveUnknown \/ ObserveFails \/ ObserveOne \/ SelectFails
           \/ Confirm
  <2>1. /\ UNCHANGED <<applied, routes>>
        /\ \/ pc' \in {"idle", "observing"}
           \/ UNCHANGED <<pc, prev, intent, table, target>>
    BY <1>1 DEF Submit, SubmitRejected, NetworkChange, InjectFailure, vars, ObserveUnknown,
      ObserveFails, ObserveOne, SelectFails, Confirm, EndCall, Goto, adapterVars, stateVars,
      callVars
  <2> QED
    BY <2>1 DEF RouteInv
<1>2. CASE Restart \/ Crash
  <2>1. pc' = "idle" /\ applied' = EmptyTable
    BY <1>2 DEF Restart, Crash, NewController
  <2> QED
    BY <2>1 DEF RouteInv, EmptyTable
<1>3. CASE Select
  <2>1. pc' = "preparing" /\ prev' = applied[intent.key] /\ UNCHANGED <<intent, applied, routes>>
    BY <1>3 DEF Select, adapterVars
  <2> QED
    BY <2>1 DEF RouteInv
<1>4. CASE EnsureTunnel \/ Prepared \/ Validate \/ CommitImmediate \/ CommitGraceful
           \/ PauseEnds \/ DrainEnds
  <2>1. /\ UNCHANGED <<applied, routes, prev, intent>>
        /\ pc \notin {"idle", "observing", "confirming"} /\ pc' # "confirming"
    BY <1>4 DEF EnsureTunnel, Prepared, Validate, CommitImmediate, CommitGraceful, PauseEnds,
                DrainEnds, Goto, adapterVars
  <2> QED
    BY <2>1 DEF RouteInv
<1>5. CASE EnsureFails \/ ObservedFull \/ ProbeFails \/ ValidationFails \/ CommitReserved
           \/ SwitchFails
  <2>1. /\ pc \notin {"idle", "observing", "confirming"}
        /\ \E err, log, added : Fail(err, log, added)
    BY <1>5 DEF EnsureFails, ObservedFull, ProbeFails, ValidationFails, CommitReserved,
                SwitchFails
  <2>2. routes' = routes
    BY <1>5 DEF EnsureFails, ObservedFull, ProbeFails, ValidationFails, CommitReserved,
                SwitchFails, InstallPath, CommandInstall, OwnPrefixes, adapterVars
  <2> QED
    BY <2>1, <2>2, FailKeepsRoutes
<1>6. CASE Switch
  BY <1>6, SwitchKeepsRoutes
<1>7. ASSUME ConfirmFails PROVE FALSE
  BY <1>7 DEF ConfirmFails, ActivePath, RouteInv
<1> QED
  BY <1>1, <1>2, <1>3, <1>4, <1>5, <1>6, <1>7 DEF Next, CallStep, Environment

(* With one prefix per key, the FIB follows the controller's record in every *)
(* state, across failures, rollbacks, restarts and crashes: what is recorded *)
(* as applied is what VPP routes (vpp_install, rollback).                    *)
THEOREM RecordMatchesFib ==
  ASSUME NEW prefix, OwnPrefixes(prefix)
  PROVE  Spec => []AppliedIsRouted
<1>1. Init => RouteInv(prefix) /\ AcceptedInv
  BY DEF Init, RouteInv, EmptyTable, AcceptedInv
<1>2. RouteInv(prefix) => AppliedIsRouted
  BY DEF RouteInv, AppliedIsRouted
<1>3. TypeOK /\ SlotInv /\ AcceptedInv /\ RouteInv(prefix) /\ [Next]_vars => RouteInv(prefix)'
  BY RouteStep
<1> QED
  BY <1>1, <1>2, <1>3, TypeCorrect, SlotInit, SlotStep, AcceptedStep, PTL DEF Spec
==============================================================================
