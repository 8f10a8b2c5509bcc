-------------------------- MODULE ControllerDecision --------------------------
(***************************************************************************)
(* Which path a call chooses and moves to: for every wiring forwarding     *)
(* only moves to a path that has been prepared and validated, and with the *)
(* probe mock, whose readings change between calls only, the choice is     *)
(* made on the readings of the call itself.                                *)
(***************************************************************************)
EXTENDS ControllerProofs, PathSelectionProofs

------------------------------------------------------------------------------
(* Make before break. *)

(* SwitchIsPrepared is about the switching step.  What it finds was made by  *)
(* the steps before: the selection looked at the administrative state, every *)
(* tunnel of the target is observed or still to come, and after validation   *)
(* the table of readings holds one that carries traffic.                     *)
Validated == {"committing", "pausing", "draining", "switching", "confirming"}

PreparedInv ==
  /\ pc \notin {"idle", "observing"} =>
       /\ target \in Enabled
       /\ \A n \in DOMAIN Segments[target] :
            \/ Segments[target][n] \in observed
            \/ pc = "preparing" /\ \E m \in DOMAIN todo : todo[m] = Segments[target][n]
  /\ pc \in Validated => health[target] # NoHealth /\ CarriesTraffic(health[target])

(* exclusion_reason looks at the administrative state first. *)
LEMMA NotExcludedEnabled ==
  ASSUME NEW p, NEW h, NEW limits, ~ Excluded(p, h, limits)
  PROVE  p \in Enabled
<1>1. ~ ExclusionTests(p, h, limits)[1]
  BY DEF Excluded
<1> QED
  BY <1>1 DEF ExclusionTests

LEMMA SelectedIsEnabled ==
  ASSUME NEW i \in Intents, NEW h, NEW o \in SelectPath(i, h), o.err = "none"
  PROVE  o.path \in Enabled
<1>1. CASE i.mode = "explicit"
  <2>1. o \in ExplicitOutcome(i, h)
    BY <1>1 DEF SelectPath
  <2>2. o.path = i.path /\ ~ Excluded(i.path, h[i.path], i.limits)
    BY <2>1 DEF ExplicitOutcome, Outcome
  <2> QED
    BY <2>2, NotExcludedEnabled
<1>2. CASE i.mode = "priority"
  <2>1. o \in PriorityOutcome(i, h)
    BY <1>2 DEF SelectPath
  <2>2. PICK n \in PriorityStops(i, h) : i.cands[n] \in Paths /\ o.path = i.cands[n]
    BY <2>1 DEF PriorityOutcome, NoneUsable, Outcome
  <2>3. i.cands \in Seq(PathIds)
    BY ControllerAssumption DEF IntentRecords
  <2>4. n \in 1..n /\ i.cands[n] \notin RejectedOf(i, h, n)
    BY <2>2, <2>3 DEF PriorityStops
  <2>5. ~ Excluded(i.cands[n], h[i.cands[n]], i.limits)
    BY <2>2, <2>4 DEF RejectedOf, Named
  <2> QED
    BY <2>2, <2>5, NotExcludedEnabled
<1>3. CASE i.mode \notin {"explicit", "priority"}
  <2>1. o \in EvaluatedOutcome(i, h)
    BY <1>3 DEF SelectPath
  <2>2. o.path \in UsableOf(i, h)
    BY <2>1 DEF EvaluatedOutcome, NoneUsable, Outcome, BestOf
  <2> QED
    BY <2>2, NotExcludedEnabled DEF UsableOf
<1> QED
  BY <1>1, <1>2, <1>3

(* en_find_health has an entry for every path: a reading is never dropped. *)
LEMMA StoreHealthStores ==
  ASSUME health \in [Paths -> HealthRecords \cup {NoHealth}], NEW p \in Paths, NEW h
  PROVE  StoreHealth(p, h) = [health EXCEPT ![p] = h]
<1> DEFINE known == {q \in Paths : health[q] # NoHealth}
<1>1. CASE p \in known
  BY <1>1 DEF StoreHealth
<1>2. CASE p \notin known
  <2>1. known \subseteq Paths \ {p} /\ IsFiniteSet(Paths)
    BY <1>2, PathsAssumption
  <2>2. IsFiniteSet(Paths \ {p}) /\ Cardinality(Paths \ {p}) = Cardinality(Paths) - 1
    BY <2>1, FS_RemoveElement
  <2>3. Cardinality(known) <= Cardinality(Paths \ {p})
    BY <2>1, <2>2, FS_Subset
  <2>4. Cardinality(known) \in Nat /\ Cardinality(Paths) \in Nat
    BY <2>1, <2>2, FS_Subset, FS_CardinalityType
  <2>5. Cardinality(known) < MaxPaths
    BY <2>2, <2>3, <2>4, ControllerAssumption
  <2> QED
    BY <2>5 DEF StoreHealth
<1> QED
  BY <1>1, <1>2

LEMMA PreparedStep == TypeOK /\ PreparedInv /\ [Next]_vars => PreparedInv'
<1> SUFFICES ASSUME TypeOK, PreparedInv, [Next]_vars PROVE PreparedInv'
  OBVIOUS
<1>1. pc \notin {"idle", "observing"} => target \in Paths /\ todo \in Seq(Tunnels)
  BY DEF TypeOK, CallTypeOK
<1>2. CASE \/ \E i \in Intents : Submit(i)
           \/ SubmitRejected \/ Restart \/ Crash
           \/ ObserveUnknown \/ ObserveFails \/ ObserveOne \/ SelectFails
           \/ EnsureFails \/ ObservedFull \/ ProbeFails \/ ValidationFails \/ CommitReserved
           \/ SwitchFails \/ Confirm \/ ConfirmFails
  <2>1. pc' \in {"idle", "observing"}
    BY <1>2 DEF Submit, SubmitRejected, Restart, Crash, NewController, ObserveUnknown,
      ObserveFails, ObserveOne, SelectFails, EnsureFails, ObservedFull, ProbeFails,
      ValidationFails, CommitReserved, SwitchFails, Confirm, ConfirmFails, Fail, EndCall,
      Goto, callVars
  <2> QED
    BY <2>1 DEF PreparedInv, Validated
<1>3. CASE NetworkChange \/ InjectFailure \/ UNCHANGED vars
  BY <1>3 DEF NetworkChange, InjectFailure, vars, stateVars, callVars, PreparedInv
<1>4. CASE Select
  <2>1. PICK o \in SelectPath(intent, health) :
          o.err = "none" /\ target' = o.path /\ todo' = Segments[o.path]
    BY <1>4 DEF Select
  <2>2. o.path \in Enabled /\ o.path \in Paths
    BY <1>4, <2>1, SelectedIsEnabled, SelectPathType DEF Select, TypeOK, CallTypeOK
  <2> QED
    BY <1>4, <2>1, <2>2 DEF Select, PreparedInv, Validated
<1>5. CASE EnsureTunnel
  <2>1. /\ pc = "preparing" /\ pc' = "preparing" /\ target' = target
        /\ todo # <<>> /\ todo' = Tail(todo) /\ observed' = observed \cup {Head(todo)}
    BY <1>5 DEF EnsureTunnel, Goto
  <2>2. \A m \in DOMAIN todo : todo[m] \in observed' \/ \E k \in DOMAIN todo' : todo'[k] = todo[m]
    <3> TAKE m \in DOMAIN todo
    <3>1. CASE m = 1
      BY <1>1, <2>1, <3>1
    <3>2. CASE m # 1
      <4>1. m - 1 \in DOMAIN todo' /\ todo'[m - 1] = todo[m]
        BY <1>1, <2>1, <3>2
      <4> QED
        BY <4>1
    <3> QED
      BY <3>1, <3>2
  <2> QED
    BY <2>1, <2>2 DEF PreparedInv, Validated
<1>6. CASE Prepared
  BY <1>6 DEF Prepared, Goto, PreparedInv, Validated
<1>7. CASE Validate
  <2>1. /\ pc = "validating" /\ pc' = "committing" /\ UNCHANGED <<target, observed, todo>>
        /\ health' = StoreHealth(target, Probe(target).health)
        /\ CarriesTraffic(Probe(target).health)
    BY <1>7 DEF Validate, Goto
  <2>2. Probe(target).health \in HealthRecords
    BY <1>1, <2>1, ProbeType DEF ProbeResults, TypeOK, AdaptersTypeOK
  <2>3. health'[target] = Probe(target).health
    BY <1>1, <2>1, StoreHealthStores DEF TypeOK, StateTypeOK
  <2> QED
    BY <2>1, <2>2, <2>3, AbsenceAssumption DEF PreparedInv, Validated
<1>8. CASE CommitImmediate \/ CommitGraceful \/ PauseEnds \/ DrainEnds \/ Switch
  BY <1>8 DEF CommitImmediate, CommitGraceful, PauseEnds, DrainEnds, Switch, Goto, PreparedInv,
              Validated
<1> QED
  BY <1>2, <1>3, <1>4, <1>5, <1>6, <1>7, <1>8 DEF Next, CallStep, Environment

(* Nothing but the install step of a switch moves forwarding, and only to    *)
(* the target of the call.                                                   *)
LEMMA OnlySwitchMoves ==
  ASSUME TypeOK, [Next]_vars, NEW p \in Paths, MovesTo(p)
  PROVE  pc = "switching" /\ p = target
<1>1. ASSUME UNCHANGED <<table, routes>> PROVE FALSE
  BY <1>1 DEF MovesTo
<1>2. CASE Switch \/ SwitchFails
  <2>1. pc = "switching" /\ \E err : InstallPath(intent.key, target, err)
    BY <1>2 DEF Switch, SwitchFails
  <2>2. /\ table' \in {table, [table EXCEPT ![intent.key] = target]}
        /\ routes' \in {routes, [routes EXCEPT ![RoutePrefix[target]] = target]}
    BY <2>1 DEF InstallPath, MockInstall, CommandInstall, Record
  <2>3. table \in [Keys -> Paths \cup {NoPath}] /\ routes \in [FibPrefixes -> Paths \cup {NoPath}]
    BY DEF TypeOK, AdaptersTypeOK
  <2> QED
    BY <2>1, <2>2, <2>3 DEF MovesTo
<1>3. CASE Crash
  <2>1. table' = EmptyTable /\ routes' = routes
    BY <1>3 DEF Crash
  <2> QED
    BY <2>1, PathsAssumption DEF EmptyTable, MovesTo
<1>4. CASE \/ \E i \in Intents : Submit(i)
           \/ SubmitRejected \/ Restart \/ NetworkChange \/ InjectFailure \/ UNCHANGED vars
           \/ ObserveUnknown \/ ObserveFails \/ ObserveOne \/ SelectFails \/ Select
           \/ EnsureTunnel \/ EnsureFails \/ ObservedFull \/ Prepared \/ Validate \/ ProbeFails
           \/ ValidationFails \/ CommitImmediate \/ CommitGraceful \/ CommitReserved
           \/ PauseEnds \/ DrainEnds \/ Confirm \/ ConfirmFails
  <2>1. UNCHANGED <<table, routes>>
    BY <1>4 DEF Submit, SubmitRejected, Restart, NetworkChange, InjectFailure, vars,
      ObserveUnknown, ObserveFails, ObserveOne, SelectFails, Select, EnsureTunnel, EnsureFails,
      ObservedFull, Prepared, Validate, ProbeFails, ValidationFails, CommitImmediate,
      CommitGraceful, CommitReserved, PauseEnds, DrainEnds, Confirm, ConfirmFails, adapterVars
  <2> QED
    BY <1>1, <2>1
<1> QED
  BY <1>2, <1>3, <1>4 DEF Next, CallStep, Environment

(* Make before break: whatever adapters are wired in and whatever the        *)
(* network does meanwhile, forwarding only moves to an enabled path whose    *)
(* tunnels have all been reported established and whose latest reading       *)
(* carries traffic (transition_prepare, transition_ready, transition_commit).*)
THEOREM SwitchesArePrepared == Spec => SwitchIsPrepared
<1> DEFINE Ready(p) == /\ p \in Enabled
                       /\ \A n \in DOMAIN Segments[p] : Segments[p][n] \in observed
                       /\ health[p] # NoHealth /\ CarriesTraffic(health[p])
<1>1. Init => PreparedInv
  BY DEF Init, PreparedInv, Validated
<1>2. TypeOK /\ PreparedInv /\ [Next]_vars => [\A p \in Paths : MovesTo(p) => Ready(p)]_vars
  <2> SUFFICES ASSUME TypeOK, PreparedInv, [Next]_vars, NEW p \in Paths, MovesTo(p)
               PROVE  Ready(p)
    OBVIOUS
  <2>1. pc = "switching" /\ p = target
    BY OnlySwitchMoves
  <2> QED
    BY <2>1 DEF PreparedInv, Validated
<1> QED
  BY <1>1, <1>2, TypeCorrect, PreparedStep, PTL DEF Spec, SwitchIsPrepared

------------------------------------------------------------------------------
(* Decisions on current readings. *)

(* While a call runs the network is the one it was submitted in.  What is no *)
(* longer to be observed has been read; the path selected is the answer the  *)
(* network calls for, and every later end of the call reports it.            *)
Observed(p) == p \in Paths /\ health[p] = net[p]

CallInv ==
  /\ pc # "idle" => before.intent = intent /\ before.net = net
  /\ pc = "observing" =>
       /\ \A n \in DOMAIN ToObserve(intent) :
            \/ \E m \in DOMAIN todo : todo[m] = ToObserve(intent)[n]
            \/ Observed(ToObserve(intent)[n])
       /\ \A m \in DOMAIN todo : \E n \in DOMAIN ToObserve(intent) :
            todo[m] = ToObserve(intent)[n]
  /\ (pc \notin {"idle", "observing"} /\ ~ OwnPathUnobserved(intent)) =>
       \A o \in SelectPath(intent, net) : o.err = "none" /\ o.path = target

DecisionInv == CallInv /\ DecisionIsCurrent

LEMMA IntentType ==
  ASSUME NEW i \in Intents
  PROVE  /\ i.cands \in Seq(PathIds) /\ i.order \in Seq(ComparisonKeys)
         /\ ToObserve(i) \in Seq(PathIds \cup {NoPath})
<1>1. i \in IntentRecords
  BY ControllerAssumption
<1> QED
  BY <1>1, IntentKey DEF IntentRecords

LEMMA OneAnswer ==
  ASSUME NEW i \in Intents, NEW h, Readable(h),
         NEW o \in SelectPath(i, h), NEW q \in SelectPath(i, h)
  PROVE  o = q
BY IntentType, AnswerIsUnique

LEMMA RefusedNamesNone ==
  ASSUME NEW i \in Intents, NEW h, NEW o \in SelectPath(i, h), o.err # "none"
  PROVE  o.path = NoPath
<1>1. CASE i.mode = "explicit"
  BY <1>1 DEF SelectPath, ExplicitOutcome, Outcome
<1>2. CASE i.mode = "priority"
  BY <1>2 DEF SelectPath, PriorityOutcome, NoneUsable, Outcome
<1>3. CASE i.mode \notin {"explicit", "priority"}
  BY <1>3 DEF SelectPath, EvaluatedOutcome, NoneUsable, Outcome
<1> QED
  BY <1>1, <1>2, <1>3

(* An intent with a list observes its list, or all paths when it is empty. *)
LEMMA ObservesCandidates ==
  ASSUME NEW i \in Intents, i.mode # "explicit", NEW n \in DOMAIN ToObserve(i)
  PROVE  /\ i.cands # <<>> => ToObserve(i) = i.cands
         /\ (\A m \in DOMAIN i.cands : i.cands[m] \in Paths) => ToObserve(i)[n] \in Paths
<1>1. CASE i.cands # <<>>
  BY <1>1 DEF ToObserve
<1>2. CASE i.cands = <<>>
  <2>1. ToObserve(i) = PathList /\ PathList \in Seq(Paths)
    BY <1>2, ControllerAssumption DEF ToObserve
  <2> QED
    BY <1>2, <2>1
<1> QED
  BY <1>1, <1>2

LEMMA NetIsReadable ==
  ASSUME TypeOK
  PROVE  Readable(net) /\ Readable(health)
BY WiringAssumption DEF TypeOK, AdaptersTypeOK, StateTypeOK, Readable

(* What the end of a call must report for the decision to be current. *)
Reports(err, path) ==
  (~ OwnPathUnobserved(intent) /\ \A n \in DOMAIN intent.cands : intent.cands[n] \in Paths) =>
    \A o \in SelectPath(intent, net) : path = o.path /\ (o.err # "none" => err = o.err)

LEMMA EndsCurrent ==
  ASSUME TypeOK, CallInv, pc # "idle", NEW err, NEW path, EndCall(err, path), Reports(err, path)
  PROVE  DecisionInv'
<1>1. /\ pc' = "idle" /\ before' = before /\ reply'.path = path /\ reply'.err = err
      /\ before.intent = intent /\ before.net = net
  BY DEF EndCall, Answer, CallInv
<1>2. CallInv'
  BY <1>1 DEF CallInv
<1>3. DecisionIsCurrent'
  BY <1>1 DEF DecisionIsCurrent, Answered, Reports
<1> QED
  BY <1>2, <1>3 DEF DecisionInv

(* Past the selection, every end of the call names the target. *)
LEMMA TargetEnds ==
  ASSUME TypeOK, CallInv, pc \notin {"idle", "observing"}, NEW err, EndCall(err, target)
  PROVE  DecisionInv'
<1>1. Reports(err, target)
  BY DEF CallInv, Reports
<1> QED
  BY <1>1, EndsCurrent

(* Once all is observed, the readings of the candidates are the network's. *)
LEMMA ObservedAnswer ==
  ASSUME TypeOK, CallInv, pc = "observing", todo = <<>>, ~ OwnPathUnobserved(intent)
  PROVE  SelectPath(intent, health) = SelectPath(intent, net)
<1>1. intent \in Intents
  BY DEF TypeOK, CallTypeOK
<1>2. \A n \in DOMAIN ToObserve(intent) : Observed(ToObserve(intent)[n])
  BY DEF CallInv
<1>3. CASE intent.mode = "explicit"
  <2>1. ToObserve(intent) = <<intent.path>>
    BY <1>3 DEF ToObserve, OwnPathUnobserved
  <2>2. health[intent.path] = net[intent.path]
    BY <1>2, <2>1 DEF Observed
  <2> QED
    BY <1>3, <2>2 DEF SelectPath, ExplicitOutcome
<1>4. CASE intent.mode # "explicit"
  <2>1. \A n \in DOMAIN intent.cands : health[intent.cands[n]] = net[intent.cands[n]]
    <3>1. CASE intent.cands = <<>>
      BY <3>1
    <3>2. CASE intent.cands # <<>>
      BY <1>2, <3>2 DEF ToObserve, Observed
    <3> QED
      BY <3>1, <3>2
  <2> QED
    BY <1>1, <1>4, <2>1, IntentType, OnlyCandidatesMatter
<1> QED
  BY <1>3, <1>4

LEMMA ObserveDecision ==
  ASSUME ProbeAdapter = "mock", TypeOK, DecisionInv, ObserveOne
  PROVE  DecisionInv'
<1>1. /\ pc = "observing" /\ pc' = "observing" /\ todo # <<>> /\ todo' = Tail(todo)
      /\ Head(todo) \in Paths /\ health' = StoreHealth(Head(todo), net[Head(todo)])
      /\ UNCHANGED <<intent, before, net, reply>>
  BY DEF ObserveOne, Goto, Probe, clientVars, adapterVars
<1>2. todo \in Seq(PathIds \cup {NoPath})
  BY <1>1 DEF TypeOK, CallTypeOK
<1>3. health' = [health EXCEPT ![Head(todo)] = net[Head(todo)]]
      /\ health \in [Paths -> HealthRecords \cup {NoHealth}]
  BY <1>1, StoreHealthStores DEF TypeOK, StateTypeOK
<1>4. \A p : Observed(p) => p \in Paths /\ health'[p] = net'[p]
  BY <1>1, <1>3 DEF Observed
<1>5. Head(todo) \in Paths /\ health'[Head(todo)] = net'[Head(todo)]
  BY <1>1, <1>3
<1> DEFINE Read(p) == p \in Paths /\ health'[p] = net'[p]
<1>6. ASSUME NEW n \in DOMAIN ToObserve(intent)
      PROVE  (\E m \in DOMAIN todo' : todo'[m] = ToObserve(intent)[n]) \/ Read(ToObserve(intent)[n])
  <2>1. CASE Observed(ToObserve(intent)[n])
    BY <1>4, <2>1
  <2>2. CASE ~ Observed(ToObserve(intent)[n])
    <3>1. PICK m \in DOMAIN todo : todo[m] = ToObserve(intent)[n]
      BY <1>1, <2>2 DEF DecisionInv, CallInv
    <3>2. CASE m = 1
      <4>1. Head(todo) = ToObserve(intent)[n]
        BY <1>1, <1>2, <3>1, <3>2
      <4> QED
        BY <1>5, <4>1
    <3>3. CASE m # 1
      <4>1. m - 1 \in DOMAIN todo' /\ todo'[m - 1] = todo[m]
        BY <1>1, <1>2, <3>1, <3>3
      <4> QED
        BY <3>1, <4>1
    <3> QED
      BY <3>2, <3>3
  <2> QED
    BY <2>1, <2>2
<1>7. ASSUME NEW m \in DOMAIN todo'
      PROVE  \E n \in DOMAIN ToObserve(intent) : todo'[m] = ToObserve(intent)[n]
  <2>1. m + 1 \in DOMAIN todo /\ todo'[m] = todo[m + 1]
    BY <1>1, <1>2
  <2> QED
    BY <1>1, <2>1 DEF DecisionInv, CallInv
<1>8. before'.intent = intent' /\ before'.net = net'
  BY <1>1 DEF DecisionInv, CallInv
<1>9. intent' = intent /\ ToObserve(intent') = ToObserve(intent) /\ pc' = "observing"
  BY <1>1
<1>10. CallInv'
  BY <1>6, <1>7, <1>8, <1>9 DEF CallInv, Observed, ToObserve
<1>11. DecisionIsCurrent'
  BY <1>1 DEF DecisionIsCurrent, Answered
<1> QED
  BY <1>10, <1>11 DEF DecisionInv

LEMMA RefusalDecision ==
  ASSUME ProbeAdapter = "mock", TypeOK, DecisionInv, ObserveUnknown \/ ObserveFails \/ SelectFails
  PROVE  DecisionInv'
<1>1. CASE ObserveUnknown
  <2>1. /\ pc = "observing" /\ todo # <<>> /\ Head(todo) \notin Paths
        /\ EndCall("not_found", NoPath)
    BY <1>1 DEF ObserveUnknown
  <2>2. todo \in Seq(PathIds \cup {NoPath}) /\ 1 \in DOMAIN todo /\ todo[1] = Head(todo)
    BY <2>1 DEF TypeOK, CallTypeOK
  <2>3. PICK n \in DOMAIN ToObserve(intent) : Head(todo) = ToObserve(intent)[n]
    BY <2>1, <2>2 DEF DecisionInv, CallInv
  <2>4. intent \in Intents
    BY <2>1 DEF TypeOK, CallTypeOK
  <2>5. Reports("not_found", NoPath)
    <3>1. CASE intent.mode # "explicit"
      BY <2>1, <2>3, <2>4, <3>1, ObservesCandidates DEF Reports
    <3>2. CASE intent.mode = "explicit" /\ intent.cands = <<>>
      <4>1. intent.path \notin Paths
        BY <2>1, <2>3, <3>2 DEF ToObserve
      <4> QED
        BY <3>2, <4>1 DEF Reports, SelectPath, ExplicitOutcome, Outcome
    <3>3. CASE OwnPathUnobserved(intent)
      BY <3>3 DEF Reports
    <3> QED
      BY <3>1, <3>2, <3>3 DEF OwnPathUnobserved
  <2> QED
    BY <2>1, <2>5, EndsCurrent DEF DecisionInv
<1>2. CASE ObserveFails
  BY <1>2 DEF ObserveFails, Probe
<1>3. CASE SelectFails
  <2>1. PICK o \in SelectPath(intent, health) : o.err # "none" /\ EndCall(o.err, NoPath)
    BY <1>3 DEF SelectFails
  <2>2. pc = "observing" /\ todo = <<>> /\ intent \in Intents
    BY <1>3 DEF SelectFails, TypeOK, CallTypeOK
  <2>3. Readable(net) /\ Readable(health)
    BY NetIsReadable
  <2>4. o.path = NoPath
    BY <2>1, <2>2, RefusedNamesNone
  <2>5. ~ OwnPathUnobserved(intent) => \A q \in SelectPath(intent, net) : q = o
    BY <2>1, <2>2, <2>3, ObservedAnswer, OneAnswer DEF DecisionInv
  <2>6. Reports(o.err, NoPath)
    BY <2>4, <2>5 DEF Reports
  <2> QED
    BY <2>1, <2>2, <2>6, EndsCurrent DEF DecisionInv
<1> QED
  BY <1>1, <1>2, <1>3

LEMMA SelectDecision ==
  ASSUME TypeOK, DecisionInv, Select
  PROVE  DecisionInv'
<1>1. PICK o \in SelectPath(intent, health) : o.err = "none" /\ target' = o.path
  BY DEF Select
<1>2. /\ pc = "observing" /\ todo = <<>> /\ intent \in Intents /\ pc' = "preparing"
      /\ UNCHANGED <<intent, net, before, reply>>
  BY DEF Select, TypeOK, CallTypeOK, adapterVars, clientVars
<1>3. Readable(net) /\ Readable(health)
  BY NetIsReadable
<1>4. ~ OwnPathUnobserved(intent) => \A q \in SelectPath(intent, net) : q = o
  BY <1>1, <1>2, <1>3, ObservedAnswer, OneAnswer DEF DecisionInv
<1>5. ~ OwnPathUnobserved(intent') =>
        \A q \in SelectPath(intent', net') : q.err = "none" /\ q.path = target'
  BY <1>1, <1>2, <1>4
<1>6. before'.intent = intent' /\ before'.net = net'
  BY <1>2 DEF DecisionInv, CallInv
<1>7. CallInv'
  BY <1>2, <1>5, <1>6 DEF CallInv
<1>8. DecisionIsCurrent'
  BY <1>2 DEF DecisionIsCurrent, Answered
<1> QED
  BY <1>7, <1>8 DEF DecisionInv

LEMMA StageDecision ==
  ASSUME TypeOK, DecisionInv,
         \/ EnsureTunnel \/ Prepared \/ Validate
         \/ CommitImmediate \/ CommitGraceful \/ PauseEnds \/ DrainEnds \/ Switch
  PROVE  DecisionInv'
<1>1. net' = net
  BY DEF EnsureTunnel, Prepared, Validate, CommitImmediate, CommitGraceful, PauseEnds, DrainEnds,
         Switch, adapterVars, InstallPath, MockInstall, CommandInstall
<1>2. /\ pc \notin {"idle", "observing"} /\ pc' \notin {"idle", "observing"}
      /\ UNCHANGED <<intent, target, before, reply>>
  BY DEF EnsureTunnel, Prepared, Validate, CommitImmediate, CommitGraceful, PauseEnds, DrainEnds,
         Switch, Goto, clientVars
<1>3. CallInv'
  BY <1>1, <1>2 DEF DecisionInv, CallInv
<1>4. DecisionIsCurrent'
  BY <1>2 DEF DecisionIsCurrent, Answered
<1> QED
  BY <1>3, <1>4 DEF DecisionInv

LEMMA EndDecision ==
  ASSUME TypeOK, DecisionInv,
         \/ EnsureFails \/ ObservedFull \/ ProbeFails \/ ValidationFails
         \/ CommitReserved \/ SwitchFails \/ Confirm \/ ConfirmFails
  PROVE  DecisionInv'
<1>1. pc \notin {"idle", "observing"} /\ \E err : EndCall(err, target)
  <2>1. CASE Confirm
    BY <2>1 DEF Confirm
  <2>2. CASE EnsureFails
    BY <2>2 DEF EnsureFails, Fail
  <2>3. CASE SwitchFails
    BY <2>3 DEF SwitchFails, Fail
  <2>4. CASE ObservedFull \/ ProbeFails
    BY <2>4 DEF ObservedFull, ProbeFails, Fail
  <2>5. CASE ValidationFails \/ CommitReserved \/ ConfirmFails
    BY <2>5 DEF ValidationFails, CommitReserved, ConfirmFails, Fail
  <2> QED
    BY <2>1, <2>2, <2>3, <2>4, <2>5
<1> QED
  BY <1>1, TargetEnds DEF DecisionInv

LEMMA SubmitDecision ==
  ASSUME TypeOK, DecisionInv, NEW i \in Intents, Submit(i)
  PROVE  DecisionInv'
<1>1. /\ pc' = "observing" /\ intent' = i /\ todo' = ToObserve(i)
      /\ before' = Snapshot(i) /\ net' = net
  BY DEF Submit, adapterVars
<1>2. before'.intent = intent' /\ before'.net = net'
  BY <1>1 DEF Snapshot
<1>3. ToObserve(intent') = todo'
  BY <1>1
<1>4. CallInv'
  BY <1>1, <1>2, <1>3 DEF CallInv
<1>5. DecisionIsCurrent'
  BY <1>1 DEF DecisionIsCurrent, Answered
<1> QED
  BY <1>4, <1>5 DEF DecisionInv

LEMMA EnvironmentDecision ==
  ASSUME ProbeAdapter = "mock", TypeOK, DecisionInv,
         SubmitRejected \/ Environment \/ UNCHANGED vars
  PROVE  DecisionInv'
<1>1. CASE SubmitRejected \/ Restart \/ Crash
  <2>1. pc' = "idle" /\ reply'.key = NoKey
    BY <1>1 DEF SubmitRejected, Restart, Crash, NewController, NoReply, Answer, callVars
  <2> QED
    BY <2>1, ControllerAssumption DEF DecisionInv, CallInv, DecisionIsCurrent, Answered
<1>2. CASE NetworkChange
  <2>1. pc = "idle" /\ pc' = "idle" /\ UNCHANGED <<reply, before>>
    BY <1>2 DEF NetworkChange, callVars, clientVars
  <2> QED
    BY <2>1 DEF DecisionInv, CallInv, DecisionIsCurrent, Answered
<1>3. CASE InjectFailure \/ UNCHANGED vars
  <2>1. UNCHANGED <<pc, intent, todo, target, reply, before, net, health>>
    BY <1>3 DEF InjectFailure, vars, adapterVars, stateVars, callVars, clientVars
  <2> QED
    BY <2>1 DEF DecisionInv, CallInv, DecisionIsCurrent, Answered, Observed
<1> QED
  BY <1>1, <1>2, <1>3 DEF Environment

LEMMA NextDecision ==
  ASSUME ProbeAdapter = "mock", TypeOK, DecisionInv, [Next]_vars
  PROVE  DecisionInv'
BY ObserveDecision, RefusalDecision, SelectDecision, StageDecision, EndDecision,
   SubmitDecision, EnvironmentDecision DEF Next, CallStep

(* With the probe mock, an intent over known paths that has what it asks for *)
(* observed is answered with the path the network at submission calls for,   *)
(* and an answer without a path means there was none                         *)
(* (observe_candidate_health before en_select_path).                         *)
THEOREM DecisionsAreCurrent ==
  ASSUME ProbeAdapter = "mock"
  PROVE  Spec => []DecisionIsCurrent
<1>1. Init => DecisionInv
  BY ControllerAssumption DEF Init, NoReply, Answer, DecisionInv, CallInv, DecisionIsCurrent,
     Answered
<1>2. TypeOK /\ DecisionInv /\ [Next]_vars => DecisionInv'
  BY NextDecision
<1>3. DecisionInv => DecisionIsCurrent
  BY DEF DecisionInv
<1> QED
  BY <1>1, <1>2, <1>3, TypeCorrect, PTL DEF Spec

------------------------------------------------------------------------------
(* What an answer without an error says, with the probe mock: its path is    *)
(* the one the intent calls for and was found to carry traffic.              *)

SoundAnswer(i, readings, p) ==
  /\ p \in Paths /\ CarriesTraffic(readings[p])
  /\ IF OwnPathUnobserved(i) THEN p = i.path
     ELSE \A o \in SelectPath(i, readings) : o.path = p

AnswersAreSound ==
  (Answered /\ reply.err = "none") => SoundAnswer(before.intent, before.net, reply.path)

AnswerInv ==
  /\ pc \in Validated => CarriesTraffic(net[target])
  /\ (pc \notin {"idle", "observing"} /\ intent.mode = "explicit") => target = intent.path
  /\ AnswersAreSound

LEMMA RefusedAnswer ==
  ASSUME NEW err, NEW path, err # "none", EndCall(err, path)
  PROVE  AnswerInv'
BY DEF EndCall, Answer, AnswerInv, AnswersAreSound, Validated

LEMMA StageAnswer ==
  ASSUME ProbeAdapter = "mock", TypeOK, DecisionInv, AnswerInv,
         \/ EnsureTunnel \/ Prepared \/ Validate
         \/ CommitImmediate \/ CommitGraceful \/ PauseEnds \/ DrainEnds \/ Switch
  PROVE  AnswerInv'
<1>1. net' = net
  BY DEF EnsureTunnel, Prepared, Validate, CommitImmediate, CommitGraceful, PauseEnds, DrainEnds,
         Switch, adapterVars, InstallPath, MockInstall, CommandInstall
<1>2. /\ pc \notin {"idle", "observing"} /\ pc' \notin {"idle", "observing"}
      /\ UNCHANGED <<intent, target, before, reply>>
  BY DEF EnsureTunnel, Prepared, Validate, CommitImmediate, CommitGraceful, PauseEnds, DrainEnds,
         Switch, Goto, clientVars
<1>3. CASE Validate
  BY <1>1, <1>2, <1>3 DEF Validate, Probe, AnswerInv, AnswersAreSound, Answered
<1>4. CASE ~ Validate
  <2>1. pc' \in Validated => pc \in Validated
    BY <1>4 DEF EnsureTunnel, Prepared, CommitImmediate, CommitGraceful, PauseEnds, DrainEnds,
                Switch, Goto, Validated
  <2> QED
    BY <1>1, <1>2, <2>1 DEF AnswerInv, AnswersAreSound, Answered
<1> QED
  BY <1>3, <1>4

LEMMA EndAnswer ==
  ASSUME ProbeAdapter = "mock", TypeOK, DecisionInv, AnswerInv,
         \/ ObserveUnknown \/ ObserveFails \/ SelectFails
         \/ EnsureFails \/ ObservedFull \/ ProbeFails \/ ValidationFails
         \/ CommitReserved \/ SwitchFails \/ Confirm \/ ConfirmFails
  PROVE  AnswerInv'
<1>1. CASE ObserveUnknown \/ ObserveFails \/ SelectFails
  BY <1>1, RefusedAnswer DEF ObserveUnknown, ObserveFails, SelectFails
<1>2. CASE EnsureFails
  BY <1>2, RefusedAnswer DEF EnsureFails, Fail
<1>3. CASE ObservedFull \/ ValidationFails \/ CommitReserved \/ ConfirmFails
  BY <1>3, RefusedAnswer DEF ObservedFull, ValidationFails, CommitReserved, ConfirmFails, Fail
<1>4. CASE ProbeFails
  BY <1>4 DEF ProbeFails, Probe
<1>5. CASE SwitchFails
  BY <1>5, RefusedAnswer DEF SwitchFails, Fail
<1>6. CASE Confirm
  <2>1. /\ pc = "confirming" /\ pc' = "idle"
        /\ before' = before /\ reply'.err = "none" /\ reply'.path = target
    BY <1>6 DEF Confirm, EndCall, Answer
  <2>2. target \in Paths /\ before.intent = intent /\ before.net = net
    BY <2>1 DEF TypeOK, CallTypeOK, DecisionInv, CallInv
  <2>3. CarriesTraffic(net[target])
    BY <2>1 DEF AnswerInv, Validated
  <2>4. IF OwnPathUnobserved(intent) THEN target = intent.path
        ELSE \A o \in SelectPath(intent, net) : o.path = target
    BY <2>1 DEF AnswerInv, OwnPathUnobserved, DecisionInv, CallInv
  <2>5. SoundAnswer(before.intent, before.net, target)
    BY <2>2, <2>3, <2>4 DEF SoundAnswer
  <2> QED
    BY <2>1, <2>5 DEF AnswerInv, AnswersAreSound, Validated
<1> QED
  BY <1>1, <1>2, <1>3, <1>4, <1>5, <1>6

LEMMA OtherAnswer ==
  ASSUME ProbeAdapter = "mock", TypeOK, DecisionInv, AnswerInv,
         \/ \E i \in Intents : Submit(i)
         \/ ObserveOne \/ Select \/ SubmitRejected \/ Environment \/ UNCHANGED vars
  PROVE  AnswerInv'
<1>1. CASE \E i \in Intents : Submit(i)
  BY <1>1 DEF Submit, AnswerInv, AnswersAreSound, Answered, Validated
<1>2. CASE ObserveOne
  BY <1>2 DEF ObserveOne, Goto, AnswerInv, AnswersAreSound, Answered, Validated
<1>3. CASE Select
  <2>1. PICK o \in SelectPath(intent, health) : o.err = "none" /\ target' = o.path
    BY <1>3 DEF Select
  <2>2. intent.mode = "explicit" => target' = intent.path
    BY <2>1 DEF SelectPath, ExplicitOutcome, Outcome
  <2> QED
    BY <1>3, <2>2 DEF Select, AnswerInv, AnswersAreSound, Answered, Validated
<1>4. CASE SubmitRejected \/ Restart \/ Crash
  <2>1. pc' = "idle" /\ reply'.key = NoKey
    BY <1>4 DEF SubmitRejected, Restart, Crash, NewController, NoReply, Answer, callVars
  <2> QED
    BY <2>1, ControllerAssumption DEF AnswerInv, AnswersAreSound, Answered, Validated
<1>5. CASE NetworkChange
  <2>1. pc = "idle" /\ pc' = "idle" /\ UNCHANGED <<reply, before>>
    BY <1>5 DEF NetworkChange, callVars, clientVars
  <2> QED
    BY <2>1 DEF AnswerInv, AnswersAreSound, Answered, Validated
<1>6. CASE InjectFailure \/ UNCHANGED vars
  <2>1. UNCHANGED <<pc, intent, target, reply, before, net>>
    BY <1>6 DEF InjectFailure, vars, adapterVars, stateVars, callVars, clientVars
  <2> QED
    BY <2>1 DEF AnswerInv, AnswersAreSound, Answered
<1> QED
  BY <1>1, <1>2, <1>3, <1>4, <1>5, <1>6 DEF Environment

LEMMA NextAnswer ==
  ASSUME ProbeAdapter = "mock", TypeOK, DecisionInv, AnswerInv, [Next]_vars
  PROVE  AnswerInv'
<1>1. CASE CallStep
  <2>1. CASE \/ EnsureTunnel \/ Prepared \/ Validate
             \/ CommitImmediate \/ CommitGraceful \/ PauseEnds \/ DrainEnds \/ Switch
    BY <2>1, StageAnswer
  <2>2. CASE \/ ObserveUnknown \/ ObserveFails \/ SelectFails
             \/ EnsureFails \/ ObservedFull \/ ProbeFails \/ ValidationFails
             \/ CommitReserved \/ SwitchFails \/ Confirm \/ ConfirmFails
    BY <2>2, EndAnswer
  <2>3. CASE ObserveOne \/ Select
    BY <2>3, OtherAnswer
  <2> QED
    BY <1>1, <2>1, <2>2, <2>3 DEF CallStep
<1>2. CASE ~ CallStep
  BY <1>2, OtherAnswer DEF Next
<1> QED
  BY <1>1, <1>2

(* With the probe mock, an answer without an error names a path that carried *)
(* traffic at submission and that the intent called for: a path known to be  *)
(* down is never switched to, whatever was observed before the decision      *)
(* (transition_ready probes again).                                          *)
THEOREM NoFailedPathAnswered ==
  ASSUME ProbeAdapter = "mock"
  PROVE  Spec => []AnswersAreSound
<1>1. Init => DecisionInv /\ AnswerInv
  BY ControllerAssumption DEF Init, NoReply, Answer, DecisionInv, CallInv, DecisionIsCurrent,
     Answered, AnswerInv, AnswersAreSound, Validated
<1>2. TypeOK /\ DecisionInv /\ AnswerInv /\ [Next]_vars => DecisionInv' /\ AnswerInv'
  BY NextDecision, NextAnswer
<1>3. AnswerInv => AnswersAreSound
  BY DEF AnswerInv
<1> QED
  BY <1>1, <1>2, <1>3, TypeCorrect, PTL DEF Spec
=============================================================================
