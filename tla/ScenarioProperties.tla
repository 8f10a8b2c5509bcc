-------------------------- MODULE ScenarioProperties -------------------------
(***************************************************************************)
(* What a user of eventnet_scenario and eventnet_netns_plan relies on: the *)
(* log, the exit code and the generated files tell of the decision that    *)
(* the YAML file and the injected conditions call for.                     *)
(***************************************************************************)
EXTENDS Scenario

Over(program) == At("shell") /\ given > 0 /\ command.program = program

(* Every variable keeps its type, a call runs only while a program waits for *)
(* it, and the override table of the mock probe is never overrun             *)
(* (en_health_probe_mock_set, health_probe.c:53).                            *)
ScenarioTypeOK ==
  /\ TypeOK
  /\ at \in {"shell", "planning", "stepping", "starting", "deciding", "reconciling",
             "generating", "waiting", "recording"}
  /\ planner.at \in {"off", "choosing", "submitting", "calling", "writing", "exited"}
  /\ pc # "idle" => At("reconciling") \/ PlanAt("calling")
  /\ command \in Invocations \cup {Harness(NoOptions, <<>>)}
  /\ selected \in Paths \cup {NoPath} /\ planner.path \in Paths \cup {NoPath}
  /\ planner.next \in 1..Len(FileNames) + 1
  /\ code \in 0..2 /\ planner.code \in 0..2 /\ given \in 0..MaxCommands
  /\ \A name \in DOMAIN files : files[name].path \in Paths \cup {NoPath}
  /\ Cardinality(DOMAIN Overrides(OverridesOf(options))) <= MaxPaths

------------------------------------------------------------------------------
(* The reference: the path a file calls for under given conditions, stated   *)
(* without controller, override table or stages.                             *)

(* The reading an override gives a path: the failure wins over what was      *)
(* injected, and the last injection over the others.                         *)
ReadingUnder(o, p) ==
  LET said == {n \in DOMAIN o.injected : o.injected[n].path = p}
  IN  IF p = o.failed THEN [state |-> "failed", rtt |-> 10, loss |-> AllLost]
      ELSE IF said # {} THEN InjectedReading(o.injected[Max(said)])
      ELSE HealthyReading(p)

AllOverridesFit(o) ==
  Cardinality(({h.path : h \in Range(o.injected)} \cup {o.failed}) \ {NoPath}) <= MaxPaths

(* A forced mode may leave an explicit intent with candidates, see           *)
(* OwnPathUnobserved: its path is taken unless the validation refuses it.    *)
PathCalledFor(entry, request, activeFailed, readings) ==
  IF activeFailed /\ entry.fallback # NoPath THEN {entry.fallback}
  ELSE IF OwnPathUnobserved(request) THEN {request.path}
  ELSE {o.path : o \in SelectPath(request, readings)}

(* Every line of the log names the path that the file calls for under the    *)
(* options of that run, all of which but --compare the line quotes, and it   *)
(* passes exactly when that is the path expected (run_scenario,              *)
(* append_json_event).                                                       *)
ExplainsDecision ==
  \A n \in DOMAIN explain :
    LET o == explain[n].options
    IN  /\ AllOverridesFit(o) =>
             explain[n].selected \in
               PathCalledFor(Entry(o), ForcedIntent(o), ActiveFailed(o),
                             [p \in Paths |-> ReadingUnder(o, p)])
        /\ explain[n].pass <=> o.expected \in {NoPath, explain[n].selected}

(* A path reported as failed is not reported as selected, also when a forced *)
(* mode keeps it from being observed: either the selection excludes it or    *)
(* the validation of the transition does.  (A fallback is taken unlooked at.)*)
FailedNotSelected ==
  \A n \in DOMAIN explain :
    LET o == explain[n].options
    IN  (AllOverridesFit(o) /\ ~ TakesFallback(o)) => explain[n].selected # o.failed

StepGoal(step) ==
  CASE step \in {"direct-ok", "direct-recovered", "recovery"} -> "path-direct"
    [] step \in {"direct-failed", "fallback"}                 -> "path-via-hub"
    [] step = "relay-best"                                    -> "path-via-relay-c"

(* A multi-step run that exits with 0 leaves a log with one passing line for *)
(* each of its steps, in their order and each with the path the step is      *)
(* named for, and nothing else; one that stops early leaves those of the     *)
(* steps it came to, and only the last may have failed (main, run_scenario). *)
LogTellsSteps ==
  ( /\ Over("eventnet_scenario") /\ ~ BadArguments(command)
    /\ command.steps # <<>> /\ command.options.explain ) =>
    /\ Len(explain) <= Len(command.steps)
    /\ \A n \in DOMAIN explain :
         /\ explain[n].step = command.steps[n]
         /\ n < Len(explain) \/ code = 0 =>
              explain[n].pass /\ explain[n].selected = StepGoal(command.steps[n])
    /\ code = 0 <=> Len(explain) = Len(command.steps) /\ explain[Len(explain)].pass

------------------------------------------------------------------------------
(* The generated files. *)

(* A generation that came to its end, whatever was left by those before it,  *)
(* leaves five files about one path, and its exit code tells whether that    *)
(* path has a runtime (main of netns_plan.c).                                *)
FilesOfOnePath ==
  ( PlanAt("exited") /\ (planner.code = 2 \/ planner.next > Len(FileNames)) ) =>
    /\ \A name \in DOMAIN files : files[name] = Contents(name, planner.path)
    /\ planner.code = 2 <=> files["selected-path.txt"].kind = "unsupported"

FailedReadings(failed) ==
  [p \in Paths |-> IF p \in failed THEN FailedReading ELSE HealthyReading(p)]

(* The files are about the path asked for: the one named, or the one the     *)
(* intent calls for when the failed paths have failed.                       *)
GeneratedAsAsked ==
  LET args == planner.args
  IN  PlanAt("writing") =>
        planner.path \in
          IF args.path # NoPath THEN {args.path}
          ELSE PathCalledFor(PlanIntent(args), PlanIntent(args).request,
                             args.active \in Range(args.failed),
                             FailedReadings(Range(args.failed)))

GeneratedAll == Over("eventnet_scenario") /\ ~ BadArguments(command) /\ command.steps = <<>>
                /\ options.generate /\ code = 0

(* What the scenario reports is what was generated, although on a failure of *)
(* the active path the generator decides again with a controller of its own. *)
(* It is not told of --intent, --mode, --compare and --health: then it may   *)
(* differ, see GeneratedAsSelected.                                          *)
GeneratedAsDecided ==
  ( /\ GeneratedAll
    /\ ActiveFailed(options) =>
         /\ options.intent = NoId /\ options.mode = "yaml" /\ options.order = NoOrder
         /\ options.injected = <<>> ) =>
    \A name \in DOMAIN files : files[name].path = selected

(* The VPP routes written for a path whose tunnels are declared the way it   *)
(* runs cross each of its segments both ways, towards the far end, and there *)
(* are no others (write_vpp_route_plan).                                     *)
RoutesLeadAcross ==
  LET file == files["vpp-route-plan.sh"]
  IN  (file.path # NoPath /\ Oriented(Topology, PathRecord(file.path))) =>
        Range(file.routes) = RoutesAcross(Topology, PathRecord(file.path))

(* Every command comes to its end, the generator it runs included.           *)
CommandsEnd == ~ At("shell") ~> At("shell")

------------------------------------------------------------------------------
(* A statement of the documents that the code does not keep: the generated   *)
(* files are about the path that was selected.                               *)
GeneratedAsSelected ==
  GeneratedAll => \A name \in DOMAIN files : files[name].path = selected
==============================================================================
