------------------------------ MODULE Scenario -------------------------------
(***************************************************************************)
(* The program eventnet_scenario (examples/eventnet_scenario.c) and the    *)
(* shell that runs it: it submits an intent of a YAML file to a controller *)
(* of its own under injected failures, or takes the intent's fallback,     *)
(* compares the path with the expected one, may have eventnet_netns_plan   *)
(* generate the runtime, and appends what it decided to a log.  Log and    *)
(* generated files outlive the commands.                                   *)
(***************************************************************************)
EXTENDS NetnsPlan

CONSTANTS
  Invocations,      \* the commands the shell may give, see Harness and Generator
  NoOrder,          \* --compare is not given
  MaxComparisons,   \* EN_MAX_COMPARISONS
  MaxCommands       \* bound on the commands given (of the model, not of the code)

(* apply_named_step injects three readings; include/eventnet/types.h has room for 16. *)
ASSUME StepAssumption ==
  /\ MaxPaths >= 3 /\ MaxCommands \in Nat
  /\ NoPath \notin {"path-direct", "path-via-hub", "path-via-relay-c"}

VARIABLES
  at,         \* where eventnet_scenario is; "shell" outside of a command
  command,    \* the last command given
  stepsLeft,  \* its steps still to run
  options,    \* the options of the running step
  selected,   \* result.selected_path
  explain,    \* the lines of the --explain-json file
  code,       \* the exit code of the last command
  given       \* how many commands the shell has given

harnessVars == <<at, command, stepsLeft, options, selected, explain, code, given>>
scenarioVars == <<vars, plannerVars, harnessVars>>

Harness(o, steps) == [program |-> "eventnet_scenario", options |-> o, steps |-> steps]
Generator(args) == [program |-> "eventnet_netns_plan", args |-> args]

------------------------------------------------------------------------------
(* Options.  "yaml" stands for no --mode, Missing for a measure not given.   *)

Missing == 0 - 1
Injected(p, state, rtt, loss) == [path |-> p, state |-> state, rtt |-> rtt, loss |-> loss]

BadArguments(c) ==
  \/ Len(c.steps) > MaxEvents
  \/ Len(c.options.injected) > MaxPaths
  \/ \E h \in Range(c.options.injected) : h.state \notin HealthStates \/ h.path = NoPath

StepNames ==
  {"direct-ok", "direct-failed", "fallback", "direct-recovered", "recovery", "relay-best"}

StepOptions(base, step) ==
  LET fresh == [base EXCEPT !.active = NoPath, !.failed = NoPath, !.expected = NoPath,
                            !.injected = <<>>, !.generate = FALSE]
  IN CASE step = "direct-ok" -> [fresh EXCEPT !.expected = "path-direct"]
       [] step \in {"direct-failed", "fallback"} ->
            [fresh EXCEPT !.active = "path-direct", !.failed = "path-direct",
                          !.expected = "path-via-hub"]
       [] step \in {"direct-recovered", "recovery"} ->
            [fresh EXCEPT !.active = "path-via-hub", !.expected = "path-direct"]
       [] step = "relay-best" ->
            [fresh EXCEPT !.mode = "evaluated", !.expected = "path-via-relay-c",
                          !.order = <<"packet_loss", "latency", "hop_count", "path_id">>,
                          !.injected = << Injected("path-direct", "healthy", 80, 5),
                                          Injected("path-via-relay-c", "healthy", 30, 1),
                                          Injected("path-via-hub", "healthy", 50, 2) >>]

Entry(o) == FoundIntent(o.file, o.intent)

(* force_selection_mode, force_comparison_order. *)
ForcedIntent(o) ==
  [Entry(o).request EXCEPT !.mode = IF o.mode = "yaml" THEN @ ELSE o.mode,
                           !.order = IF o.order = NoOrder THEN @ ELSE o.order]

RunError(o) ==
  IF IntentsFound(o.file, o.intent) = {} THEN 1
  ELSE IF \/ o.mode \notin SelectionModes \cup {"yaml"}
          \/ o.order # NoOrder
             /\ (~ Range(o.order) \subseteq ComparisonKeys \/ Len(o.order) > MaxComparisons)
       THEN 2 ELSE 0

(* apply_health_override: what is missing takes a default. *)
InjectedReading(h) ==
  [state |-> h.state,
   rtt   |-> IF h.rtt = Missing THEN 10 ELSE h.rtt,
   loss  |-> IF h.loss # Missing THEN h.loss
             ELSE IF h.state \in {"failed", "unhealthy"} THEN AllLost ELSE 0]
InjectedOverride(h) == [path |-> h.path, reading |-> InjectedReading(h)]
FailedOverrides(o) ==
  IF o.failed = NoPath THEN <<>>
  ELSE <<InjectedOverride(Injected(o.failed, "failed", Missing, Missing))>>

(* Mutant: the failed path comes first, and an injected reading replaces it. *)
OverridesFailedFirst(o) ==
  FailedOverrides(o) \o [n \in DOMAIN o.injected |-> InjectedOverride(o.injected[n])]
OverridesOf(o) ==
  [n \in DOMAIN o.injected |-> InjectedOverride(o.injected[n])] \o FailedOverrides(o)

ActiveFailed(o) == o.active # NoPath /\ o.active = o.failed
TakesFallback(o) == ActiveFailed(o) /\ Entry(o).fallback # NoPath

------------------------------------------------------------------------------
(* main.                                                                     *)

At(label) == at = label
MoveTo(label) == at' = label
Exit(c) == at' = "shell" /\ code' = c

Gives(c) ==
  /\ At("shell") /\ given < MaxCommands
  /\ command' = c /\ given' = given + 1
  /\ UNCHANGED selected

GiveRefused(c) ==
  /\ Gives(c)
  /\ c.program = "eventnet_scenario" /\ BadArguments(c)
  /\ Exit(2)
  /\ UNCHANGED <<vars, plannerVars, stepsLeft, options, explain>>

GiveSingle(c) ==
  /\ Gives(c)
  /\ c.program = "eventnet_scenario" /\ ~ BadArguments(c) /\ c.steps = <<>>
  /\ options' = c.options
  /\ MoveTo("starting")
  /\ UNCHANGED <<vars, plannerVars, stepsLeft, explain, code>>

(* Mutant: the log of an earlier command is kept. *)
GiveStepsAppending(c) ==
  /\ Gives(c)
  /\ c.program = "eventnet_scenario" /\ ~ BadArguments(c) /\ c.steps # <<>>
  /\ stepsLeft' = c.steps
  /\ MoveTo("stepping")
  /\ UNCHANGED <<vars, plannerVars, options, explain, code>>

GiveSteps(c) ==
  /\ Gives(c)
  /\ c.program = "eventnet_scenario" /\ ~ BadArguments(c) /\ c.steps # <<>>
  /\ stepsLeft' = c.steps
  /\ explain' = IF c.options.explain THEN <<>> ELSE explain
  /\ MoveTo("stepping")
  /\ UNCHANGED <<vars, plannerVars, options, code>>

GiveGenerator(c) ==
  /\ Gives(c)
  /\ c.program = "eventnet_netns_plan"
  /\ PlanStart(c.args)
  /\ MoveTo("planning")
  /\ UNCHANGED <<stepsLeft, options, explain, code>>

NextStep ==
  /\ At("stepping") /\ stepsLeft # <<>> /\ Head(stepsLeft) \in StepNames
  /\ options' = StepOptions(command.options, Head(stepsLeft))
  /\ stepsLeft' = Tail(stepsLeft)
  /\ MoveTo("starting")
  /\ UNCHANGED <<vars, plannerVars, command, selected, explain, code, given>>

UnknownStep ==
  /\ At("stepping") /\ stepsLeft # <<>> /\ Head(stepsLeft) \notin StepNames
  /\ Exit(2)
  /\ UNCHANGED <<vars, plannerVars, command, stepsLeft, options, selected, explain, given>>

StepsDone ==
  /\ At("stepping") /\ stepsLeft = <<>>
  /\ Exit(0)
  /\ UNCHANGED <<vars, plannerVars, command, stepsLeft, options, selected, explain, given>>

PlannerEnds ==
  /\ At("planning") /\ PlanAt("exited")
  /\ Exit(planner.code)
  /\ UNCHANGED <<vars, plannerVars, command, stepsLeft, options, selected, explain, given>>

------------------------------------------------------------------------------
(* run_scenario.                                                             *)

runUnchanged == <<command, stepsLeft, options, given>>

StartFails ==
  /\ At("starting") /\ RunError(options) # 0
  /\ Exit(RunError(options))
  /\ UNCHANGED <<vars, plannerVars, runUnchanged, selected, explain>>

Start ==
  /\ At("starting") /\ RunError(options) = 0
  /\ CreateController(OverridesOf(options))
  /\ MoveTo("deciding")
  /\ UNCHANGED <<plannerVars, runUnchanged, selected, explain, code>>

(* The runtime is generated before the path is compared and recorded. *)
Decides(p) ==
  /\ selected' = p
  /\ MoveTo(IF options.generate THEN "generating" ELSE "recording")
  /\ UNCHANGED code

FallBack ==
  /\ At("deciding") /\ TakesFallback(options)
  /\ IF Entry(options).fallback \in Paths THEN Decides(Entry(options).fallback)
     ELSE Exit(1) /\ UNCHANGED selected
  /\ UNCHANGED <<vars, plannerVars, runUnchanged, explain>>

Reconcile ==
  /\ At("deciding") /\ ~ TakesFallback(options)
  /\ Submit(ForcedIntent(options))
  /\ MoveTo("reconciling")
  /\ UNCHANGED <<plannerVars, runUnchanged, selected, explain, code>>

Reconciled ==
  /\ At("reconciling") /\ pc = "idle"
  /\ IF reply.err = "none" THEN Decides(reply.path) ELSE Exit(1) /\ UNCHANGED selected
  /\ UNCHANGED <<vars, plannerVars, runUnchanged, explain>>

(* generate_runtime hands on the failure or the path, and nothing else. *)
(* Mutant: the path is not handed on. *)
ChildDecides(o, p) ==
  PlanArguments(o.file, NoId, NoPath, IF ActiveFailed(o) THEN o.active ELSE NoPath,
                IF o.failed = NoPath THEN <<>> ELSE <<o.failed>>)
ChildArguments(o, p) ==
  IF ActiveFailed(o) THEN PlanArguments(o.file, NoId, NoPath, o.active, <<o.failed>>)
  ELSE PlanArguments(o.file, NoId, p, NoPath, <<>>)

Generate ==
  /\ At("generating")
  /\ PlanStart(ChildArguments(options, selected))
  /\ MoveTo("waiting")
  /\ UNCHANGED <<runUnchanged, selected, explain, code>>

(* The script does not find the generator. *)
GenerateFails ==
  /\ At("generating")
  /\ Exit(1)
  /\ UNCHANGED <<vars, plannerVars, runUnchanged, selected, explain>>

Generated ==
  /\ At("waiting") /\ PlanAt("exited")
  /\ IF planner.code = 0 THEN MoveTo("recording") /\ UNCHANGED code ELSE Exit(1)
  /\ UNCHANGED <<vars, plannerVars, runUnchanged, selected, explain>>

AsExpected == options.expected \in {NoPath, selected}

StepName ==
  IF command.steps = <<>> THEN "single"
  ELSE command.steps[Len(command.steps) - Len(stepsLeft)]

Event == [step |-> StepName, options |-> options, selected |-> selected, pass |-> AsExpected]

AppendEvent == explain' = IF options.explain THEN Append(explain, Event) ELSE explain

Recorded ==
  /\ At("recording")
  /\ AppendEvent
  /\ IF ~ AsExpected THEN Exit(1)
     ELSE IF command.steps = <<>> THEN Exit(0) ELSE MoveTo("stepping") /\ UNCHANGED code
  /\ UNCHANGED <<vars, plannerVars, runUnchanged, selected>>

(* The log cannot be opened. *)
RecordFails ==
  /\ At("recording") /\ options.explain
  /\ Exit(1)
  /\ UNCHANGED <<vars, plannerVars, runUnchanged, selected, explain>>

------------------------------------------------------------------------------
NoOptions ==
  [file |-> NoId, intent |-> NoId, mode |-> "yaml", order |-> NoOrder, active |-> NoPath,
   failed |-> NoPath, expected |-> NoPath, injected |-> <<>>, explain |-> FALSE,
   generate |-> FALSE]

(* What a command may ask of the intents of a file and of the mock probe:    *)
(* the options it may run with, and what the generator may be told.          *)
RunOptions(c) ==
  IF c.program # "eventnet_scenario" \/ BadArguments(c) THEN {}
  ELSE IF c.steps = <<>> THEN {c.options}
  ELSE {StepOptions(c.options, step) : step \in StepNames}
HarnessOptions == UNION {RunOptions(c) : c \in Invocations}
GeneratorArguments ==
  {c.args : c \in {d \in Invocations : d.program = "eventnet_netns_plan"}}
  \cup {ChildArguments(o, p) : o \in HarnessOptions, p \in Paths}

ASSUME InvocationAssumption ==
  /\ \A c \in Invocations :
       \/ c.program = "eventnet_netns_plan" /\ c.args.failed \in Seq(Range(c.args.failed))
       \/ /\ c.program = "eventnet_scenario" /\ c.steps \in Seq(Range(c.steps))
          /\ DOMAIN c.options = DOMAIN NoOptions
  /\ \A o \in HarnessOptions :
       /\ o.injected \in Seq(Range(o.injected))
       /\ \A n \in DOMAIN OverridesOf(o) : OverridesOf(o)[n].reading \in Readings
       /\ RunError(o) = 0 => ForcedIntent(o) \in Intents
  /\ \A args \in GeneratorArguments :
       IntentsFound(args.file, args.intent) # {} => PlanIntent(args).request \in Intents

ScenarioInit ==
  /\ net = UnderOverrides(<<>>) /\ Init
  /\ PlannerInit
  /\ at = "shell" /\ command = Harness(NoOptions, <<>>) /\ stepsLeft = <<>>
  /\ options = NoOptions /\ selected = NoPath /\ explain = <<>> /\ code = 0 /\ given = 0

(* The submission of either program, and the other steps of the generator. *)
SubmissionStep ==
  /\ At("reconciling") \/ (at \in {"planning", "waiting"} /\ PlanAt("calling"))
  /\ CallStep
  /\ UNCHANGED <<plannerVars, harnessVars>>

GeneratorStep ==
  /\ At("planning") \/ At("waiting")
  /\ PlannerStep
  /\ UNCHANGED harnessVars

ProgramStep ==
  \/ NextStep \/ UnknownStep \/ StepsDone \/ PlannerEnds
  \/ StartFails \/ Start \/ FallBack \/ Reconcile \/ Reconciled
  \/ Generate \/ GenerateFails \/ Generated
  \/ Recorded \/ RecordFails
  \/ SubmissionStep \/ GeneratorStep

ScenarioNext ==
  \/ \E c \in Invocations : GiveRefused(c) \/ GiveSingle(c) \/ GiveSteps(c) \/ GiveGenerator(c)
  \/ ProgramStep

(* A command runs until it ends; the shell need not give another. *)
ScenarioSpec ==
  ScenarioInit /\ [][ScenarioNext]_scenarioVars /\ WF_scenarioVars(ProgramStep)
==============================================================================
