# PathWeaver eventnet: a TLA+ verification project

PathWeaver (`eventnet` in the code) moves the traffic between two sites from one
multi-hop IPsec path to another without breaking it.  A client submits an
*intent*: which traffic, which paths it may use and how to choose among them,
and how carefully to switch.  The controller observes the candidate paths,
selects one, brings its tunnels up, validates it end to end, moves the
forwarding of the traffic onto it, confirms the move, and rolls its own record
back when a stage fails.

This directory holds TLA+ models of that code, the TLC runs that check them on
small instances, and TLAPS proofs of the properties that matter most for every
instance.  Paths below are relative to the repository root.

## 1. Inventory

### 1.1 Components

| component | source | state it keeps | operations |
|---|---|---|---|
| controller | `src/controller.c`, `src/state.c`, `src/audit.c`, `src/internal.h` | paths with their operational state, intents, observed tunnels, health readings, applied path per traffic key, transition state, error list, audit log; all in fixed arrays | create, destroy, submit intent, observe candidates, getters |
| transition engine | `src/transition.c` | works on the controller's state; locals: traffic key, rollback path | prepare, ready, commit (immediate, graceful, flow-preserve), confirm, rollback |
| path selection | `src/path_selection.c` | none (pure over the controller's paths and readings) | explicit, priority, evaluated selection; exclusion; comparison |
| mock adapters | `src/vpp_adapter_mock.c`, `src/strongswan_adapter_mock.c`, `src/health_probe.c` | caller-owned contexts: table key -> path, `fail_next_update`, reading overrides | install/active path, ensure/remove tunnel, validate path, set a reading |
| command adapters | `src/command_adapters.c`, `src/render_commands.c` | caller-owned contexts: command templates, table key -> path | the same callbacks, through `system()` on `swanctl`, `vppctl` and a probe command |
| YAML configuration | `src/yaml_config.c` | parser position (section, context, current item), the configuration read so far | load, normalize, validate |
| apply plan | `src/apply_plan.c` | a plan: commands, rollback commands, swanctl configuration text | generate, write files, run |
| demo topology | `src/topology.c` | none | constant paths and a base intent |
| scenario harness | `examples/eventnet_scenario.c` | options of the run, steps left, result; on disk the explain log | run one scenario or a list of named steps: inject readings, submit or fall back, generate, compare, record |
| namespace planner | `examples/netns_plan.c` (through `scripts/vm-generate-netns-runtime.sh`) | arguments, chosen path; on disk five generated files | choose a path, write the runtime of that path |
| demonstrations | `examples/yaml_demo.c`, `examples/demo.c` | none of their own | plan and apply each intent of a file; three fixed submissions |
| shell runtime | `scripts/` | Linux namespaces, VPP, strongSwan of a test machine | set up, apply, check, tear down |

### 1.2 How they interact

`en_controller_submit_intent` is the one entry point.  It is synchronous: it
calls the probe for every candidate, then `en_select_path`, then
`en_transition_path`, which calls the tunnel adapter once per segment, the probe
again, the forwarding adapter to install and to read back, and sleeps twice under
the graceful strategy.  The adapters are structs of function pointers with a
`ctx` owned by the caller; nothing calls the controller back, and it has no
thread of its own.  What does run next to a call is the world: links fail and
recover while commands run, and the process can be killed between two of them.
`yaml_config` produces the paths, tunnels and intents the examples hand to the
controller or to `apply_plan`.  `eventnet_scenario` creates a controller of its
own for each run, unless the active path has failed and the intent names a
fallback: then it takes the fallback without asking the controller.  It may start
the planner as a child process, which loads the same file, decides with a
controller of its own, and answers with its exit code and the files it wrote.
The log and the files are all that outlives a command.

### 1.3 What is hard

* A submission passes five stages; each can fail after the earlier ones have
  changed tunnels, path states, readings, logs, or the FIB.
* Three records describe the same fact, the path of a traffic key: the
  controller's `applied_paths`, the adapter's table, the FIB.  They are updated
  at different steps and only two of them are ever compared.
* Every table is a fixed array, and most drop silently when full.
* Readings stay in the health table for ever and are used again.
* A command that exits non-zero may have done its work.
* A restart loses the controller and keeps the adapters; a crash loses both and
  keeps the FIB.
* A scenario and the planner it starts decide independently, from different
  arguments; five files and a log are written one after the other over what
  earlier commands left.

`PROJECT.json` lists these as hazards, each at its line.  Four more are small or
follow from one of those: exclusion reasons are dropped on `NO_CANDIDATE`
(`controller.c:77`), the traffic key is cut to 128 bytes (`state.c:126`),
selection never compares a path's ends with the intent's traffic
(`path_selection.c:20`), and submitting the active path again runs it through
PREPARING (`transition.c:74`).

What makes each component correct:

* **Controller and transition engine**: a submission is all or nothing; the
  controller's record, the adapter's table and the FIB agree on the path of a
  key; traffic moves only onto prepared, validated paths; the audit trail tells
  how each call ended; nothing is dropped for want of room; each call returns.
* **Selection**: one pass over the candidates gives the answer the whole list
  calls for, whatever the order and repetitions of an evaluated list.
* **Adapters**: an install either happens and is remembered or fails.
* **Loader**: an accepted file is read as it is written, and can be planned.
* **Apply plan**: a route is never over a path that is down, and an undone plan
  leaves nothing behind.
* **Scenario harness and planner**: the path reported is the one the file calls
  for under the injected conditions, a failed path is not selected, the log tells
  the steps of the command it belongs to, and the generated files are all about
  one path, the one asked for, with routes that lead along it both ways.

## 2. The modules and the code

| module | models | extends / composes |
|---|---|---|
| `EventnetTypes` | the enumerations of `include/eventnet/types.h` | |
| `PathSelection` | the answer of `en_select_path` for a candidate list and a health table, stated over the whole list: exclusion, `Better`, the set of possible outcomes | `EventnetTypes` |
| `SelectionScan` | the loop of `en_select_path` itself: index, best-so-far slot, exclusions, early returns | `PathSelection` |
| `Adapters` | one operator per adapter callback, for the mock and the command variant, and the world behind them | `PathSelection` |
| `Controller` | `en_controller_submit_intent` down to `rollback`, cut into one action per adapter call or sleep, and its environment | `Adapters` |
| `ControllerProperties` | the type invariant and every property of the controller | `Controller` |
| `SwitchService` | abstract: what a client may rely on, with no stage, reading or adapter | |
| `ControllerService` | the refinement mapping from the controller to `SwitchService` | both |
| `YamlConfig` | `yaml_config.c`: the line-by-line parser, normalisation, validation | |
| `ApplyPlan` | `apply_plan.c`: the commands of a plan, their order, the errors and the limit | |
| `YamlReading` | a second, declarative reading of the same file by its indentation, the reference of the loader's properties | `YamlConfig`, `ApplyPlan` |
| `ApplyRun` | the run of plans one after the other (`yaml_demo --apply`) and the rollback by hand | `ApplyPlan` |
| `RoutePlan` | what the planner writes about a path: kind of runtime, routes of every node, the two routes of the VPP between the sites | `ApplyPlan` |
| `NetnsPlan` | `netns_plan.c`: arguments, choice of the path, the five files | composes `ControllerProperties` (its controller) and `RoutePlan` |
| `Scenario` | `eventnet_scenario.c` and the shell that runs both programs | composes `NetnsPlan` (controller and child process) |
| `ScenarioProperties` | what a user of the two programs relies on, with a reference for the path called for | `Scenario` |
| `MC*` | the small instances | |
| `PathSelectionProofs`, `SelectionProofs` | theorems of the selection | `PathSelection`, `SelectionScan` |
| `ControllerProofs` | theorems of the controller: types, room, atomicity, agreement with the adapter, the trail; the steps of the refinement, the FIB | `ControllerService` |
| `ControllerDecision` | make before break, current decisions, sound answers | `ControllerProofs`, `PathSelectionProofs` |
| `YamlProofs` | theorems of the loader about any file: types, what is accepted | `YamlReading` |
| `ReadingProofs` | a file is loaded as it is written, and accepted exactly when it is sound | `YamlProofs` |
| `ApplyProofs` | theorems of the plan run and its rollback | `ApplyRun` |
| `ScenarioProofs` | theorems of the two programs | `ScenarioProperties`, `ControllerDecision` |

### 2.1 Selection

`PathSelection!SelectPath(intent, health)` is a set of outcomes (error, path,
excluded paths) defined with quantifiers over the candidate list.
`SelectionScan` is the C loop: `UnknownCandidate` is the early `NOT_FOUND`,
`ExcludeCandidate` the `continue` after an exclusion, `TakeFirstUsable` the
return of priority mode, `Evaluate` the update of `best` by `compare_paths`.
`ComparePaths` says what the loop over the comparison keys computes: the first
key on which the two paths differ decides, the path identifier when none does.
`Controller` uses `SelectPath`, not the loop; the run `selection_scan` and the
theorem `ScanIsCorrect` show the two agree.

### 2.2 Adapters and controller

The constants `SwanAdapter`, `VppAdapter` and `ProbeAdapter` choose the wiring,
as the three adapter structs given to `en_controller_create` do.  `table` is the
(key, path) array of the forwarding adapter's context, `failNext` its
`fail_next_update`, `routes` the FIB, `net` what a probe would find.
`Renderable` and `Initiable` are the paths and tunnels for which a command can be
rendered: a path without prefix or next hop, or a segment without a tunnel
identifier, is refused as an invalid argument before any command runs.

A submission is cut where it calls an adapter or sleeps, because that is where
the network may change, a command may fail and the process may be killed:

| `pc` | code | actions |
|---|---|---|
| `idle` | outside a call | `Submit`, `SubmitRejected` |
| `observing` | `observe_candidate_health`, then `en_select_path` | `ObserveOne`, `ObserveUnknown`, `ObserveFails`, `Select`, `SelectFails` |
| `preparing` | `transition_prepare` | `EnsureTunnel`, `EnsureFails`, `ObservedFull`, `Prepared` |
| `validating` | `transition_ready` | `Validate`, `ProbeFails`, `ValidationFails` |
| `committing`, `pausing`, `draining` | `transition_commit` up to the install | `CommitImmediate`, `CommitGraceful`, `CommitReserved`, `PauseEnds`, `DrainEnds` |
| `switching` | `install_path` and `set_applied` | `Switch`, `SwitchFails` |
| `confirming` | `transition_confirm` | `Confirm`, `ConfirmFails` |

Every failing action applies `Fail`, which is `rollback` with all it writes:
audit events, error records, transition state, applied path.  The environment
is `NetworkChange`, `InjectFailure` (the test driver's `fail_next_update`),
`Restart` (destroy and create on the same adapter contexts) and `Crash` (the
process is killed; only the FIB and the network survive).

`before` is a history variable: the intent, network and records at the start of
the call.  `reply` is what the client was told.

### 2.3 The service

`SwitchService` says: a request names a key and the paths it accepts; the key is
put on at most one of them, once; the answer is a success exactly when it was;
no other key moves; the request is answered.  `ControllerService` maps the
forwarding of a key to the adapter's table, the job to the running call (done
when `pc` is `confirming`), the answer to the error code returned.

### 2.4 Configuration and plan

A line of a file is a record `[indent, kind, key, value]`; comments, quotes and
blank lines are gone, and a name is one value.  `YamlConfig` has one action per
kind of line: it keeps the parser's section, context, current item and segment
pointer exactly as the code does, and writes through them.  A dereference of a
`NULL` pointer ends the load with the result `crash`.  `YamlReading!Document(d)`
is what the file `d` says when its structure is taken from indentation alone:
no line of it refers to the parser's state.  It is `Said(d, Len(d))`, where
`Said(d, k)` is what the first `k` lines say; items and entries are taken in the
order of their lines by counting the lines before them, so neither is recursive
and both can be proved about.

`ApplyPlan` builds the commands and the rollback commands of a path.  `ApplyRun`
runs them against a small model of `swanctl` and `vppctl` (external): a tunnel
can be initiated only when its connection is loaded, loading replaces what was
loaded, and a command that fails may have acted.

### 2.5 The two programs

`Scenario` runs one command of the shell at a time.  `at` is where
`eventnet_scenario` is:

| `at` | code | actions |
|---|---|---|
| `shell` | between commands | `GiveRefused`, `GiveSingle`, `GiveSteps` (which removes the log), `GiveGenerator` |
| `stepping` | the loop over `--steps`, `apply_named_step` | `NextStep`, `UnknownStep`, `StepsDone` |
| `starting`, `deciding` | `run_scenario`: load, overrides, controller or fallback | `StartFails`, `Start`, `FallBack`, `Reconcile` |
| `reconciling` | `en_controller_submit_intent` | the steps of `Controller`, then `Reconciled` |
| `generating`, `waiting` | `generate_runtime`, the child process | `Generate`, `GenerateFails`, `Generated` |
| `recording` | comparison and `append_json_event` | `Recorded`, `RecordFails` |

`planner.at` is where `eventnet_netns_plan` is, started by hand (`planning`) or
as the child (`waiting`): `PlanRefused`, `PlanForced`, `PlanFallback` or a
submission, then one file per step, any of which may fail.

The controller's variables serve both programs, one after the other: the
scenario's controller has answered before it starts the child, and each begins
with `CreateController`, a new controller on new mock adapters whose readings are
the overrides.  Files are what they say: the path, the kind of runtime and the
routes; the log is a sequence of lines with the options of their run.  The
loader is taken as the constant `Yaml` (what each file says, or that it does not
load), since `YamlConfig` treats it by itself.

## 3. What is checked

| run | question | bounds |
|---|---|---|
| `selection_scan` | does the loop give the declarative answer (`ScanAgrees`), is the best-so-far slot enough (`BestSoFar`), does an evaluated list count as a set, whatever its order and repetitions (`ListIsASet`) | four paths, one disabled, and an unknown id; all lists of up to two of them and the triples of three usable paths; four health tables with ties and missing readings; five comparison orders |
| `controller_mock` | atomicity, agreement of record and adapter, truth of the trail, currency of decisions, room in the logs, make before break, and whether the controller is a `SwitchService` | two paths (two hops, one hop), three keys for tables of two, four intents of every mode and two strategies, an explicit path next to a list without it; three readings; injected install failures; one restart on the old contexts |
| `controller_fib` | with real commands: does the FIB follow the record (`AppliedIsRouted`), is every switch prepared, does each call return (`CallsReturn`) | one key, an unknown candidate, an empty list, a network that changes at any time, any command failing, one crash anywhere |
| `controller_crowded` | at the limits: three keys, a table of two, two tunnel records for three tunnels, an unrenderable path, a path one of whose segments names no tunnel, route commands that fail after acting | one restart or crash |
| `yaml_config` | is an accepted file read as written (`LoadedAsWritten`), exactly the sound ones accepted (`AcceptedIffSound`); of any file, is what is accepted sound (`AcceptedIsSound`) and plannable (`AcceptedIsPlannable`) | 388 files of the samples' shape, sections and blocks reordered, arrays both full and one too long; 178 more with a line missing, blanked or wrongly indented; 162 of the 566 meet the conditions of the first two |
| `apply_run` | order and failure of commands: `RoutedIsUp`, `AppliedRoutes`, `EarlyFailureKeepsRoutes`, `UndoneLeavesNothing` | two plans in a row over five paths: three of one prefix (two sharing a tunnel), one of another, one unroutable; a plan that just fits |
| `scenario` | does log, exit code and every generated file tell of the decision the file and the injected conditions call for; does each command end | thirty commands of the two programs, any two in a row; five paths, of one to three segments; three YAML files (sample, variant, unreadable); files that cannot be written; more overrides than the table holds |
| `doc_*` | five statements of the documents the code does not keep: see section 6 | |

**Why the bounds are enough.**  A submission appends at most eight audit events
and two errors, and a controller accepts at most `EN_MAX_CANDIDATES` of them, so
`MaxCandidates = 2` with `MaxEvents = 16` and `MaxErrors = 4` is the tightest
instance of that relation (the code has 16, 256 and 64); the theorems below
remove the bound.  Two submissions let the second find what the first left:
another key's entry, the same key's old path, stale readings, a path in READY.
A restart doubles the number of submissions an adapter context sees, which is
what it takes to fill its table.  One two-hop and one single-hop path make a
partly prepared path possible.  Two plans are what it takes for one to replace
another's route.  Two commands are what it takes for one to find the log and the
files of another; the commands are those of
`scripts/vm-eventnet-scenario-smoke.sh` and, for every branch they leave out, a
variation.  `MaxPaths = 5` there stands for the override table of 16 entries: five
injections fill it and the failed path is the sixth.

The numbers of distinct states are 12,623 for `selection_scan`, 798,898 for
`controller_mock` (two minutes), 78,464 for `controller_fib`, 1,128,640 for
`controller_crowded` (under a minute), 28,873 for `yaml_config`, 637 for `apply_run` and 38,696
for `scenario`.

**Deadlock** is checked in the controller runs: a controller can
always be asked again.  The scan, the loader and the plan run are programs that
end, so their configurations say `CHECK_DEADLOCK FALSE`; so does `scenario`, whose
shell has given all its commands at some point.

**Fairness.**  `FairSpec` adds `WF_vars(CallStep)`: a call is sequential code
whose adapter calls and sleeps return, so it is not suspended for ever.  Nothing
obliges a client to submit, the network to recover or an operator to restart.
`ScenarioSpec` adds `WF_scenarioVars(ProgramStep)` for the same reason: a command
runs until it ends, and its child too; nobody is obliged to give another.
`system()` may in truth hang, and `transition.timeout_ms` is never read; then
nothing can be promised, and the hazard is listed without a property.

**Properties with a condition.**  `AppliedIsForwarded` and
`AllOrNothing` hold with the VPP mock.  With the command adapter a new
key is dropped silently when the table is full (`remember_active_path` in
`command_adapters.c`), and
the FIB may move although the command failed; what then still holds is what
`controller_fib` and `controller_crowded` check.  `AppliedIsRouted` needs one
key per prefix and commands that fail without acting.  Two keys whose paths
share a prefix overwrite each other's route, and confirmation, which asks the
adapter for its own memory, does not see it.  `DecisionIsCurrent` leaves out an
explicit intent that also lists candidates (`OwnPathUnobserved`): the code
observes the candidates and decides about a path it has not looked at.
`RoutedIsUp` needs `OwnTunnels`: paths of different prefixes share no tunnel, or
the rollback of one plan terminates a tunnel under the route of another.
`ExplainsDecision` and `FailedNotSelected` speak of runs whose overrides fit the
probe's table (`AllOverridesFit`), since one more is dropped without a word.
`RoutesLeadAcross` speaks of tunnels declared in the direction of their segment
(`Oriented`).  What these conditions leave out, a shared prefix, a lost override
and a tunnel declared the other way, are hazards without a property, each with
its note in `PROJECT.json`.

## 4. What is proved

All proofs are checked by TLAPS, for every set of paths, keys, tunnels, nodes,
intents and readings, and every wiring unless stated.

| theorem | says | inductive invariant |
|---|---|---|
| `TypeCorrect` | `Spec => []TypeOK` | `TypeOK`, one lemma per stage |
| `LogsNeverFull` | no event or error of an accepted submission is dropped | `RoomInv` |
| `SwitchIsRecorded` | the applied-path table always has a slot for the path just installed | `SlotInv` |
| `SubmissionIsAtomic` | an answered call moved exactly its key, in record and adapter, or neither (VPP mock) | `SwitchInv` |
| `RecordMatchesAdapter` | what is recorded as applied is what is forwarded, in every state (VPP mock) | `SwitchInv` with `AppliedIsForwarded` |
| `TrailIsTrue` | the last audit event of an answered call tells how it ended, also across failing commands and crashes | `TrailInv`, with `RoomInv` and `SlotInv` |
| `SwitchesArePrepared` | `Spec => SwitchIsPrepared`: forwarding only moves to an enabled path with its tunnels up and a reading that carries traffic | `PreparedInv` |
| `DecisionsAreCurrent` | a call is answered with the path that the network it was submitted in calls for (probe mock) | `DecisionInv` |
| `StepsRefineService` | every initial state and every step of the controller is one of `SwitchService`, or a stutter (VPP mock) | `AcceptedInv`, with `SwitchInv` and `SlotInv` |
| `RecordMatchesFib` | the FIB routes what is recorded as applied (command adapter, under `OwnPrefixes`) | `RouteInv` |
| `NoFailedPathAnswered` | an answer without an error names the path the intent calls for, and one that carried traffic at submission (probe mock) | `AnswerInv`, with `DecisionInv` |
| `AnswerIsUnique` | selection has exactly one answer for every intent and every table of readings | none: about a definition |
| `ScanTypeCorrect`, `BestIsBest`, `ScanIsCorrect`, `OnlySetMatters` | the one-pass loop is well typed, keeps the best candidate so far, returns the declarative answer, and gives the same one for every evaluated list of the same candidates, in any order and with repetitions (of a refused list: refuses it) | `ScanInv` |

The loader, for every set of files and every size of its tables:

| theorem | says | inductive invariant |
|---|---|---|
| `LoaderTypeCorrect` | `LoaderTypeOK`: whatever lines are read, no array is overrun and the segment pointer stays inside the paths read | `LoaderInv` |
| `AcceptedConfigsAreSound` | what is accepted has its identifiers apart and its references resolved | `AcceptedInv`, with `LoaderInv` |
| `AcceptedConfigsArePlannable` | a plan can be generated for every accepted path whose egress tunnel states selector and endpoint | the same |
| `FilesAreLoadedAsWritten` | `LoadedAsWritten`: what an accepted file in the order of the samples is loaded as is what its indentation says, normalised | `ReadInv`, with `LoaderInv` |
| `SoundFilesAreAccepted` | `AcceptedIffSound`: such a file is refused only for an array it does not fit, a repeated or missing identifier or a reference that does not resolve, and never crashes the loader | `ReadInv`, with `LoaderInv` and `AcceptedInv` |

The run of plans, for every configuration whose paths fit into a plan:

| theorem | says | inductive invariant |
|---|---|---|
| `ApplyTypeCorrect` | `TypeOK` | `ApplyInv` |
| `AppliedPlansRoute` | a plan that was run to its end has its tunnels up and its prefix on its path | `ApplyInv` |
| `EarlyFailuresKeepRoutes` | an apply that fails before its route command changes no route, and none ever changes another prefix | `ApplyInv` |
| `RollbacksUndo` | after a rollback that ended, the plan has left neither route nor tunnel | `ApplyInv` |
| `RoutesLeadOverTunnels` | no route leads into a tunnel that is down (under `OwnTunnels`) | `RoutedOverPlans`, with `ApplyInv` |
| `AppliesCutNoRoute` | the same before any rollback, with no condition | the same |

The two programs, for every topology, list of commands and set of options:

| theorem | says |
|---|---|
| `ScenarioTypeCorrect` | `ScenarioTypeOK` |
| `LogsTellSteps` | the log of a multi-step run is its steps so far, each but the last passed and on the path it is named for |
| `LogsExplainDecisions` | every line names the path that the file calls for under the conditions injected, or the fallback |
| `NoFailedPathSelected` | the path injected as failed is not the one selected, a fallback excepted |
| `FilesAgree` | the files of a generation that ended are all about one path |
| `GenerationsAnswerRequests` | that path is the one asked for, or the one called for under the failures named |
| `GenerationsAgree` | a run that also generated has its own path in the files, except where section 6 says |
| `RoutesCrossThePath` | the routes generated lead from site to site and back along the path |

All of these rest on `ScenarioInv`, the conjunction of `CoreInv` (the
controller's own invariants, whichever program runs it), `ShellInv`, `RunInv`,
`PlannerInv`, `FilesInv` and `LogInv`.  TLC confirmed each of the six, and
`ApplyInv`, `LoaderInv`, `AcceptedInv` and `ReadInv`, on the instances of section
3 before they were proved, `ReadInv` also on files drawn at random line by line.

*Assumptions.*  `PathsAssumption`, `AttributesAssumption`, `AbsenceAssumption`
and `WiringAssumption` type the constants; `ControllerAssumption` says that the
paths fit `EN_MAX_PATHS` and that the "nothing" values are not ordinary ones;
`JobAssumption` separates the values of the service's job; `ScanAssumption`
types the inputs of a scan; `CapacityAssumption` is
`8 * MaxCandidates <= MaxEvents` and `2 * MaxCandidates <= MaxErrors`, which the
constants of `types.h` satisfy (128 of 256, 32 of 64).  `LoaderAssumption` types
the files and the table sizes.  `ApplyAssumption` is `Len(segments) + 2 <=
MaxPlanCommands` for every path (the code: eight segments, so 10 of 128).
`TopologyAssumption` says that the planner's paths are the controller's, each
with a segment; `MockAssumption` that both programs use the mock adapters and
that the readings they inject are readings; `StepAssumption` and
`InvocationAssumption` type the commands and ask that the intents they lead to
are intents of the controller.  TLC evaluates all of them on the instances of
the runs.  `OwnTunnels` and `OwnPrefixes` are hypotheses of one theorem each.

*Arguments.*  `LogsHaveRoom` is not inductive, since it says nothing of the
calls to come.  `RoomInv` charges every accepted intent eight events and two
errors, and lets a running call keep what its stage has still to append; the
intent table, which never shrinks, bounds the total.  `SlotInv` counts in the
same way: at most one new key per accepted intent, and one slot in reserve until
the switch.  `SwitchInv` ties three values of a running call together: before
the install neither record nor table has changed and the rollback path is the
one still recorded; after it both have moved the call's key to the target, so
confirmation cannot fail and rollback is never needed there.

`TrailInv` says the same of the record alone, which is true of every wiring; with
room for the event and a slot for the key, what a call appends last is what it
did last.  `PreparedInv` follows the target through the stages: enabled since the
selection, every tunnel observed or still to be ensured, a good reading stored
since the validation.  Only the install step moves forwarding, and only there
are the three together.

`DecisionInv` is about the observation loop: while it runs, every path to be
observed either is still to come or has the network's reading in the health
table.  When nothing is left, selection sees the network; two health tables that
agree on the candidates have the same answers; and since there is only one
answer, the one taken is the one the property asks for.  That selection has
exactly one answer rests on `Better` being a strict total order (it compares the
first differing key, then identifiers, which differ), and on a finite set of
usable candidates having a least element in it.  The same order makes the
best-so-far slot of the loop enough: `ScanInv` says that the slot is the best of
the candidates passed, and none of these was unknown.

`RouteInv` needs the conditions named in `OwnPrefixes`: each key has a prefix of
its own, the adapter's table has a slot for each key, and a route command that
fails has not acted.  The slot is not a technicality: on a table filled before a
restart, the command adapter drops a new key, confirmation fails, and rollback
leaves the FIB on the target.  `StepsRefineService` is the safety half of
`ImplementsService`: `AcceptedInv` says that the target is one of the paths the
request accepts, so the one move of the job is to one of them.

`AnswerInv` carries the decision on to the answer: the target of a running call
is the path the intent calls for in the network at submission, and
`transition_ready` has probed it again.  This is what the two programs rely on,
whose network does not change during a call.

`LoaderInv` rests on one fact: while a file is read, the configuration only
grows.  The segment pointer, which the code never resets when it leaves a block,
therefore still points into it, and a waypoint or segment line has an item to
belong to.  `AcceptedInv` follows the end of the load: validation returns the
first error it meets and goes on otherwise, so no error means that every item
passed; normalisation fills in the egress before it looks the tunnel up, so what
was validated is what a plan is generated from.

`ReadInv` is what replaces an induction over the file.  `LoadedAsWritten`
compares two readings of a whole file, one pass with a running context and one by
indentation, and says nothing of the lines on the way; nor could it be inductive.
`ReadInv` makes the same comparison after every line: what the loader holds
after `k` lines is `Said(doc, k)`, its section is that of line `k`, its context
is the one set by the last line that sets any (`ContextAt`), there is an item
below an item line, and in a path with segments the segment pointer is at its last
segment.  Then each line has to be shown to add the same to both readings.  On
the side of the file this is a handful of lemmas: a line at the margin changes
nothing (`HeaderAddsNothing`), an item line appends one item of defaults and its
own key (`ItemAdds`, `NewItemSays`), and a deeper line changes the last item of its
section and nothing else (`DeepChangesItem`): one field (`FieldSays`), the end of
one list (`EntrySays`, `SegmentSays`), the last segment (`SegmentFieldSays`) or
nothing at all (`OpenerAddsNothing`).  On the side of the reader it is one lemma
for each action, whose crux is that its context is the block the line stands in
(`ContextOfEntry`, `ContextOfField`, `ContextOfSegmentField`): there the order of
the samples (`ScalarsFirst`) is used, and nowhere else.  That lines only add to
what a file says gives the converse for early refusals: a list too long at some
line is too long in the file (`TooManyItemsSaid`, `TooManyEntriesSaid`), and the
other refusals never happen (`NeverOrphan`, `NeverMisplaced`,
`NeverWithoutItem`).

`ApplyInv` relates the plan counter to what has acted: the commands before
`step` have been run, a run initiates every tunnel before it routes, and a
rollback unroutes before it terminates.  That is the order that keeps
`RoutedOverPlans`; only the terminations of a rollback can touch a tunnel of
another plan, which is where `OwnTunnels` comes in.

`ScenarioInv` says at each point of a command what has been decided and in which
network.  Three facts carry the theorems.  The overrides are applied in order
and the last one for a path stands: the table is a recursive function of the
number of overrides, and the last override for a path is the one such that none
after it names the path (a least counterexample, no induction over an operator).
Harness and generator inject a failure with different numbers, and still agree:
selection reads no other number of a path that is down.  The list of VPP routes
is given by index, so that the two routes of a segment can be named and each
shown to lead to the neighbour.  `RoutesLeadAcross` speaks of tunnels declared in
the direction of their segment (`Oriented`); the proof showed that this has to
leave out a tunnel from a node to itself, which has no far end.

*Only model-checked.*  Liveness (`CallsReturn`, `CommandsEnd`, the fairness half
of `ImplementsService`), which is out of the prover's reach.  Every safety property
of the passing runs is a theorem.  The statements of section 6 are refuted by TLC
and have nothing to prove.

## 5. Decisions worth knowing

* The mock probe's readings are changed by the driver between calls; a command
  probe asks a live network, so its readings change at any time.
* Traffic keys, names and node identifiers are atomic; their truncation to fixed
  lengths is a listed hazard.  The wording of reasons and events is left out;
  the audit log is its length, last event and last reference.
* `observed_tunnels` is a set, since every entry is ESTABLISHED and entries are
  never removed; its capacity is kept.
* The planner's copy of the YAML rules is the constant `Topology` of `NetnsPlan`;
  `TopologyAssumption` ties it to the constants of the controller.  Losses are in
  tenths of a percent.
* In `Scenario` a log line keeps the options of its run.  Of these the JSON text
  holds all but the comparison order, and it prints a loss of 0.0 for an injected
  failure without an explicit loss, although 100 was applied.
* Callbacks and arguments that are `NULL` are left out: every driver in the
  repository passes complete adapters.  `dry_run` behaves as a command that
  always succeeds.
* `LoadedAsWritten` and `AcceptedIffSound` speak of well-formed files with the
  scalars of a block before its nested blocks, as all samples have them;
  `LoadedByIndentation` drops the second condition and is the finding `doc_yaml`.
  Well-formed (`WellFormed`) says of each line where it may stand: one level of
  two spaces below its parent, and below an item, a list or a block only what
  may be there.  Four shapes that the proof showed to be read in another way than
  they are indented are therefore not well-formed, and no sample has them: a
  value behind the name of a section, an entry of a plain list with a colon in
  it, anything indented under such an entry, and anything nested under a key that
  names no block (in a path its keys may go into the last segment).
* Both properties also speak of files refused half-way (`Finished`), so a refusal
  in the middle has to be for an array that the whole file does not fit.
* In `ApplyRun` the controller's choice is any path of the configuration.  That
  paths of different prefixes share no tunnel is the named condition
  `OwnTunnels`, which `MCApplyRun` assumes of its instance and one theorem has
  as a hypothesis.

## 6. Where the code and its documents disagree

| run | the document says | the code does |
|---|---|---|
| `doc_active` | ACTIVE is the path in use for forwarding | the path traffic leaves stays ACTIVE |
| `doc_rollback` | a failed commit or confirm returns to the previous path | rollback rewrites only the controller's record; a route command that acted before failing leaves the FIB on the failed path |
| `doc_priority` | the first usable candidate in order is chosen | with the command probe, the first dead candidate ends the call |
| `doc_yaml` | the parser is based on indentation | a line is interpreted by the last block opened: a limit after a waypoint list of the same block is dropped, one waypoint list after the other is merged into it |
| `doc_runtime` | the runtime is generated from the selection of the controller | after a failure of the active path the generator is told neither the path nor the intent, decides again for the first intent of the file, and may write another path; both programs exit with 0 |

Seen while modelling, with no document that says otherwise: the graceful
strategy drains the *target*; the target is READY before it is validated and
stays so when validation fails; an explicit intent that also lists candidates is
judged on an older reading of its own path; a block before the first intent item
makes the loader dereference `NULL`; a failing observation appends no error
record; a fallback is taken unlooked at and may be disabled, unhealthy or the path
that failed; a seventeenth override of the probe mock is dropped, which may be the
failure itself; the loader does not check that a tunnel is declared in the
direction of its segment, and the routes generated for one that is not lead the
wrong way; the explain log does not quote the override of `--fail-path`.

## 7. What is not modelled

* `examples/demo.c`: three fixed submissions, contained in `Controller`.
* `scripts/`: effects on a test machine, outside the program.  The two scripts
  that start the programs are modelled by what they pass on.
* `tests/`: read as statements of intent; the failure they inject is the action
  `InjectFailure`.
* The text of rendered commands, generated scripts and JSON; quoting, comments
  and the cut of long names and lines; `--out-dir`, `--help` and the usage errors
  of unknown options.
* `remove_tunnel` and `strongswan_remove`, which nothing calls; getters.

## 8. Plan

Done: the core (2.1–2.3), the loader and the apply plan (2.4), the two programs
(2.5), and the proofs of section 4, which cover every safety property the runs
check.  What would come next:

1. The loader in front of the two programs instead of the constant `Yaml`, for a
   few files, so that a misread file and its consequences are seen together.
2. An abstract specification of the two programs (a command asks for a path and
   is told one), which `ScenarioProperties` implements step by step.
3. The hazards without a property: `PROJECT.json` says of each why it has none.
