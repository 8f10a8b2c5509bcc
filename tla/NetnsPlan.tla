------------------------------ MODULE NetnsPlan ------------------------------
(***************************************************************************)
(* The program eventnet_netns_plan (examples/netns_plan.c), as run by      *)
(* scripts/vm-generate-netns-runtime.sh: it chooses a path (the one it is  *)
(* told, the fallback of an intent whose active path failed, or the answer *)
(* of a controller of its own) and writes five files about it, one after   *)
(* the other.  The files outlive the program.  Its controller is the one   *)
(* of Controller, wired with the mock adapters.                            *)
(***************************************************************************)
EXTENDS ControllerProperties, RoutePlan

CONSTANTS
  Topology,     \* the tunnels, paths and vpp_edges of the YAML files
  Yaml,         \* the intents of each YAML file, or Unreadable
  Unreadable,   \* a file that does not load
  NoId          \* an option that is not given

(* The controller is given the paths of the file, and en_yaml_config_validate *)
(* has refused a path without segments (yaml_config.c:134).                  *)
ASSUME TopologyAssumption ==
  /\ PathList = [n \in DOMAIN Topology.paths |-> Topology.paths[n].path_id]
  /\ Paths = Range(PathList)
  /\ \A n \in DOMAIN Topology.paths :
       /\ Segments[PathList[n]] = TunnelIds(Topology.paths[n])
       /\ Topology.paths[n].segments \in Seq(Range(Topology.paths[n].segments)) \ {<<>>}

VARIABLES
  planner,   \* the program: where it is, its arguments, its path, its exit code
  files      \* out/netns-runtime: what each file says

plannerVars == <<planner, files>>

FileNames ==
  <<"apply-selected.sh", "apply-integrated.sh", "selected-path.txt",
    "vpp-route-plan.sh", "vpp-netns-route-plan.sh">>

NoFile == [path |-> NoPath, kind |-> "", routes |-> <<>>]

PathRecord(p) == Topology.paths[CHOOSE n \in DOMAIN PathList : PathList[n] = p]

Contents(name, p) ==
  [path |-> p, kind |-> RuntimeKind(PathRecord(p)),
   routes |-> CASE name = "vpp-route-plan.sh"       -> VppRoutes(Topology, PathRecord(p))
                [] name = "vpp-netns-route-plan.sh" -> NetnsRoutes(Topology, PathRecord(p))
                [] OTHER                            -> <<>>]

------------------------------------------------------------------------------
(* A YAML file and the mock adapters, as both programs use them.             *)

(* Losses are in tenths of a percent. *)
AllLost == 1000

(* find_intent, in a file that loads: the first one when no id is given. *)
IntentsFound(file, id) ==
  IF Yaml[file] = Unreadable THEN {}
  ELSE {n \in DOMAIN Yaml[file] : IF id = NoId THEN n = 1 ELSE Yaml[file][n].intent_id = id}
FoundIntent(file, id) == Yaml[file][Min(IntentsFound(file, id))]

(* The override table of the mock probe: an entry is replaced in place, a    *)
(* new one needs a free slot and is dropped without one.                     *)
(* Mutant: the slot is not looked for. *)
OverrideUnbounded(entries, o) ==
  [p \in DOMAIN entries \cup {o.path} |-> IF p = o.path THEN o.reading ELSE entries[p]]
Override(entries, o) ==
  IF o.path \in DOMAIN entries \/ Cardinality(DOMAIN entries) < MaxPaths
  THEN [p \in DOMAIN entries \cup {o.path} |-> IF p = o.path THEN o.reading ELSE entries[p]]
  ELSE entries
(* The table after each of the calls in the list.                            *)
OverrideTables(list) ==
  LET entries[n \in 0..Len(list)] ==
        IF n = 0 THEN <<>> ELSE Override(entries[n - 1], list[n])
  IN  entries
Overrides(list) == OverrideTables(list)[Len(list)]

HealthyReading(p) == [state |-> "healthy", rtt |-> 10 * HopCount(p), loss |-> 0]
FailedReading == [state |-> "failed", rtt |-> 0, loss |-> AllLost]
FailedOverride(p) == [path |-> p, reading |-> FailedReading]

UnderOverrides(list) ==
  LET entries == Overrides(list) IN
  [p \in Paths |-> IF p \in DOMAIN entries THEN entries[p] ELSE HealthyReading(p)]

(* What the programs wire, and what the mock probe may be told.              *)
ASSUME MockAssumption ==
  /\ SwanAdapter = "mock" /\ VppAdapter = "mock" /\ ProbeAdapter = "mock"
  /\ FailedReading \in Readings /\ \A p \in Paths : HealthyReading(p) \in Readings

(* A controller on new adapter contexts. *)
CreateController(list) ==
  /\ NewController
  /\ table' = EmptyTable /\ failNext' = FALSE /\ net' = UnderOverrides(list)
  /\ before' = [Snapshot(NoIntent) EXCEPT !.net = net', !.applied = EmptyTable,
                                          !.table = EmptyTable]
  /\ UNCHANGED routes

------------------------------------------------------------------------------
(* main: arguments and choice.                                               *)

PlanAt(label) == planner.at = label
PlanGoto(label) == planner' = [planner EXCEPT !.at = label]
PlanExit(code) == planner' = [planner EXCEPT !.at = "exited", !.code = code]
PlanWrites(p) == planner' = [planner EXCEPT !.at = "writing", !.path = p]

PlanArguments(file, id, path, active, failed) ==
  [file |-> file, intent |-> id, path |-> path, active |-> active, failed |-> failed]

PlanStart(args) ==
  /\ planner.at \in {"off", "exited"}
  /\ planner' = [at |-> "choosing", args |-> args, path |-> NoPath, next |-> 1, code |-> 0]
  /\ UNCHANGED <<vars, files>>

PlanIntent(args) == FoundIntent(args.file, args.intent)

(* Mutant: the failed paths are only looked at by the controller. *)
PlanIgnoresFallback(args) == FALSE
(* The active path is among the failed ones and the intent has a fallback. *)
PlanTakesFallback(args) ==
  args.active \in Range(args.failed) /\ PlanIntent(args).fallback # NoPath

(* What ends the program before it has a path. *)
PlanRefuses(args) ==
  IF Len(args.failed) > MaxPaths \/ IntentsFound(args.file, args.intent) = {} THEN TRUE
  ELSE IF args.path # NoPath THEN args.path \notin Paths
  ELSE PlanTakesFallback(args) /\ PlanIntent(args).fallback \notin Paths

PlanRefused ==
  /\ PlanAt("choosing") /\ PlanRefuses(planner.args)
  /\ PlanExit(1)
  /\ UNCHANGED <<vars, files>>

PlanForced ==
  /\ PlanAt("choosing") /\ ~ PlanRefuses(planner.args)
  /\ planner.args.path # NoPath
  /\ PlanWrites(planner.args.path)
  /\ UNCHANGED <<vars, files>>

PlanFallback ==
  /\ PlanAt("choosing") /\ ~ PlanRefuses(planner.args)
  /\ planner.args.path = NoPath /\ PlanTakesFallback(planner.args)
  /\ PlanWrites(PlanIntent(planner.args).fallback)
  /\ UNCHANGED <<vars, files>>

(* set_failed_health for every failed path, and a controller of its own. *)
PlanCreates ==
  /\ PlanAt("choosing") /\ ~ PlanRefuses(planner.args)
  /\ planner.args.path = NoPath /\ ~ PlanTakesFallback(planner.args)
  /\ CreateController([n \in DOMAIN planner.args.failed |->
                         FailedOverride(planner.args.failed[n])])
  /\ PlanGoto("submitting")
  /\ UNCHANGED files

PlanSubmits ==
  /\ PlanAt("submitting")
  /\ Submit(PlanIntent(planner.args).request)
  /\ PlanGoto("calling")
  /\ UNCHANGED files

PlanAnswered ==
  /\ PlanAt("calling") /\ pc = "idle"
  /\ IF reply.err = "none" THEN PlanWrites(reply.path) ELSE PlanExit(1)
  /\ UNCHANGED <<vars, files>>

------------------------------------------------------------------------------
(* main: the five files.  The tunnels a route plan looks up are there, since *)
(* the loader refuses a segment with an unknown tunnel.                      *)

(* Mutant: a path without a runtime gets no summary and no routes. *)
WriteSupported ==
  /\ PlanAt("writing") /\ planner.next <= Len(FileNames)
  /\ LET name == FileNames[planner.next]
         unsupported == RuntimeKind(PathRecord(planner.path)) = "unsupported"
     IN  /\ files' = [files EXCEPT ![name] = Contents(name, planner.path)]
         /\ planner' = [planner EXCEPT
                          !.next = IF unsupported /\ planner.next = 2 THEN Len(FileNames) + 1
                                   ELSE planner.next + 1]
  /\ UNCHANGED vars

WriteFile ==
  /\ PlanAt("writing") /\ planner.next <= Len(FileNames)
  /\ LET name == FileNames[planner.next]
     IN  files' = [files EXCEPT ![name] = Contents(name, planner.path)]
  /\ planner' = [planner EXCEPT !.next = planner.next + 1]
  /\ UNCHANGED vars

(* The file cannot be opened: those before it are new, the rest are old. *)
WriteFileFails ==
  /\ PlanAt("writing") /\ planner.next <= Len(FileNames)
  /\ PlanExit(1)
  /\ UNCHANGED <<vars, files>>

FilesWritten ==
  /\ PlanAt("writing") /\ planner.next > Len(FileNames)
  /\ PlanExit(IF RuntimeKind(PathRecord(planner.path)) = "unsupported" THEN 2 ELSE 0)
  /\ UNCHANGED <<vars, files>>

PlannerInit ==
  /\ planner = [at |-> "off", args |-> PlanArguments(NoId, NoId, NoPath, NoPath, <<>>),
                path |-> NoPath, next |-> 1, code |-> 0]
  /\ files = [name \in Range(FileNames) |-> NoFile]

(* Every step of the running program but those of its submission. *)
PlannerStep ==
  \/ PlanRefused \/ PlanForced \/ PlanFallback \/ PlanCreates \/ PlanSubmits \/ PlanAnswered
  \/ WriteFile \/ WriteFileFails \/ FilesWritten
==============================================================================
