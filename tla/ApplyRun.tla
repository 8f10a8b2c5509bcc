------------------------------- MODULE ApplyRun ------------------------------
(***************************************************************************)
(* Applying plans one after the other (src/examples/yaml_demo.c with       *)
(* --apply: en_apply_plan_from_config_with_file, the two writers,          *)
(* en_apply_plan_run), and undoing the last one with the rollback commands *)
(* it prints, which are run by hand and in their order.  swanctl and       *)
(* vppctl are external: a tunnel comes up only when its connection is      *)
(* loaded, and a command that fails may have acted.                        *)
(***************************************************************************)
EXTENDS ApplyPlan

CONSTANTS
  Config,         \* the configuration that was loaded
  MaxIntents      \* intents of the configuration, one selected path each

VARIABLES
  pc,        \* where the program, or the person rolling back, is
  intents,   \* intents not planned yet
  plan,      \* the plan being run
  step,      \* index of its next command
  file,      \* tunnels described by the swanctl file on disk
  loaded,    \* connections swanctl has
  up,        \* tunnels that are established
  fib,       \* prefix -> next hop
  before     \* the FIB when the plan was made

network == <<loaded, up, fib>>
vars == <<pc, intents, plan, step, file, network, before>>

NoPlan == [error |-> "none", conf |-> {}, path |-> <<>>, commands |-> <<>>, rollback |-> <<>>]
NoHop == "no hop"
ConfigPaths == Range(Config.paths)
RoutePrefixes == {p.prefix : p \in ConfigPaths}
Plannable == {p \in ConfigPaths : PlanError(Config, p) = "none"}
TunnelNames == {t.tunnel_id : t \in Range(Config.tunnels)}

(* EN_MAX_PLAN_COMMANDS (apply_plan.h:6) has room for a path with            *)
(* EN_MAX_SEGMENTS segments (types.h:12): 10 commands of 128.                *)
ASSUME ApplyAssumption ==
  /\ MaxIntents \in Nat /\ MaxPlanCommands \in Nat
  /\ \A p \in ConfigPaths :
       p.segments \in Seq(Range(p.segments)) /\ Len(p.segments) + 2 <= MaxPlanCommands

(* What a command does when it acts.                                        *)
Acts(cmd) ==
  /\ loaded' = IF cmd.op = "load" THEN file ELSE loaded
  /\ up' = CASE cmd.op = "initiate" -> up \cup {cmd.tunnel}
             [] cmd.op = "terminate" -> up \ {cmd.tunnel}
             [] OTHER -> up
  /\ fib' = CASE cmd.op = "route" -> [fib EXCEPT ![cmd.prefix] = cmd.hop]
              [] cmd.op = "unroute" -> [fib EXCEPT ![cmd.prefix] = NoHop]
              [] OTHER -> fib
CanAct(cmd) == cmd.op = "initiate" => cmd.tunnel \in loaded
Fails(cmd) == UNCHANGED network \/ (CanAct(cmd) /\ Acts(cmd))

Init ==
  /\ pc = "plan" /\ intents = MaxIntents /\ plan = NoPlan /\ step = 1
  /\ file = {} /\ loaded = {} /\ up = {}
  /\ fib = [p \in RoutePrefixes |-> NoHop] /\ before = fib

(* Mutant: the loop over the intents runs once too often. *)
PlanOnceMore ==
  /\ pc = "plan" /\ intents >= 0
  /\ intents' = intents - 1 /\ before' = fib
  /\ \E p \in ConfigPaths :
       IF PlanError(Config, p) = "none"
       THEN plan' = PlanOf(Config, p) /\ pc' = "write"
       ELSE plan' = NoPlan /\ pc' = "failed"
  /\ UNCHANGED <<step, file, network>>
(* The path the controller selected for the next intent is planned ...      *)
PlanIntent ==
  /\ pc = "plan" /\ intents > 0
  /\ intents' = intents - 1 /\ before' = fib
  /\ \E p \in ConfigPaths :
       IF PlanError(Config, p) = "none"
       THEN plan' = PlanOf(Config, p) /\ pc' = "write"
       ELSE plan' = NoPlan /\ pc' = "failed"
  /\ UNCHANGED <<step, file, network>>
(* ... its files are written ...                                            *)
WriteFiles ==
  /\ pc = "write" /\ pc' = "run" /\ file' = plan.conf /\ step' = 1
  /\ UNCHANGED <<intents, plan, network, before>>
WriteFails ==
  /\ pc = "write" /\ pc' = "failed" /\ plan' = NoPlan
  /\ file' \in {file, plan.conf}
  /\ UNCHANGED <<intents, step, network, before>>

(* ... and its commands run until one fails, which ends the program.        *)
RunCommand ==
  /\ pc = "run" /\ step <= Len(plan.commands)
  /\ CanAct(plan.commands[step]) /\ Acts(plan.commands[step])
  /\ step' = step + 1
  /\ UNCHANGED <<pc, intents, plan, file, before>>
CommandFails ==
  /\ pc = "run" /\ step <= Len(plan.commands)
  /\ Fails(plan.commands[step])
  /\ pc' = "failed"
  /\ UNCHANGED <<intents, plan, step, file, before>>
RunEnds ==
  /\ pc = "run" /\ step > Len(plan.commands) /\ pc' = "plan"
  /\ UNCHANGED <<intents, plan, step, file, network, before>>

(* When the program ends in or after a run, that plan can be rolled back.   *)
StartRollback ==
  /\ pc = "failed" \/ (pc = "plan" /\ intents = 0)
  /\ plan # NoPlan /\ pc' = "rollback" /\ step' = 1
  /\ UNCHANGED <<intents, plan, file, network, before>>
RollbackCommand ==
  /\ pc = "rollback" /\ step <= Len(plan.rollback)
  /\ Acts(plan.rollback[step]) /\ step' = step + 1
  /\ UNCHANGED <<pc, intents, plan, file, before>>
RollbackFails ==
  /\ pc = "rollback" /\ step <= Len(plan.rollback)
  /\ Fails(plan.rollback[step]) /\ pc' = "stopped"
  /\ UNCHANGED <<intents, plan, step, file, before>>
RollbackEnds ==
  /\ pc = "rollback" /\ step > Len(plan.rollback) /\ pc' = "undone"
  /\ UNCHANGED <<intents, plan, step, file, network, before>>

Next ==
  \/ PlanIntent \/ WriteFiles \/ WriteFails
  \/ RunCommand \/ CommandFails \/ RunEnds
  \/ StartRollback \/ RollbackCommand \/ RollbackFails \/ RollbackEnds

Spec == Init /\ [][Next]_vars

-----------------------------------------------------------------------------
TypeOK ==
  /\ pc \in {"plan", "write", "run", "failed", "rollback", "stopped", "undone"}
  /\ intents \in 0..MaxIntents /\ step \in 1..MaxPlanCommands + 1
  /\ file \subseteq TunnelNames /\ loaded \subseteq TunnelNames /\ up \subseteq TunnelNames
  /\ \A f \in {fib, before} : DOMAIN f = RoutePrefixes

Hop(p) == NextHop(p, TunnelNamed(Config, p.egress))
Carries(p) == Range(TunnelIds(p)) \subseteq up

(* The order of en_apply_plan_run's commands and of the rollback's: through *)
(* failing commands, a plan replacing another and a rollback that stops     *)
(* anywhere, a prefix with a route has it over a path whose tunnels are all *)
(* established.  Paths of different prefixes must not share a tunnel (see   *)
(* OwnTunnels): the rollback of one would terminate it under the other.     *)
RoutedIsUp ==
  \A x \in RoutePrefixes : fib[x] # NoHop =>
    \E p \in ConfigPaths : p.prefix = x /\ Hop(p) = fib[x] /\ Carries(p)

(* What the rollbacks ask of the configuration: only paths of the same      *)
(* prefix share a tunnel.                                                   *)
OwnTunnels ==
  \A p, q \in Plannable :
    Range(TunnelIds(p)) \cap Range(TunnelIds(q)) # {} => p.prefix = q.prefix

(* A run that came to its end has its traffic on its path: no command of it *)
(* was dropped for want of room in the plan.                                *)
AppliedRoutes ==
  pc = "plan" /\ plan # NoPlan =>
    fib[plan.path.prefix] = Hop(plan.path) /\ Carries(plan.path)

(* An apply that ends before its route command leaves every route as it     *)
(* found it, and at no time are the routes of other prefixes touched.       *)
EarlyFailureKeepsRoutes ==
  /\ pc = "failed" /\ step < Len(plan.commands) => fib = before
  /\ plan # NoPlan => \A x \in RoutePrefixes \ {plan.path.prefix} : fib[x] = before[x]

(* A rollback that came to its end leaves neither the route nor a tunnel of *)
(* the plan, however far the plan had come.                                 *)
UndoneLeavesNothing ==
  pc = "undone" => fib[plan.path.prefix] = NoHop /\ plan.conf \cap up = {}
==============================================================================
