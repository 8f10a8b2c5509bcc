------------------------------ MODULE ApplyPlan -----------------------------
(***************************************************************************)
(* The plan en_apply_plan_from_config makes for a path (src/apply_plan.c): *)
(* the commands that bring its tunnels up and route its traffic, and those *)
(* that undo them.  The text of a command is abstracted to what it does,   *)
(* the swanctl configuration to the tunnels it describes.                  *)
(***************************************************************************)
EXTENDS Naturals, Sequences, SequencesExt

CONSTANT MaxPlanCommands   \* EN_MAX_PLAN_COMMANDS

NoTunnel == <<>>
TunnelNamed(c, id) ==
  LET hits == {i \in DOMAIN c.tunnels : c.tunnels[i].tunnel_id = id}
  IN  IF hits = {} THEN NoTunnel ELSE c.tunnels[Min(hits)]

LoadConns == [op |-> "load"]
Initiate(id) == [op |-> "initiate", tunnel |-> id]
Terminate(id) == [op |-> "terminate", tunnel |-> id]
RouteReplace(prefix, hop) == [op |-> "route", prefix |-> prefix, hop |-> hop]
RouteDelete(prefix) == [op |-> "unroute", prefix |-> prefix]

TunnelIds(path) == [i \in DOMAIN path.segments |-> path.segments[i].tunnel_id]
NextHop(path, egress) == IF path.next_hop = "" THEN egress.remote_endpoint ELSE path.next_hop

(* The errors of the generation, in the order it meets them.                *)
PlanError(c, path) ==
  LET egress == TunnelNamed(c, path.egress) IN
  IF \E id \in Range(TunnelIds(path)) : TunnelNamed(c, id) = NoTunnel THEN "not_found"
  ELSE IF "" \in Range(TunnelIds(path)) \/ egress = NoTunnel THEN "invalid_argument"
  ELSE IF path.prefix = "" \/ NextHop(path, egress) = "" THEN "invalid_argument"
  ELSE "none"

(* A command that finds the array full is dropped without an error.         *)
(* Mutant: the last slot is never used. *)
KeptOneShort(commands) == SubSeq(commands, 1, Min({Len(commands), MaxPlanCommands - 1}))
Kept(commands) == SubSeq(commands, 1, Min({Len(commands), MaxPlanCommands}))
(* Mutant: the route comes before the tunnels it uses. *)
CommandsRouteFirst(path, hop) ==
  LET ids == TunnelIds(path) IN
  Kept(<<LoadConns, RouteReplace(path.prefix, hop)>> \o [i \in DOMAIN ids |-> Initiate(ids[i])])
Commands(path, hop) ==
  LET ids == TunnelIds(path) IN
  Kept(<<LoadConns>> \o [i \in DOMAIN ids |-> Initiate(ids[i])]
       \o <<RouteReplace(path.prefix, hop)>>)
(* Mutant: the tunnels go first. *)
RollbackRouteLast(path) ==
  LET ids == Reverse(TunnelIds(path)) IN
  Kept([i \in DOMAIN ids |-> Terminate(ids[i])] \o <<RouteDelete(path.prefix)>>)
(* Mutant: the loop over the segments ends before the first. *)
RollbackKeepsFirst(path) ==
  LET ids == Reverse(TunnelIds(path)) IN
  Kept(<<RouteDelete(path.prefix)>> \o [i \in 1..Len(ids) - 1 |-> Terminate(ids[i])])
RollbackCommands(path) ==
  LET ids == Reverse(TunnelIds(path)) IN
  Kept(<<RouteDelete(path.prefix)>> \o [i \in DOMAIN ids |-> Terminate(ids[i])])

PlanOf(c, path) ==
  LET error == PlanError(c, path) IN
  IF error # "none" THEN [error |-> error]
  ELSE [error |-> "none", conf |-> Range(TunnelIds(path)), path |-> path,
        commands |-> Commands(path, NextHop(path, TunnelNamed(c, path.egress))),
        rollback |-> RollbackCommands(path)]
==============================================================================
