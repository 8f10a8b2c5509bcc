------------------------------ MODULE Adapters -------------------------------
(***************************************************************************)
(* The three adapters a controller is wired with, and the world behind     *)
(* them: the tunnel adapter (strongSwan), the forwarding adapter (VPP) and *)
(* the path probe.  Each exists twice in the source, as a mock that keeps  *)
(* its state in memory and as a command adapter that runs shell commands.  *)
(* An operator named after a callback describes one call of it: the        *)
(* outcomes it may return and what it changes.                             *)
(***************************************************************************)
EXTENDS PathSelection

CONSTANTS
  Keys,           \* traffic keys ("source->destination")
  FibPrefixes,    \* route prefixes of the VPP FIB
  RoutePrefix,    \* route_destination_prefix of each path
  Renderable,     \* paths en_render_vpp_route_replace accepts
  Initiable,      \* tunnels en_render_swanctl_initiate accepts
  SwanAdapter,    \* "mock" or "command"
  VppAdapter,     \* "mock" or "command"
  ProbeAdapter,   \* "mock" or "command"
  FailEffects,    \* what a failing route command may have done: "none", "applied"
  Readings,       \* what the network may answer to a probe of a path
  MaxCandidates   \* EN_MAX_CANDIDATES, also the size of the adapters' tables

ASSUME WiringAssumption ==
  /\ {SwanAdapter, VppAdapter, ProbeAdapter} \subseteq {"mock", "command"}
  /\ FailEffects \subseteq {"none", "applied"}
  /\ RoutePrefix \in [Paths -> FibPrefixes]
  /\ Renderable \subseteq Paths
  /\ Readings \subseteq HealthRecords
  /\ IsFiniteSet(Keys)
  /\ MaxCandidates \in Nat \ {0}

VARIABLES
  table,      \* traffic_keys/active_paths of the forwarding adapter's context
  failNext,   \* fail_next_update of the VPP mock
  routes,     \* the path whose next hop the FIB uses, by prefix
  net         \* what the network would answer to a probe, by path

adapterVars == <<table, failNext, routes, net>>

AdaptersTypeOK ==
  /\ table \in [Keys -> Paths \cup {NoPath}]
  /\ failNext \in BOOLEAN
  /\ routes \in [FibPrefixes -> Paths \cup {NoPath}]
  /\ net \in [Paths -> Readings]

EmptyTable == [k \in Keys |-> NoPath]

AdaptersInit ==
  /\ table = EmptyTable
  /\ failNext = FALSE
  /\ routes = [x \in FibPrefixes |-> NoPath]
  /\ net \in [Paths -> Readings]

(* A table of (key, path) pairs with MaxCandidates slots: an entry is        *)
(* overwritten in place, a new key needs a free slot.                        *)
Filled(t) == {k \in DOMAIN t : t[k] # NoPath}
(* Mutant: the last slot is never used. *)
HasSlotOneShort(t, k) == k \in Filled(t) \/ Cardinality(Filled(t)) < MaxCandidates - 1

HasSlot(t, k) == k \in Filled(t) \/ Cardinality(Filled(t)) < MaxCandidates

(* Mutant: a known key keeps its old entry. *)
RecordNewOnly(t, k, p) ==
  IF k \notin Filled(t) /\ HasSlot(t, k) THEN [t EXCEPT ![k] = p] ELSE t

Record(t, k, p) == IF HasSlot(t, k) THEN [t EXCEPT ![k] = p] ELSE t

(* Mutant: a full table drops the entry and still reports success. *)
InstallDrops(k, p, err) ==
  /\ failNext' = FALSE
  /\ err = IF failNext THEN "forwarding_update_failed" ELSE "none"
  /\ table' = IF err = "none" THEN Record(table, k, p) ELSE table
  /\ UNCHANGED <<routes, net>>

(* install_path of the VPP mock. *)
MockInstall(k, p, err) ==
  /\ failNext' = FALSE
  /\ err = IF failNext THEN "forwarding_update_failed"
           ELSE IF HasSlot(table, k) THEN "none" ELSE "invalid_argument"
  /\ table' = IF err = "none" THEN [table EXCEPT ![k] = p] ELSE table
  /\ UNCHANGED <<routes, net>>

(* vpp_install: render the route, run the command, then remember the path.   *)
(* A command that exits non-zero may have changed the FIB before it failed.  *)
CommandInstall(k, p, err) ==
  /\ UNCHANGED <<failNext, net>>
  /\ \/ /\ p \notin Renderable
        /\ err = "invalid_argument"
        /\ UNCHANGED <<table, routes>>
     \/ /\ p \in Renderable
        /\ err = "none"
        /\ routes' = [routes EXCEPT ![RoutePrefix[p]] = p]
        /\ table' = Record(table, k, p)
     \/ /\ p \in Renderable
        /\ err = "state_conflict"
        /\ \E effect \in FailEffects :
             routes' = IF effect = "applied" THEN [routes EXCEPT ![RoutePrefix[p]] = p]
                       ELSE routes
        /\ UNCHANGED table

InstallErrors == {"none", "forwarding_update_failed", "invalid_argument", "state_conflict"}

InstallPath(k, p, err) ==
  \/ VppAdapter = "mock" /\ MockInstall(k, p, err)
  \/ VppAdapter = "command" /\ CommandInstall(k, p, err)

(* active_path and vpp_active_path: both look the key up in the context.     *)
ActivePath(k) == table[k]

(* ensure_tunnel: the mock always succeeds; a swanctl command may fail, and  *)
(* is not rendered for a segment that names no tunnel.                       *)
EnsureErrors(t) ==
  IF SwanAdapter = "mock" THEN {"none"}
  ELSE IF t \in Initiable THEN {"none", "state_conflict"}
  ELSE {"invalid_argument"}

(* validate_path: the mock hands out the network's reading; the command      *)
(* probe returns an error when its command fails, after filling in a FAILED  *)
(* reading nobody stores.                                                    *)
CarriesTraffic(h) == h.state \in {"healthy", "degraded"}

Probe(p) ==
  IF ProbeAdapter = "mock" THEN [err |-> "none", health |-> net[p]]
  ELSE IF CarriesTraffic(net[p])
       THEN [err |-> "none", health |-> [state |-> "healthy", rtt |-> 0, loss |-> 0]]
       ELSE [err |-> "state_conflict", health |-> [state |-> "failed", rtt |-> 0, loss |-> 100]]

ProbeResults == [err : {"none", "state_conflict"}, health : HealthRecords]
==============================================================================
