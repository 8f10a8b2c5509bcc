---------------------------- MODULE MCController -----------------------------
(***************************************************************************)
(* Small instances of the controller: two of the demo paths of             *)
(* src/topology.c, an unknown identifier, two or three traffic keys.       *)
(***************************************************************************)
EXTENDS ControllerService, TLC

CONSTANTS
  hub, direct, blank, ghost, k1, k2, k3, toHub, fromHub, straight, unnamed, hubNode, px, py

MCPaths == {hub, direct}
MCPathIds == {hub, direct, ghost}
MCPathList == <<hub, direct>>
MCNodes == {hubNode}
MCWaypoints == (hub :> <<hubNode>>) @@ (direct :> <<>>)
MCPriority == (hub :> 30) @@ (direct :> 10)
MCIdRank == (direct :> 1) @@ (hub :> 2)
MCTunnels == {toHub, fromHub, straight}
MCSegments == (hub :> <<toHub, fromHub>>) @@ (direct :> <<straight>>)
TwoKeys == {k1, k2}
ThreeKeys == {k1, k2, k3}
OneKey == {k1}
OnePrefix == {px}
TwoPrefixes == {px, py}
SamePrefix == [p \in MCPaths |-> px]
OwnPrefix == (hub :> px) @@ (direct :> py)
OnlyHub == {hub}

(* A third path whose second segment names no tunnel: it can be asked for,   *)
(* but never prepared.                                                       *)
CrowdPaths == MCPaths \cup {blank}
CrowdPathIds == CrowdPaths \cup {ghost}
CrowdPathList == <<hub, direct, blank>>
CrowdWaypoints == MCWaypoints @@ (blank :> <<>>)
CrowdPriority == MCPriority @@ (blank :> 50)
CrowdIdRank == MCIdRank @@ (blank :> 3)
CrowdTunnels == MCTunnels \cup {unnamed}
CrowdSegments == MCSegments @@ (blank :> <<straight, unnamed>>)
CrowdPrefix == [p \in CrowdPaths |-> px]

Good == [state |-> "healthy", rtt |-> 10, loss |-> 0]
Slow == [state |-> "degraded", rtt |-> 90, loss |-> 1]
Dead == [state |-> "failed", rtt |-> 0, loss |-> 100]
MockReadings == {Good, Slow, Dead}
LinkReadings == {Good, Dead}

NoLimits == [maxRtt |-> NoLimit, maxLoss |-> NoLimit, forbidden |-> {}, required |-> {}]
Base == [key |-> k1, strategy |-> "immediate", mode |-> "priority", path |-> NoPath,
         cands |-> <<hub, direct>>, limits |-> NoLimits, order |-> <<>>]

Plain(k) == [Base EXCEPT !.key = k]
Evaluated(k) == [Base EXCEPT !.key = k, !.mode = "evaluated", !.strategy = "graceful",
                             !.limits.maxRtt = 50, !.order = <<"latency">>]
Explicit(k, p) == [Base EXCEPT !.key = k, !.mode = "explicit", !.path = p, !.cands = <<>>]
Reserved(k) == [Base EXCEPT !.key = k, !.strategy = "flow_preserve", !.cands = <<direct>>]
Mixed(k) == [Explicit(k, hub) EXCEPT !.cands = <<direct>>]
NoList(k) == [Base EXCEPT !.key = k, !.cands = <<>>]
WithGhost(k) == [Base EXCEPT !.key = k, !.cands = <<hub, ghost>>]

(* Three keys for tables of two entries: every mode, both strategies, and an *)
(* explicit path next to a candidate list that does not hold it.             *)
ServiceIntents == {Plain(k1), Evaluated(k3), Explicit(k2, hub), Mixed(k2)}

(* A table that is full of other keys, an unrenderable path, a path with a   *)
(* nameless tunnel, a strategy that always fails.                            *)
CrowdIntents ==
  {Plain(k1), Explicit(k2, hub), Explicit(k3, hub), Evaluated(k3), Explicit(k3, direct),
   Explicit(k1, blank), Reserved(k1)}

(* One key: an unknown candidate, an empty candidate list. *)
FibIntents == {Plain(k1), Explicit(k1, direct), Evaluated(k1), NoList(k1), WithGhost(k1)}
=============================================================================
