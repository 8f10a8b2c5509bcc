--------------------------- MODULE MCSelectionScan ---------------------------
(* A small instance of SelectionScan: the three paths of src/topology.c, a   *)
(* disabled one and an unknown identifier; every candidate list of at most   *)
(* two of them and every list of three known paths; readings that tie.       *)
EXTENDS SelectionScan, TLC

CONSTANTS hub, direct, relay, off, ghost, hubNode, relayNode

MCPaths == {hub, direct, relay, off}
MCPathIds == MCPaths \cup {ghost}
MCEnabled == {hub, relay, direct}
MCNodes == {hubNode, relayNode}
MCWaypoints == (hub :> <<hubNode>>) @@ (direct :> <<>>) @@ (relay :> <<relayNode>>) @@ (off :> <<>>)
MCPriority == (hub :> 20) @@ (direct :> 10) @@ (relay :> 20) @@ (off :> 5)
MCIdRank == (direct :> 1) @@ (hub :> 2) @@ (relay :> 3) @@ (off :> 4)
MCDblMax == 1000

NoLimits == [maxRtt |-> NoLimit, maxLoss |-> NoLimit, forbidden |-> {}, required |-> {}]
MCLimits ==
  {NoLimits, [NoLimits EXCEPT !.maxRtt = 20, !.maxLoss = 1],
   [NoLimits EXCEPT !.forbidden = {hubNode}], [NoLimits EXCEPT !.required = {relayNode}]}

MCOrders == {<<>>, <<"packet_loss", "latency">>, <<"path_id", "latency">>, <<"hop_count">>,
             <<"admin_priority">>}
MCLists == UNION {[1..n -> MCPathIds] : n \in 0..2}
           \cup [1..3 -> {hub, direct, relay}] \cup {<<hub, off, relay>>, <<relay, ghost, hub>>}

MCPolicies ==
  {[mode |-> "explicit", path |-> p, cands |-> <<>>, limits |-> l, order |-> <<>>] :
     p \in MCPathIds, l \in MCLimits}
  \cup
  {[mode |-> "priority", path |-> NoPath, cands |-> c, limits |-> l, order |-> <<>>] :
     c \in MCLists, l \in MCLimits}
  \cup
  {[mode |-> "evaluated", path |-> NoPath, cands |-> c, limits |-> l, order |-> o] :
     c \in MCLists, l \in {NoLimits, [NoLimits EXCEPT !.maxRtt = 20, !.maxLoss = 1]},
     o \in MCOrders}

Good == [state |-> "healthy", rtt |-> 20, loss |-> 0]
Slow == [state |-> "degraded", rtt |-> 30, loss |-> 0]
Dead == [state |-> "failed", rtt |-> 0, loss |-> 100]
Lossy == [state |-> "unknown", rtt |-> 10, loss |-> 2]

MCHealth ==
  {[p \in MCPaths |-> Good],
   (hub :> Slow) @@ (direct :> Dead) @@ (relay :> Good) @@ (off :> Good),
   (hub :> Lossy) @@ (direct :> Slow) @@ (relay :> NoHealth) @@ (off :> NoHealth),
   (hub :> Good) @@ (direct :> Dead) @@ (relay :> Slow) @@ (off :> Good)}
==============================================================================
