------------------------------ MODULE RoutePlan ------------------------------
(***************************************************************************)
(* What eventnet_netns_plan (examples/netns_plan.c) writes about a path:   *)
(* the kind of runtime that can carry it, the routes of every node along   *)
(* it, and the two routes of the VPP instance between the sites.           *)
(***************************************************************************)
EXTENDS ApplyPlan

RuntimeKind(path) ==
  CASE TunnelIds(path) = <<"tun-a-b">>                -> "direct"
    [] TunnelIds(path) = <<"tun-a-hub", "tun-hub-b">> -> "hub"
    [] OTHER                                          -> "unsupported"

Route(node, net, via) == [node |-> node, net |-> net, via |-> via]

TunnelAt(c, path, n) == TunnelNamed(c, path.segments[n].tunnel_id)

SourcePrefix(c, path) == TunnelAt(c, path, 1).local_ts
DestinationPrefix(c, path) ==
  IF path.prefix = "" THEN TunnelAt(c, path, Len(path.segments)).remote_ts ELSE path.prefix

(* Mutant: the return route of a waypoint uses the far end of the tunnel. *)
WaypointRoutesForward(c, path, n) ==
  << Route(path.segments[n].to_node, SourcePrefix(c, path), TunnelAt(c, path, n).remote_endpoint),
     Route(path.segments[n + 1].from_node, DestinationPrefix(c, path),
           TunnelAt(c, path, n + 1).remote_endpoint) >>
(* Between two segments: back through the tunnel that came in, onwards       *)
(* through the one that goes out.                                            *)
WaypointRoutes(c, path, n) ==
  << Route(path.segments[n].to_node, SourcePrefix(c, path), TunnelAt(c, path, n).local_endpoint),
     Route(path.segments[n + 1].from_node, DestinationPrefix(c, path),
           TunnelAt(c, path, n + 1).remote_endpoint) >>

(* One route at each end of the path, and two for every pair of segments.    *)
VppRoutes(c, path) ==
  LET last == Len(path.segments) IN
  [k \in 1..(2 * last) |->
     IF k = 1
     THEN Route(path.source, DestinationPrefix(c, path), TunnelAt(c, path, 1).remote_endpoint)
     ELSE IF k = 2 * last
     THEN Route(path.destination, SourcePrefix(c, path), TunnelAt(c, path, last).local_endpoint)
     ELSE WaypointRoutes(c, path, k \div 2)[(k % 2) + 1]]

(* A site without an entry under vpp_edges gets the address of the test bed. *)
EdgeHop(c, node, default) ==
  LET hits == {n \in DOMAIN c.edges : c.edges[n].node_id = node}
  IN  IF hits = {} THEN default ELSE c.edges[Min(hits)].next_hop

(* Both are routes of the one VPP instance, which stands between the sites. *)
NetnsRoutes(c, path) ==
  << Route("vpp", SourcePrefix(c, path), EdgeHop(c, path.source, "172.16.1.2")),
     Route("vpp", DestinationPrefix(c, path), EdgeHop(c, path.destination, "172.16.2.2")) >>

------------------------------------------------------------------------------
(* The reference: what routes along a path have to be.                       *)

(* The address of a tunnel at one of the two nodes it joins. *)
AddressAt(tunnel, node) ==
  IF tunnel.local_node = node THEN tunnel.local_endpoint ELSE tunnel.remote_endpoint

(* The segments join the source to the destination, and each tunnel joins    *)
(* two nodes and is declared in the direction its segment is travelled.      *)
Oriented(c, path) ==
  LET Ends(n) == <<path.segments[n].from_node, path.segments[n].to_node>>
  IN  /\ Ends(1)[1] = path.source /\ Ends(Len(path.segments))[2] = path.destination
      /\ \A n \in 1..(Len(path.segments) - 1) : Ends(n)[2] = Ends(n + 1)[1]
      /\ \A n \in DOMAIN path.segments :
           /\ Ends(n)[1] # Ends(n)[2]
           /\ Ends(n) = <<TunnelAt(c, path, n).local_node, TunnelAt(c, path, n).remote_node>>

(* Each segment is crossed both ways, towards the node at its other end. *)
RoutesAcross(c, path) ==
  UNION { LET s == path.segments[n] IN
          { Route(s.from_node, DestinationPrefix(c, path), AddressAt(TunnelAt(c, path, n), s.to_node)),
            Route(s.to_node, SourcePrefix(c, path), AddressAt(TunnelAt(c, path, n), s.from_node)) } :
          n \in DOMAIN path.segments }
==============================================================================
