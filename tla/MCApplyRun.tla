------------------------------ MODULE MCApplyRun -----------------------------
(* Four tunnels; three paths of one prefix, two of them over the same first  *)
(* tunnel, a path of another prefix, and one with no prefix to route.        *)
EXTENDS ApplyRun

Tunnel(id, endpoint) == [tunnel_id |-> id, remote_endpoint |-> endpoint]
Path(prefix, hop, egress, ids) ==
  [prefix |-> prefix, next_hop |-> hop, egress |-> egress,
   segments |-> [i \in DOMAIN ids |-> [tunnel_id |-> ids[i]]]]

MCConfig ==
  [tunnels |-> <<Tunnel("a-hub", "hub"), Tunnel("hub-b", "b"), Tunnel("a-b", "b"), Tunnel("a-c", "c")>>,
   paths |-> <<Path("net", "", "a-hub", <<"a-hub", "hub-b">>),
               Path("net", "", "a-b", <<"a-b">>),
               Path("net", "gateway", "a-hub", <<"a-hub">>),
               Path("other", "", "a-c", <<"a-c">>),
               Path("", "", "a-b", <<"a-b">>)>>]

ASSUME OwnTunnelsOfConfig == OwnTunnels
==============================================================================
