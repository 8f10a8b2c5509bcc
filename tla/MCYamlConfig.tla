----------------------------- MODULE MCYamlConfig ----------------------------
(* Files of the shape of src/samples/ipsec-routes.yaml, cut down to two      *)
(* tunnels, two paths, one intent and one edge: every choice of their parts  *)
(* below, and some of them with one line missing or wrongly indented.        *)
EXTENDS YamlReading

F(i, k, v) == [indent |-> i, kind |-> "field", key |-> k, value |-> v]
I(i, k, v) == [indent |-> i, kind |-> "item", key |-> k, value |-> v]
T(i) == [indent |-> i, kind |-> "text", key |-> "", value |-> ""]

MCMaxItems == [tunnels |-> 3, paths |-> 2, intents |-> 2, vpp_edges |-> 2]
MCMaxEntries == [waypoints |-> 2, segments |-> 2, candidates |-> 2, forbidden_waypoints |-> 1,
                 required_waypoints |-> 1, comparison_order |-> 2]
MCNumber == ("10" :> 10) @@ ("30" :> 30)
MCHostName == "eth" :> "host-eth"
MCAddress == "ip/30" :> "ip"

Tunnel(id, to) == <<I(2, "id", id), F(4, "local_node", "a"), F(4, "remote_node", to)>>
Selector(to) == <<F(4, "remote_endpoint", to), F(4, "remote_ts", "net")>>
TunnelsWith(more) ==
  <<F(0, "tunnels", "")>> \o Tunnel("t1", "hub") \o Selector("hub") \o Tunnel("t2", "b") \o more
Tunnels ==
  {TunnelsWith(more) :
     more \in {<<>>, Selector("b"), Tunnel("t2", "b") \o Selector("b"), Tunnel("t1", "b")}}

Waypoints == <<F(4, "waypoints", ""), I(6, "", "hub")>>
SegmentsTo(ids) ==
  <<F(4, "segments", "")>>
  \o FlattenSeq([k \in DOMAIN ids |-> <<I(6, "id", "s"), F(8, "from", "a"), F(8, "tunnel_id", ids[k])>>])
PathItem(id) == <<I(2, "id", id), F(4, "source", "a"), F(4, "destination", "b")>>
PathsWith(body) ==
  <<F(0, "paths", "")>> \o PathItem("p1") \o body \o PathItem("p2") \o SegmentsTo(<<"t2">>)
TwoHops == Waypoints \o <<F(4, "priority", "10")>> \o SegmentsTo(<<"t1", "t2">>)
Paths ==
  {PathsWith(body) :
     body \in {TwoHops,
               SegmentsTo(<<"t1", "t2">>) \o <<F(4, "priority", "10")>> \o Waypoints,
               SegmentsTo(<<"t1">>) \o <<F(4, "egress_tunnel_id", "t2"), F(4, "next_hop", "gw")>>,
               SegmentsTo(<<"t1">>) \o <<F(4, "egress_tunnel_id", "t9"), F(4, "dst_prefix", "n")>>}}
TooManyPaths ==
  <<F(0, "paths", "")>> \o PathItem("p1") \o SegmentsTo(<<"t1">>) \o PathItem("p2")
  \o SegmentsTo(<<"t2", "t1", "t2">>) \o PathItem("p1") \o SegmentsTo(<<"t1">>)

Traffic == <<F(4, "traffic", ""), F(6, "source", "a"), F(6, "destination", "b")>>
Candidates(ids) ==
  <<F(6, "candidates", "")>> \o [k \in DOMAIN ids |-> I(8, "", ids[k])]
Limits == <<F(6, "constraints", ""), F(8, "max_rtt_ms", "30")>>
Nodes(list, node) == <<F(8, list, ""), I(10, "", node)>>
Order(key) == <<F(6, "comparison_order", ""), I(8, "", "rtt"), I(8, "", key)>>
Mode(m) == F(6, "mode", m)
Evaluated ==
  <<Mode("evaluated")>> \o Candidates(<<"p2">>) \o Limits
  \o Nodes("forbidden_waypoints", "hub") \o Order("path_id")
Selections ==
  {<<F(4, "path_selection", "")>> \o body :
     body \in {<<Mode("explicit"), F(6, "path_id", "p1")>>,
               <<F(6, "path_id", "p3")>>,
               <<Mode("priority")>> \o Candidates(<<"p1", "p2">>),
               Evaluated,
               <<Mode("evaluated")>> \o Order("hop_count") \o Limits
                 \o Nodes("required_waypoints", "hub") \o Candidates(<<"p1", "p3">>),
               <<Mode("fastest")>> \o Candidates(<<"p1", "p2", "p1">>)}}
Transition(s) == <<F(4, "transition", ""), F(6, "strategy", s), F(6, "timeout_ms", "10")>>
Fallback == <<F(4, "fallback", ""), F(6, "enabled", "no"), F(6, "path_id", "p3")>>
IntentItem == <<F(0, "intents", ""), I(2, "id", "i1")>>
Intents ==
  {IntentItem \o body : body \in
     UNION {{Traffic \o s \o Transition("graceful") \o Fallback,
             Fallback \o Transition("immediate") \o s \o Traffic} : s \in Selections}}

Edges == <<F(0, "vpp_edges", ""), I(2, "node", "a"), F(4, "host_interface", "eth"),
           F(4, "namespace_address", "ip/30")>>

Sample ==
  TunnelsWith(Selector("b")) \o Edges \o PathsWith(TwoHops) \o IntentItem \o Traffic
  \o <<F(4, "path_selection", "")>> \o Evaluated \o Transition("graceful") \o Fallback

(* Whole files: any parts, the sections in three orders.                     *)
Regular ==
  {t \o Edges \o p \o n : t \in Tunnels, p \in Paths, n \in Intents}
  \cup {n \o p \o t : t \in Tunnels, p \in Paths, n \in Intents}
  \cup {TunnelsWith(Selector("b")) \o TooManyPaths,
        Edges \o Edges \o TunnelsWith(<<>>) \o PathsWith(TwoHops)}
  \cup {Sample \o <<I(2, "id", id)>> \o Transition("flow-preserve") \o <<F(4, "path_selection", "")>>
        \o Candidates(<<"p1">>) \o Limits : id \in {"i1", "i2"}}

(* Files with one line missing, indented too little or too much, or no line  *)
(* of YAML at all.                                                           *)
Damaged ==
  {RemoveAt(Sample, k) : k \in DOMAIN Sample}
  \cup {[Sample EXCEPT ![k].indent = @ + d] : k \in DOMAIN Sample, d \in {2, -2}}
  \cup {[Sample EXCEPT ![k] = T(4)] : k \in {1, 3, 20}}
  \cup {<<F(0, "intents", ""), F(2, "path_selection", ""), m>> : m \in {F(4, "mode", "priority"), F(4, "weight", "1")}}
  \cup {<<F(0, "intents", "")>> \o Order("hop_count"), <<F(0, "intents", "")>> \o Candidates(<<"p1">>), <<>>}

MCDocuments == Regular \cup {d \in Damaged : \A k \in DOMAIN d : d[k].indent >= 0}

(* The keys of a block in another order than the samples': a limit after a   *)
(* list of waypoints, the two lists of waypoints, a mode after candidates.   *)
AnyOrder ==
  {t \o p \o IntentItem \o <<F(4, "path_selection", "")>> \o s :
     t \in Tunnels, p \in Paths, s \in
       {<<Mode("evaluated")>> \o Candidates(<<"p1">>) \o Limits,
        Candidates(<<"p1">>) \o <<Mode("priority")>>,
        <<Mode("evaluated"), F(6, "constraints", "")>> \o Nodes("forbidden_waypoints", "c")
          \o <<F(8, "max_rtt_ms", "30")>> \o Candidates(<<"p1">>),
        <<Mode("evaluated"), F(6, "constraints", "")>> \o Nodes("required_waypoints", "hub")
          \o Nodes("forbidden_waypoints", "c") \o Candidates(<<"p1">>)}}
==============================================================================
