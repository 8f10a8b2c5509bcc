----------------------------- MODULE MCScenario ------------------------------
(***************************************************************************)
(* The topology of samples/linux-vm-netns.yaml with two more paths, YAML   *)
(* files that differ in their intents, and the commands of                 *)
(* scripts/vm-eventnet-scenario-smoke.sh with variations of them.          *)
(***************************************************************************)
EXTENDS ScenarioProperties

CONSTANTS k1, sample, variant, damaged

Tunnel(id, from, to, near, far, localTs, remoteTs) ==
  [tunnel_id |-> id, local_node |-> from, remote_node |-> to, local_endpoint |-> near,
   remote_endpoint |-> far, local_ts |-> localTs, remote_ts |-> remoteTs]
LanA == "10.10.1.0/24"
LanB == "10.10.2.0/24"
Segment(from, to, tunnel) == [from_node |-> from, to_node |-> to, tunnel_id |-> tunnel]
PathFrom(id, prefix, segments) ==
  [path_id |-> id, source |-> "site-a", destination |-> "site-b", prefix |-> prefix,
   segments |-> segments]

MCTopology ==
  [tunnels |->
     << Tunnel("tun-a-hub", "site-a", "hub-1", "203.0.113.14", "203.0.113.13", LanA, "10.10.254.0/24"),
        Tunnel("tun-hub-b", "hub-1", "site-b", "203.0.113.17", "203.0.113.18", "10.10.254.0/24", LanB),
        Tunnel("tun-a-b", "site-a", "site-b", "203.0.113.10", "203.0.113.9", LanA, LanB),
        Tunnel("tun-a-relay-c", "site-a", "relay-c", "203.0.113.22", "203.0.113.21", LanA, "10.10.253.0/24"),
        Tunnel("tun-relay-c-b", "relay-c", "site-b", "203.0.113.25", "203.0.113.26", "10.10.253.0/24", LanB),
        Tunnel("tun-hub-relay-c", "hub-1", "relay-c", "203.0.113.30", "203.0.113.29", "10.10.254.0/24", "10.10.253.0/24") >>,
   paths |->
     << PathFrom("path-via-hub", LanB,
                 <<Segment("site-a", "hub-1", "tun-a-hub"), Segment("hub-1", "site-b", "tun-hub-b")>>),
        PathFrom("path-direct", LanB, <<Segment("site-a", "site-b", "tun-a-b")>>),
        PathFrom("path-via-relay-c", LanB,
                 <<Segment("site-a", "relay-c", "tun-a-relay-c"), Segment("relay-c", "site-b", "tun-relay-c-b")>>),
        PathFrom("path-direct-2", "", <<Segment("site-a", "site-b", "tun-a-b")>>),
        PathFrom("path-long", LanB,
                 << Segment("site-a", "hub-1", "tun-a-hub"), Segment("hub-1", "relay-c", "tun-hub-relay-c"),
                    Segment("relay-c", "site-b", "tun-relay-c-b") >>) >>,
   edges |-> <<[node_id |-> "site-a", next_hop |-> "172.16.1.2"]>>]

MCPathList == [n \in DOMAIN MCTopology.paths |-> MCTopology.paths[n].path_id]
MCPaths == Range(MCPathList)
MCPathIds == MCPaths \cup {"path-x"}
MCNodes == {"hub-1", "relay-c"}
MCSegments == [p \in MCPaths |-> TunnelIds(PathRecord(p))]
MCTunnels == {MCTopology.tunnels[n].tunnel_id : n \in DOMAIN MCTopology.tunnels}
MCWaypoints ==
  [p \in MCPaths |-> [n \in 1..Len(PathRecord(p).segments) - 1 |-> PathRecord(p).segments[n].to_node]]
MCPriority ==
  [p \in MCPaths |-> CASE p = "path-direct" -> 10 [] p = "path-via-relay-c" -> 20 [] OTHER -> 30]
MCIdRank ==
  [p \in MCPaths |-> CASE p = "path-direct" -> 1 [] p = "path-direct-2" -> 2 [] p = "path-long" -> 3
                       [] p = "path-via-hub" -> 4 [] p = "path-via-relay-c" -> 5]
MCKeys == {k1}
MCFibPrefixes == {LanB}
MCRoutePrefix == [p \in MCPaths |-> LanB]

------------------------------------------------------------------------------
NoLimits == [maxRtt |-> NoLimit, maxLoss |-> NoLimit, forbidden |-> {}, required |-> {}]
Request(mode, path, cands) ==
  [key |-> k1, strategy |-> "graceful", mode |-> mode, path |-> path, cands |-> cands,
   limits |-> NoLimits, order |-> <<>>]
IntentOf(id, request, fallback) == [intent_id |-> id, request |-> request, fallback |-> fallback]

BySample == Request("priority", NoPath, <<"path-direct", "path-via-relay-c", "path-via-hub">>)
Direct2 == Request("priority", NoPath, <<"path-direct", "path-direct-2", "path-via-hub">>)
ExplicitDirect == Request("explicit", "path-direct", <<"path-via-hub">>)
Long == [Request("explicit", "path-long", <<>>) EXCEPT !.strategy = "immediate"]
Limited ==
  [Request("evaluated", NoPath, <<"path-via-hub", "path-direct">>)
     EXCEPT !.limits.maxRtt = 60, !.order = <<"latency">>]
Requests == {BySample, Direct2, ExplicitDirect, Long, Limited}

MCYaml ==
  (sample :> << IntentOf("first", BySample, "path-via-hub"),
                IntentOf("limited", Limited, "path-x"),
                IntentOf("explicit", ExplicitDirect, NoPath) >>)
  @@ (variant :> << IntentOf("first", Direct2, "path-via-hub"),
                    IntentOf("to itself", Direct2, "path-direct"),
                    IntentOf("limited", Limited, NoPath),
                    IntentOf("long", Long, NoPath) >>)
  @@ (damaged :> Unreadable)

ByLoss == <<"packet_loss", "latency", "hop_count", "path_id">>
MCIntents ==
  { [[r EXCEPT !.mode = m] EXCEPT !.order = o] :
      r \in Requests, m \in SelectionModes, o \in {r2.order : r2 \in Requests} \cup {ByLoss} }

------------------------------------------------------------------------------
On(file) == [NoOptions EXCEPT !.file = file, !.explain = TRUE]
Fails(o, p) == [o EXCEPT !.active = p, !.failed = p]
RelayBest == StepOptions(On(sample), "relay-best").injected
Unhealthy(p) == Injected(p, "unhealthy", Missing, Missing)
Slow(p) == Injected(p, "degraded", 70, Missing)
Dark(p) == Injected(p, "unknown", Missing, 3)
Full == << Slow("path-direct"), Unhealthy("path-direct-2"), Slow("path-x"),
           Unhealthy("path-long"), Unhealthy("path-via-hub") >>

Singles ==
  LET one == On(sample) two == On(variant) IN
  { [one EXCEPT !.expected = "path-direct"],
    [Fails(one, "path-direct") EXCEPT !.expected = "path-via-hub", !.generate = TRUE],
    [Fails(two, "path-direct") EXCEPT !.generate = TRUE],
    [Fails(two, "path-direct") EXCEPT !.intent = "to itself"],
    [Fails(one, "path-direct") EXCEPT !.intent = "limited"],
    [Fails(two, "path-direct") EXCEPT !.intent = "long", !.active = "path-direct-2", !.generate = TRUE],
    [one EXCEPT !.mode = "evaluated", !.order = ByLoss, !.injected = RelayBest],
    [two EXCEPT !.mode = "explicit", !.generate = TRUE],
    [two EXCEPT !.failed = "path-direct", !.injected = <<Slow("path-direct"), Slow("path-direct-2")>>,
                !.generate = TRUE],
    [one EXCEPT !.intent = "explicit", !.failed = "path-direct"],
    [two EXCEPT !.intent = "limited", !.injected = <<Slow("path-direct"), Dark("path-via-hub"),
                                                    Unhealthy("path-direct")>>],
    [one EXCEPT !.injected = Full, !.failed = "path-via-relay-c"],
    [one EXCEPT !.injected = <<Injected("path-direct", "broken", Missing, Missing)>>],
    [one EXCEPT !.order = ByLoss \o ByLoss \o <<"latency">>],
    [one EXCEPT !.mode = "broken"], On(damaged),
    [two EXCEPT !.explain = FALSE, !.generate = TRUE, !.expected = "path-via-hub"] }

Loud(o) == [o EXCEPT !.failed = "path-direct", !.generate = TRUE]
Steps ==
  { Harness(On(sample), <<"direct-ok", "direct-failed", "direct-recovered", "relay-best">>),
    Harness(Loud(On(sample)), <<"fallback", "recovery">>),
    Harness(Loud(On(variant)), <<"direct-ok", "direct-failed", "relay-best">>),
    Harness(On(sample), <<"direct-ok", "no such step">>),
    Harness(On(sample), [n \in 1..(MaxEvents + 1) |-> "direct-ok"]) }

Args(file, id, path, active, failed) == PlanArguments(file, id, path, active, failed)
Generators ==
  { Args(sample, NoId, NoPath, NoPath, <<>>),
    Args(sample, NoId, NoPath, "path-direct", <<"path-via-relay-c", "path-direct">>),
    Args(variant, "to itself", NoPath, "path-via-hub", <<"path-direct">>),
    Args(variant, "long", NoPath, NoPath, <<>>),
    Args(variant, "limited", NoPath, "path-direct", <<"path-direct", "path-via-hub">>),
    Args(sample, NoId, "path-x", NoPath, <<>>),
    Args(sample, "none of them", NoPath, NoPath, <<>>),
    Args(sample, NoId, NoPath, NoPath, [n \in 1..(MaxPaths + 1) |-> "path-x"]) }

MCInvocations ==
  {Harness(o, <<>>) : o \in Singles} \cup Steps \cup {Generator(a) : a \in Generators}

(* For the statement of the documents: a scenario for one intent of a file.  *)
OtherIntent ==
  { Harness([Fails(On(variant), "path-direct") EXCEPT !.intent = i, !.generate = TRUE], <<>>) :
      i \in {"first", "to itself", "limited"} }

(* Every reading a run can see. *)
MCReadings ==
  {[state |-> "healthy", rtt |-> 10 * HopCount(p), loss |-> 0] : p \in MCPaths}
  \cup {[state |-> "failed", rtt |-> r, loss |-> AllLost] : r \in {0, 10}}
  \cup {InjectedReading(h) : h \in Range(RelayBest) \cup Range(Full) \cup {Dark("path-x")}}
==============================================================================
