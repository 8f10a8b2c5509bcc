----------------------------- MODULE YamlConfig -----------------------------
(***************************************************************************)
(* The configuration loader of src/yaml_config.c: it reads a file line by  *)
(* line with no look-ahead, keeping only the section it is in, a context,  *)
(* and pointers to the last item of each section, then normalises and      *)
(* validates what it collected.                                            *)
(*                                                                         *)
(* A line is a record [indent, kind, key, value] with comments, quotes and *)
(* blank lines gone: kind "field" is `key: value', "item" is `- value'     *)
(* (key empty) or `- key: value', and "text" is anything with no colon.    *)
(* A C string that is empty is "", a pointer that is NULL is absent from   *)
(* `current', and a limit whose has_ flag is false is NoLimit.             *)
(***************************************************************************)
EXTENDS EventnetTypes, Integers, SequencesExt

CONSTANTS
  Documents,     \* the files that may be loaded, sequences of lines
  MaxItems,      \* section -> size of its array (EN_MAX_TUNNELS, ...)
  MaxEntries,    \* list -> size of its array (EN_MAX_WAYPOINTS, ...)
  Number,        \* numeral -> what atoi and atof make of it; 0 for other text
  HostName,      \* interface -> the name `host-<interface>'
  Address        \* address with a prefix length -> the address

Sections == {"tunnels", "paths", "intents", "vpp_edges"}
PlainLists == {"waypoints", "candidates", "forbidden_waypoints",
               "required_waypoints", "comparison_order"}
IntentBlocks == {"traffic", "path_selection", "candidates", "constraints",
                 "comparison_order", "transition", "fallback"}
NoLimit == -1
None == <<>>

LineRecords ==
  [indent : Nat, kind : {"field", "item", "text"}, key : STRING, value : STRING]

ASSUME LoaderAssumption ==
  /\ Documents \subseteq Seq(LineRecords)
  /\ MaxItems \in [Sections -> Nat]
  /\ MaxEntries \in [PlainLists \cup {"segments"} -> Nat]

VARIABLES
  doc,       \* the file being read
  at,        \* next line of doc; 0 before the file is open
  top,       \* yaml_top_section_t
  context,   \* yaml_context_t, named by the key that opens it
  current,   \* sections whose item pointer is not NULL: it is the last item
  segment,   \* the segment pointer, <<path, segment>> or None
  cfg,       \* en_yaml_config_t
  result     \* "loading", an error code, or "crash" for a NULL dereference

position == <<top, context, current, segment>>
vars == <<doc, at, top, context, current, segment, cfg, result>>

-----------------------------------------------------------------------------
(* What each key is stored in, its alternative spellings included.          *)
TunnelKeys ==
  [id |-> "tunnel_id", tunnel_id |-> "tunnel_id", local_node |-> "local_node",
   remote_node |-> "remote_node", local_endpoint |-> "local_endpoint",
   remote_endpoint |-> "remote_endpoint", local_id |-> "local_id",
   remote_id |-> "remote_id", psk |-> "psk", local_ts |-> "local_ts",
   local_traffic_selector |-> "local_ts", remote_ts |-> "remote_ts",
   remote_traffic_selector |-> "remote_ts", protocol |-> "protocol"]
EdgeKeys ==
  [id |-> "node_id", node |-> "node_id", node_id |-> "node_id",
   host_interface |-> "host_interface", host_if |-> "host_interface",
   vpp_interface |-> "vpp_interface", vpp_if |-> "vpp_interface",
   namespace_interface |-> "ns_interface", ns_interface |-> "ns_interface",
   ns_if |-> "ns_interface", namespace_address |-> "ns_address",
   ns_address |-> "ns_address", ns_addr |-> "ns_address",
   vpp_address |-> "vpp_address", vpp_addr |-> "vpp_address", next_hop |-> "next_hop"]
PathKeys ==
  [id |-> "path_id", path_id |-> "path_id", source |-> "source",
   destination |-> "destination", route_destination_prefix |-> "prefix",
   dst_prefix |-> "prefix", route_next_hop |-> "next_hop", next_hop |-> "next_hop",
   egress_tunnel_id |-> "egress", priority |-> "priority"]
SegmentKeys ==
  [id |-> "segment_id", segment_id |-> "segment_id", from |-> "from_node",
   from_node |-> "from_node", to |-> "to_node", to_node |-> "to_node",
   tunnel_id |-> "tunnel_id"]
IntentKeys(block) ==
  CASE block = "path_selection" -> [mode |-> "mode", path_id |-> "selected"]
    [] block = "constraints" -> [max_rtt_ms |-> "max_rtt", max_packet_loss_percent |-> "max_loss"]
    [] block = "transition" ->
         [strategy |-> "strategy", max_pause_ms |-> "max_pause_ms",
          drain_timeout_ms |-> "drain_timeout_ms", timeout_ms |-> "timeout_ms"]
    [] block = "fallback" -> [enabled |-> "enabled", path_id |-> "fallback"]
    [] OTHER -> [id |-> "intent_id", intent_id |-> "intent_id",
                 source |-> "source", destination |-> "destination"]
KeysOf(section, block) ==
  CASE section = "tunnels" -> TunnelKeys
    [] section = "vpp_edges" -> EdgeKeys
    [] section = "paths" -> PathKeys
    [] section = "intents" -> IntentKeys(block)

(* The zeroed structures an item starts from, with the loader's defaults.   *)
Blank(keys) == [f \in Range(keys) |-> ""]
BlankBut(keys, values) ==
  [f \in Range(keys) \cup DOMAIN values |-> IF f \in DOMAIN values THEN values[f] ELSE ""]
EmptySegment == Blank(SegmentKeys)
PathDefaults == [waypoints |-> <<>>, segments |-> <<>>, priority |-> 0]
IntentDefaults ==
  [mode |-> "explicit", selected |-> "", candidates |-> <<>>, max_rtt |-> NoLimit,
   max_loss |-> NoLimit, forbidden_waypoints |-> <<>>, required_waypoints |-> <<>>,
   comparison_order |-> <<>>, strategy |-> "immediate", max_pause_ms |-> 50,
   drain_timeout_ms |-> 40, timeout_ms |-> 5000, enabled |-> TRUE, fallback |-> ""]
Default ==
  [tunnels |-> BlankBut(TunnelKeys, [protocol |-> "ipsec"]),
   vpp_edges |-> Blank(EdgeKeys),
   paths |-> BlankBut(PathKeys, PathDefaults),
   intents |-> BlankBut(IntentKeys("none"), IntentDefaults)]

(* Conversions of a scalar, and the spellings a conversion refuses.         *)
StrategyNames ==
  ("immediate" :> "immediate") @@ ("graceful" :> "graceful") @@ ("flow-preserve" :> "flow_preserve")
ComparisonNames ==
  [packet_loss |-> "packet_loss", packet_loss_percent |-> "packet_loss",
   latency |-> "latency", rtt |-> "latency", rtt_ms |-> "latency",
   hop_count |-> "hop_count", administrative_priority |-> "admin_priority",
   priority |-> "admin_priority", path_id |-> "path_id"]
NumberFields == {"priority", "max_rtt", "max_loss", "max_pause_ms", "drain_timeout_ms", "timeout_ms"}
Convert(f, v) ==
  CASE f \in NumberFields -> IF v \in DOMAIN Number THEN Number[v] ELSE 0
    [] f = "strategy" -> StrategyNames[v]
    [] f = "comparison_order" -> ComparisonNames[v]
    [] f = "enabled" -> v \in {"true", "yes", "1"}
    [] OTHER -> v
Refused(f, v) ==
  \/ f = "mode" /\ v \notin SelectionModes
  \/ f = "strategy" /\ v \notin DOMAIN StrategyNames
  \/ f = "comparison_order" /\ v \notin DOMAIN ComparisonNames

-----------------------------------------------------------------------------
(* Normalisation: what a path or an edge leaves out is taken from its       *)
(* egress tunnel, its interface, its address.                               *)
Ids(seq, f) == {seq[i][f] : i \in DOMAIN seq}
FindTunnel(c, id) ==
  LET hits == {i \in DOMAIN c.tunnels : c.tunnels[i].tunnel_id = id}
  IN  IF hits = {} THEN None ELSE c.tunnels[Min(hits)]
OrElse(v, default) == IF v = "" THEN default ELSE v
FromTunnel(v, c, id, f) == OrElse(v, IF FindTunnel(c, id) = None THEN "" ELSE FindTunnel(c, id)[f])
(* Mutant: the tunnel is looked up before the missing egress is filled in.  *)
PathLookedUpEarly(c, p) ==
  LET egress == IF p.segments = <<>> THEN p.egress ELSE OrElse(p.egress, p.segments[1].tunnel_id)
  IN  [p EXCEPT !.egress = egress,
                !.prefix = FromTunnel(@, c, p.egress, "remote_ts"),
                !.next_hop = FromTunnel(@, c, p.egress, "remote_endpoint")]
NormalizedPath(c, p) ==
  LET egress == IF p.segments = <<>> THEN p.egress ELSE OrElse(p.egress, p.segments[1].tunnel_id)
  IN  [p EXCEPT !.egress = egress,
                !.prefix = FromTunnel(@, c, egress, "remote_ts"),
                !.next_hop = FromTunnel(@, c, egress, "remote_endpoint")]
NormalizedEdge(e) ==
  [e EXCEPT !.vpp_interface = OrElse(@, IF e.host_interface = "" THEN "" ELSE HostName[e.host_interface]),
            !.next_hop = OrElse(@, IF e.ns_address = "" THEN "" ELSE Address[e.ns_address])]
Normalize(c) ==
  [c EXCEPT !.paths = [i \in DOMAIN @ |-> NormalizedPath(c, @[i])],
            !.vpp_edges = [i \in DOMAIN @ |-> NormalizedEdge(@[i])]]

(* Validation: items are judged in the order tunnels, paths, intents, edges *)
(* and the first error ends it.                                             *)
Judge(invalid, unknown) ==
  IF invalid THEN "invalid_argument" ELSE IF unknown THEN "not_found" ELSE "none"
(* Mutant: an item is refused only when all its names are missing. *)
UnnamedThroughout(item, required) == \A f \in required : item[f] = ""
Unnamed(item, required) == \E f \in required : item[f] = ""
(* Mutant: the comparison starts one item too late. *)
RepeatedFurtherOn(seq, i, id) == \E j \in i + 2..Len(seq) : seq[j][id] = seq[i][id]
Repeated(seq, i, id) == \E j \in i + 1..Len(seq) : seq[j][id] = seq[i][id]
HasTunnel(c, id) == id \in Ids(c.tunnels, "tunnel_id")
HasPath(c, id) == id \in Ids(c.paths, "path_id")
TunnelVerdict(c, i) ==
  Judge(\/ Unnamed(c.tunnels[i], {"tunnel_id", "local_node", "remote_node"})
        \/ Repeated(c.tunnels, i, "tunnel_id"), FALSE)
PathVerdict(c, i) ==
  LET p == c.paths[i]
  IN  Judge(\/ Unnamed(p, {"path_id", "source", "destination"})
            \/ Repeated(c.paths, i, "path_id")
            \/ p.segments = <<>>,
            \/ \E j \in DOMAIN p.segments : ~HasTunnel(c, p.segments[j].tunnel_id)
            \/ p.egress # "" /\ ~HasTunnel(c, p.egress))
IntentVerdict(c, i) ==
  LET n == c.intents[i]
  IN  Judge(n.intent_id = "" \/ Repeated(c.intents, i, "intent_id"),
            \/ n.mode = "explicit" /\ ~HasPath(c, n.selected)
            \/ \E j \in DOMAIN n.candidates : ~HasPath(c, n.candidates[j]))
EdgeVerdict(c, i) ==
  Judge(\/ Unnamed(c.vpp_edges[i], {"node_id", "vpp_interface", "next_hop"})
        \/ Repeated(c.vpp_edges, i, "node_id"), FALSE)
Validate(c) ==
  LET verdicts == [i \in DOMAIN c.tunnels |-> TunnelVerdict(c, i)]
                  \o [i \in DOMAIN c.paths |-> PathVerdict(c, i)]
                  \o [i \in DOMAIN c.intents |-> IntentVerdict(c, i)]
                  \o [i \in DOMAIN c.vpp_edges |-> EdgeVerdict(c, i)]
      bad == {i \in DOMAIN verdicts : verdicts[i] # "none"}
  IN  IF c.paths = <<>> THEN "invalid_argument"
      ELSE IF bad = {} THEN "none" ELSE verdicts[Min(bad)]

-----------------------------------------------------------------------------
(* The line being read, and what the parser takes it for.                   *)
Line == doc[at]
Reading == result = "loading" /\ at \in 1..Len(doc)
IsHeader == /\ Line.indent = 0 /\ Line.kind = "field"
            /\ Line.key \in Sections /\ Line.value = ""
InSection(kind) == Reading /\ ~IsHeader /\ top # "none" /\ Line.kind = kind
HasItem == top \in current
Item == cfg[top][Len(cfg[top])]
Keys == KeysOf(top, context)
(* Mutant: the fields of the path itself count as the segment's. *)
IsSegmentFieldShallow ==
  top = "paths" /\ context = "segments" /\ segment # None /\ Line.indent >= 4
IsSegmentField ==
  top = "paths" /\ context = "segments" /\ segment # None /\ Line.indent >= 6
OpensBlock ==
  \/ top = "paths" /\ HasItem /\ Line.key \in {"waypoints", "segments"}
  \/ top = "intents" /\ Line.key \in IntentBlocks
  \/ /\ top = "intents" /\ context = "constraints"
     /\ Line.key \in {"forbidden_waypoints", "required_waypoints"}

Consume == at' = at + 1 /\ UNCHANGED <<doc, result>>
Reject(error) == result' = error /\ UNCHANGED <<doc, at, position, cfg>>
Stored(item, keys) ==
  IF Line.key \in DOMAIN keys
  THEN [item EXCEPT ![keys[Line.key]] = Convert(keys[Line.key], Line.value)] ELSE item
LastItem(item) == [cfg EXCEPT ![top][Len(cfg[top])] = item]

(* tunnels:, paths:, intents: or vpp_edges: at the left margin.             *)
Header ==
  /\ Reading /\ IsHeader /\ Consume
  /\ top' = Line.key /\ context' = "none" /\ current' = current \ {Line.key}
  /\ UNCHANGED <<segment, cfg>>

Orphan == Reading /\ ~IsHeader /\ top = "none" /\ Reject("invalid_argument")

(* Mutant: the array may be overrun by one. *)
NewItemOneTooMany ==
  /\ InSection("item") /\ Line.indent = 2 /\ Len(cfg[top]) <= MaxItems[top] /\ Consume
  /\ cfg' = [cfg EXCEPT ![top] = Append(@, Stored(Default[top], KeysOf(top, "none")))]
  /\ context' = IF top = "paths" /\ Line.key \in {"waypoints", "segments"}
                THEN Line.key ELSE "none"
  /\ current' = current \cup {top}
  /\ UNCHANGED <<top, segment>>

(* `- key: value' two spaces in starts an item of the section.              *)
NewItem ==
  /\ InSection("item") /\ Line.indent = 2 /\ Len(cfg[top]) < MaxItems[top] /\ Consume
  /\ cfg' = [cfg EXCEPT ![top] = Append(@, Stored(Default[top], KeysOf(top, "none")))]
  /\ context' = IF top = "paths" /\ Line.key \in {"waypoints", "segments"}
                THEN Line.key ELSE "none"
  /\ current' = current \cup {top}
  /\ UNCHANGED <<top, segment>>
TooManyItems ==
  /\ InSection("item") /\ Line.indent = 2 /\ Len(cfg[top]) >= MaxItems[top]
  /\ Reject("invalid_argument")

(* Deeper items go to whatever list the context names.  An item with a      *)
(* colon is cut at it.                                                      *)
InList(lists) == InSection("item") /\ Line.indent # 2 /\ context \in lists
Entry == IF Line.key = "" THEN Line.value ELSE Line.key
AddEntry ==
  /\ InList(PlainLists) /\ HasItem /\ Len(Item[context]) < MaxEntries[context]
  /\ ~Refused(context, Entry) /\ Consume
  /\ cfg' = LastItem([Item EXCEPT ![context] = Append(@, Convert(context, Entry))])
  /\ UNCHANGED position

EntryRefused ==
  /\ InList(PlainLists) /\ HasItem
  /\ Len(Item[context]) >= MaxEntries[context] \/ Refused(context, Entry)
  /\ Reject("invalid_argument")

(* Only waypoints and candidates look at the item pointer before using it.  *)
EntryWithoutItem ==
  /\ InList(PlainLists) /\ ~HasItem
  /\ Reject(IF context \in {"waypoints", "candidates"} THEN "invalid_argument" ELSE "crash")

AddSegment ==
  /\ InList({"segments"}) /\ Len(Item.segments) < MaxEntries.segments /\ Consume
  /\ cfg' = LastItem([Item EXCEPT !.segments = Append(@, Stored(EmptySegment, SegmentKeys))])
  /\ segment' = <<Len(cfg.paths), Len(Item.segments) + 1>>
  /\ UNCHANGED <<top, context, current>>

TooManySegments ==
  /\ InList({"segments"}) /\ Len(Item.segments) >= MaxEntries.segments
  /\ Reject("invalid_argument")

Misplaced ==
  \/ /\ InSection("item") /\ Line.indent # 2 /\ context \notin PlainLists \cup {"segments"}
     /\ Reject("invalid_argument")
  \/ InSection("text") /\ Reject("invalid_argument")

(* `key: value' inside a segment, wherever the segment pointer points.      *)
SegmentField ==
  /\ InSection("field") /\ IsSegmentField /\ Consume
  /\ cfg' = [cfg EXCEPT !.paths[segment[1]].segments[segment[2]] = Stored(@, SegmentKeys)]
  /\ UNCHANGED position

(* A key that opens a block of an intent does so from any other block.      *)
OpenBlock ==
  /\ InSection("field") /\ ~IsSegmentField /\ OpensBlock /\ Consume
  /\ context' = Line.key
  /\ UNCHANGED <<top, current, segment, cfg>>

(* Any other key: known to the context it is stored, unknown it is ignored. *)
IsItemField == InSection("field") /\ ~IsSegmentField /\ ~OpensBlock
Field ==
  /\ IsItemField /\ HasItem /\ Consume
  /\ Line.key \in DOMAIN Keys => ~Refused(Keys[Line.key], Line.value)
  /\ cfg' = LastItem(Stored(Item, Keys))
  /\ UNCHANGED position

FieldRefused ==
  /\ IsItemField /\ HasItem
  /\ Line.key \in DOMAIN Keys /\ Refused(Keys[Line.key], Line.value)
  /\ Reject("invalid_argument")

(* The blocks of an intent do not look at the item pointer before using it. *)
FieldWithoutItem ==
  /\ IsItemField /\ ~HasItem
  /\ IF top = "intents" /\ context \in {"path_selection", "constraints", "transition", "fallback"}
     THEN IF Line.key \in DOMAIN Keys THEN Reject("crash")
          ELSE Consume /\ UNCHANGED <<position, cfg>>
     ELSE Reject("invalid_argument")

Open == /\ at = 0 /\ result = "loading" /\ at' = 1
        /\ UNCHANGED <<doc, position, cfg, result>>
OpenFails == at = 0 /\ result = "loading" /\ Reject("not_found")

EndOfFile ==
  /\ at = Len(doc) + 1 /\ result = "loading"
  /\ cfg' = Normalize(cfg) /\ result' = Validate(cfg')
  /\ UNCHANGED <<doc, at, position>>

Init ==
  /\ doc \in Documents /\ at = 0
  /\ top = "none" /\ context = "none" /\ current = {} /\ segment = None
  /\ cfg = [s \in Sections |-> <<>>] /\ result = "loading"

Next ==
  \/ Open \/ OpenFails \/ Header \/ Orphan \/ NewItem \/ TooManyItems
  \/ AddEntry \/ EntryRefused \/ EntryWithoutItem \/ AddSegment \/ TooManySegments
  \/ Misplaced \/ SegmentField \/ OpenBlock \/ Field \/ FieldRefused \/ FieldWithoutItem
  \/ EndOfFile

Spec == Init /\ [][Next]_vars
==============================================================================
