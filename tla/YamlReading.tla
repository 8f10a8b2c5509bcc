----------------------------- MODULE YamlReading ----------------------------
(***************************************************************************)
(* What a configuration file says, read as a whole by its indentation, and *)
(* what the loader of YamlConfig must therefore answer.                    *)
(***************************************************************************)
EXTENDS YamlConfig, ApplyPlan

Lines(d) == 1..Len(d)
Parent(d, n) == Max({0} \cup {m \in 1..n - 1 : d[m].indent < d[n].indent})
SectionOf(d, n) == d[Max({m \in 1..n : d[m].indent = 0})].key
IsItemLine(d, n) == d[n].kind = "item" /\ d[n].indent = 2

(* The block a line stands in: the key above it, "none" for an item's own.  *)
Block(d, n) ==
  LET p == Parent(d, n) IN
  IF IsItemLine(d, n) \/ IsItemLine(d, p) THEN "none"
  ELSE IF d[p].kind = "item" THEN d[Parent(d, p)].key ELSE d[p].key

(* Line numbers in ascending order.                                         *)
Ranked(S, i) == {n \in S : Cardinality({m \in S : m < n}) = i - 1}
InOrder(S) == [i \in 1..Cardinality(S) |-> CHOOSE n \in Ranked(S, i) : TRUE]

(* What the first k lines of a file d say: the items of a section, the      *)
(* lines that belong to one, and among these the last that sets a field and *)
(* all that are in a list.                                                  *)
ItemLines(d, s, k) == {n \in 1..k : IsItemLine(d, n) /\ SectionOf(d, n) = s}
Extent(d, n, k) == {m \in n..k : \A j \in n + 1..m : d[j].indent > d[n].indent}

KeysIn(s, block) == IF block = "segments" THEN SegmentKeys ELSE KeysOf(s, block)
Says(d, s, n, f) ==
  LET keys == KeysIn(s, Block(d, n)) IN d[n].key \in DOMAIN keys /\ keys[d[n].key] = f
Scalar(d, s, extent, f, default) ==
  LET said == {n \in extent : Says(d, s, n, f)}
  IN  IF said = {} THEN default ELSE Convert(f, d[Max(said)].value)
Listed(d, extent, list) == {n \in extent : d[n].kind = "item" /\ Block(d, n) = list}

SegmentAt(d, n, k) ==
  [f \in DOMAIN EmptySegment |-> Scalar(d, "paths", Extent(d, n, k), f, EmptySegment[f])]
EntryAt(d, n, k, list) ==
  IF list = "segments" THEN SegmentAt(d, n, k) ELSE Convert(list, d[n].value)
ListAt(d, n, k, list) ==
  LET ns == InOrder(Listed(d, Extent(d, n, k), list))
  IN  [i \in DOMAIN ns |-> EntryAt(d, ns[i], k, list)]
ItemAt(d, s, n, k) ==
  [f \in DOMAIN Default[s] |->
     IF f \in DOMAIN MaxEntries THEN ListAt(d, n, k, f)
     ELSE Scalar(d, s, Extent(d, n, k), f, Default[s][f])]
Said(d, k) ==
  [s \in Sections |->
     LET ns == InOrder(ItemLines(d, s, k)) IN [i \in DOMAIN ns |-> ItemAt(d, s, ns[i], k)]]
Document(d) == Said(d, Len(d))

-----------------------------------------------------------------------------
(* A well-formed file: sections, items two spaces in, every block in its    *)
(* place, under a line only what may stand there.                           *)
ListKeys == PlainLists \cup {"segments"}
Home(key) ==
  CASE key \in {"candidates", "constraints", "comparison_order"} -> "path_selection"
    [] key \in {"forbidden_waypoints", "required_waypoints"} -> "constraints"
    [] OTHER -> "none"
Blocks(s) ==
  CASE s = "paths" -> {"waypoints", "segments"}
    [] s = "intents" -> IntentBlocks \cup {"forbidden_waypoints", "required_waypoints"}
    [] OTHER -> {}
Opens(d, n) == d[n].kind = "field" /\ d[n].key \in Blocks(SectionOf(d, n))
Below(d, n) ==
  IF d[n].indent = 0 THEN {"item"}
  ELSE IF IsItemLine(d, n) \/ (d[n].kind = "item" /\ Block(d, n) = "segments") THEN {"field"}
  ELSE IF Opens(d, n) THEN {IF d[n].key \in ListKeys THEN "item" ELSE "field"} ELSE {}
WellFormedLine(d, n) ==
  IF d[n].indent = 0
  THEN d[n].kind = "field" /\ d[n].key \in Sections /\ d[n].value = ""
  ELSE /\ d[Parent(d, n)].indent = d[n].indent - 2 /\ d[n].kind \in Below(d, Parent(d, n))
       /\ d[n].kind = "item" /\ Block(d, n) \in PlainLists => d[n].key = ""
       /\ Opens(d, n) => Block(d, n) = Home(d[n].key)
WellFormed(d) == d # <<>> /\ d[1].indent = 0 /\ \A n \in Lines(d) : WellFormedLine(d, n)

(* The order of every sample: in an intent, a block's own keys come before  *)
(* the blocks nested in it and after it.                                    *)
ScalarsFirst(d) ==
  \A n \in Lines(d) :
    SectionOf(d, n) = "intents" /\ d[n].kind = "field" /\ d[n].key \notin IntentBlocks
    => \A m \in Parent(d, n) + 1..n - 1 : ~Opens(d, m)

(* Every word it uses is one the loader knows, it fits the arrays, and what *)
(* it refers to is there.                                                   *)
Known(d) ==
  \A n \in Lines(d) : d[n].indent > 0 =>
    /\ d[n].kind = "item" /\ Block(d, n) = "comparison_order"
         => ~Refused("comparison_order", d[n].value)
    /\ \A f \in {"mode", "strategy"} :
         SectionOf(d, n) = "intents" /\ Says(d, "intents", n, f) => ~Refused(f, d[n].value)
Fits(c) ==
  \A s \in Sections :
    /\ Len(c[s]) <= MaxItems[s]
    /\ \A i \in DOMAIN c[s] : \A l \in DOMAIN MaxEntries \cap DOMAIN c[s][i] :
         Len(c[s][i][l]) <= MaxEntries[l]
Distinct(seq, id) == Cardinality(Ids(seq, id)) = Len(seq)
Required ==
  [tunnels |-> {"tunnel_id", "local_node", "remote_node"},
   paths |-> {"path_id", "source", "destination"}, intents |-> {"intent_id"},
   vpp_edges |-> {"node_id", "vpp_interface", "next_hop"}]
IdOf == [tunnels |-> "tunnel_id", paths |-> "path_id", intents |-> "intent_id", vpp_edges |-> "node_id"]
Sound(c) ==
  LET tunnels == Ids(c.tunnels, "tunnel_id")
      paths == Ids(c.paths, "path_id")
  IN /\ c.paths # <<>>
     /\ \A s \in Sections : /\ Distinct(c[s], IdOf[s])
                            /\ \A f \in Required[s] : "" \notin Ids(c[s], f)
     /\ \A i \in DOMAIN c.paths : LET p == c.paths[i] IN
          p.segments # <<>> /\ Ids(p.segments, "tunnel_id") \cup {p.egress} \subseteq tunnels
     /\ \A i \in DOMAIN c.intents : LET n == c.intents[i] IN
          ToSet(n.candidates) \cup (IF n.mode = "explicit" THEN {n.selected} ELSE {}) \subseteq paths

-----------------------------------------------------------------------------
Finished == at > 0 /\ result # "loading"
Readable == Finished /\ WellFormed(doc) /\ Known(doc)

(* No array is overrun, and the segment pointer stays inside what was read. *)
LoaderTypeOK ==
  /\ at \in 0..Len(doc) + 1
  /\ top \in Sections \cup {"none"} /\ current \subseteq Sections
  /\ context \in {"none"} \cup Blocks("paths") \cup Blocks("intents")
  /\ segment # None => segment[2] \in DOMAIN cfg.paths[segment[1]].segments
  /\ result \in ErrorCodes \cup {"loading", "crash"}
  /\ Fits(cfg)

(* What the loader accepts of a file written in the order of the samples is *)
(* what the file says: no line is dropped, or put into another item, block  *)
(* or list than the one it is indented under, whatever the order of the     *)
(* sections and blocks; only normalisation adds to it.                      *)
LoadedAsWritten ==
  Readable /\ ScalarsFirst(doc) /\ result = "none" => cfg = Normalize(Document(doc))

(* Such a file is accepted exactly when it fits the arrays and all its      *)
(* references resolve after normalisation; the loader neither crashes on it *)
(* nor refuses it for anything else.                                        *)
AcceptedIffSound ==
  Readable /\ ScalarsFirst(doc) =>
    (result = "none" <=> Fits(Document(doc)) /\ Sound(Normalize(Document(doc))))

(* Whatever file was loaded, well formed or not, what is accepted has its   *)
(* identifiers apart and its references resolved, although validation goes  *)
(* item by item and stops at the first error.                               *)
AcceptedIsSound == Finished /\ result = "none" => Sound(cfg)

(* Whatever was loaded, by whatever file, an apply plan can be generated    *)
(* for each of its paths whose egress tunnel states its remote selector and *)
(* endpoint: normalisation fills in all that en_apply_plan_from_config      *)
(* needs.                                                                   *)
AcceptedIsPlannable ==
  Finished /\ result = "none" =>
    \A i \in DOMAIN cfg.paths :
      LET p == cfg.paths[i]
          egress == FindTunnel(cfg, p.egress)
      IN  egress.remote_ts # "" /\ egress.remote_endpoint # "" => PlanOf(cfg, p).error = "none"

(* The documents call the parser indentation-based: what an accepted file   *)
(* says should then not depend on the order of the keys of one block.       *)
LoadedByIndentation == Readable /\ result = "none" => cfg = Normalize(Document(doc))
==============================================================================
