----------------------------- MODULE YamlProofs -----------------------------
(***************************************************************************)
(* Theorems about the loader, for every set of files and every size of its *)
(* arrays: no array is overrun and no pointer dangles, and what a load     *)
(* accepts, from however odd a file, is sound and can be planned.          *)
(***************************************************************************)
EXTENDS YamlReading, SequenceTheorems, FiniteSetTheorems, WellFoundedInduction, TLAPS

Lists == PlainLists \cup {"segments"}

(* What the arrays and pointers of the loader are at every line. *)
IsList(seq) == seq \in Seq(Range(seq))
IsItem(s, item) ==
  /\ DOMAIN item = DOMAIN Default[s]
  /\ \A l \in Lists \cap DOMAIN item : IsList(item[l]) /\ Len(item[l]) <= MaxEntries[l]
AreItems(s, items) ==
  /\ IsList(items) /\ Len(items) <= MaxItems[s]
  /\ \A i \in DOMAIN items : IsItem(s, items[i])
Configured(c) == c = [s \in Sections |-> c[s]] /\ \A s \in Sections : AreItems(s, c[s])

CursorInv ==
  /\ doc \in Documents /\ at \in 0..(Len(doc) + 1)
  /\ top \in Sections \cup {"none"} /\ context \in {"none"} \cup Blocks(top)
  /\ current \in SUBSET {s \in Sections : cfg[s] # <<>>}
  /\ context \in {"waypoints", "segments"} => HasItem
  /\ segment # None => /\ segment[1] \in DOMAIN cfg.paths
                       /\ segment[2] \in DOMAIN cfg.paths[segment[1]].segments
  /\ result \in ErrorCodes \cup {"loading", "crash"}
LoaderInv == Configured(cfg) /\ CursorInv

------------------------------------------------------------------------------
(* Items and their lists.                                                    *)

LEMMA ListGrows ==
  ASSUME NEW list, IsList(list), NEW e
  PROVE  /\ IsList(Append(list, e)) /\ Len(list) \in Nat
         /\ Len(Append(list, e)) = Len(list) + 1
         /\ \A i \in DOMAIN Append(list, e) :
              Append(list, e)[i] = IF i \in DOMAIN list THEN list[i] ELSE e
<1> DEFINE S == Range(list) \cup {e}
<1>1. list \in Seq(S) /\ e \in S
  BY DEF IsList
<1>2. /\ Append(list, e) \in Seq(S) /\ Len(list) \in Nat
      /\ Len(Append(list, e)) = Len(list) + 1 /\ DOMAIN list = 1..Len(list)
      /\ \A i \in 1..Len(list) : Append(list, e)[i] = list[i]
      /\ Append(list, e)[Len(list) + 1] = e
  BY <1>1, AppendProperties
<1>3. DOMAIN Append(list, e) = 1..(Len(list) + 1)
  BY <1>2
<1> QED
  BY <1>2, <1>3, SeqOfRange DEF IsList, Range

LEMMA EntryReplaced ==
  ASSUME NEW list, IsList(list), NEW i \in DOMAIN list, NEW e
  PROVE  /\ IsList([list EXCEPT ![i] = e]) /\ Len([list EXCEPT ![i] = e]) = Len(list)
         /\ DOMAIN [list EXCEPT ![i] = e] = DOMAIN list
<1> DEFINE S == Range(list) \cup {e}
           changed == [list EXCEPT ![i] = e]
<1>1. list \in Seq(S) /\ e \in S /\ i \in 1..Len(list)
  BY DEF IsList
<1>2. changed \in Seq(S) /\ Len(changed) = Len(list)
  BY <1>1, ExceptSeq
<1> QED
  BY <1>2, SeqOfRange DEF IsList

LEMMA EmptyIsList == IsList(<<>>) /\ Len(<<>>) = 0 /\ DOMAIN <<>> = {}
BY DEF IsList

LEMMA LastOfList ==
  ASSUME NEW list, IsList(list), list # <<>>
  PROVE  Len(list) \in DOMAIN list /\ Len(list) \in Nat \ {0}
BY EmptySeq DEF IsList

LEMMA KeysSpareLists ==
  ASSUME NEW s \in Sections, NEW block, NEW key \in DOMAIN KeysOf(s, block)
  PROVE  KeysOf(s, block)[key] \notin Lists
<1>1. CASE s = "tunnels"
  BY <1>1 DEF KeysOf, TunnelKeys, Lists, PlainLists
<1>2. CASE s = "vpp_edges"
  BY <1>2 DEF KeysOf, EdgeKeys, Lists, PlainLists
<1>3. CASE s = "paths"
  BY <1>3 DEF KeysOf, PathKeys, Lists, PlainLists
<1>4. CASE s = "intents"
  BY <1>4 DEF KeysOf, IntentKeys, Lists, PlainLists
<1> QED
  BY <1>1, <1>2, <1>3, <1>4 DEF Sections

LEMMA ListsOfDefaults ==
  /\ DOMAIN PathDefaults = {"waypoints", "segments", "priority"}
  /\ PathDefaults.waypoints = <<>> /\ PathDefaults.segments = <<>>
  /\ {"candidates", "forbidden_waypoints", "required_waypoints", "comparison_order"}
       = Lists \cap DOMAIN IntentDefaults
  /\ IntentDefaults.candidates = <<>> /\ IntentDefaults.forbidden_waypoints = <<>>
  /\ IntentDefaults.required_waypoints = <<>> /\ IntentDefaults.comparison_order = <<>>
<1>1. /\ DOMAIN PathDefaults = {"waypoints", "segments", "priority"}
      /\ PathDefaults.waypoints = <<>> /\ PathDefaults.segments = <<>>
  BY DEF PathDefaults
<1>2. {"candidates", "forbidden_waypoints", "required_waypoints", "comparison_order"}
       = Lists \cap DOMAIN IntentDefaults
  BY DEF IntentDefaults, Lists, PlainLists
<1>3. /\ IntentDefaults.candidates = <<>> /\ IntentDefaults.forbidden_waypoints = <<>>
      /\ IntentDefaults.required_waypoints = <<>> /\ IntentDefaults.comparison_order = <<>>
  BY DEF IntentDefaults
<1> QED
  BY <1>1, <1>2, <1>3

LEMMA ListsOfItems ==
  /\ Lists \cap DOMAIN Default.tunnels = {} /\ Lists \cap DOMAIN Default.vpp_edges = {}
  /\ Lists \cap DOMAIN Default.paths = {"waypoints", "segments"}
  /\ Lists \cap DOMAIN Default.intents =
       {"candidates", "forbidden_waypoints", "required_waypoints", "comparison_order"}
<1>1. Lists \cap DOMAIN Default.tunnels = {}
  BY DEF Default, BlankBut, TunnelKeys, Lists, PlainLists, Range
<1>2. Lists \cap DOMAIN Default.vpp_edges = {}
  BY DEF Default, Blank, EdgeKeys, Lists, PlainLists, Range
<1>3. Lists \cap DOMAIN Default.paths = {"waypoints", "segments"}
  BY ListsOfDefaults DEF Default, BlankBut, PathKeys, Lists, PlainLists, Range
<1>4. Lists \cap DOMAIN Default.intents =
       {"candidates", "forbidden_waypoints", "required_waypoints", "comparison_order"}
  <2>1. DOMAIN Default.intents = Range(IntentKeys("none")) \cup DOMAIN IntentDefaults
    BY DEF Default, BlankBut
  <2>2. Lists \cap Range(IntentKeys("none")) = {}
    BY DEF IntentKeys, Lists, PlainLists, Range
  <2> QED
    BY <2>1, <2>2, ListsOfDefaults
<1> QED
  BY <1>1, <1>2, <1>3, <1>4

LEMMA BlankButSays ==
  ASSUME NEW keys, NEW values, NEW f \in DOMAIN values
  PROVE  BlankBut(keys, values)[f] = values[f]
BY DEF BlankBut

LEMMA DefaultLists ==
  ASSUME NEW s \in Sections, NEW l \in Lists \cap DOMAIN Default[s]
  PROVE  Default[s][l] = <<>>
<1>1. s \in {"paths", "intents"}
  BY ListsOfItems DEF Sections
<1>2. CASE s = "paths"
  <2>1. l \in DOMAIN PathDefaults /\ PathDefaults[l] = <<>>
    BY <1>2, ListsOfItems, ListsOfDefaults
  <2> QED
    BY <1>2, <2>1, BlankButSays DEF Default
<1>3. CASE s = "intents"
  <2>1. l \in DOMAIN IntentDefaults /\ IntentDefaults[l] = <<>>
    BY <1>3, ListsOfItems, ListsOfDefaults
  <2> QED
    BY <1>3, <2>1, BlankButSays DEF Default
<1> QED
  BY <1>1, <1>2, <1>3

LEMMA DefaultIsItem ==
  ASSUME NEW s \in Sections
  PROVE  IsItem(s, Default[s])
BY DefaultLists, EmptyIsList, LoaderAssumption DEF IsItem, Lists

(* Storing a field leaves every list of the item alone.                      *)
LEMMA StoredKeeps ==
  ASSUME NEW s \in Sections, NEW block, NEW item, IsItem(s, item)
  PROVE  /\ IsItem(s, Stored(item, KeysOf(s, block)))
         /\ \A l \in Lists \cap DOMAIN item : Stored(item, KeysOf(s, block))[l] = item[l]
<1> DEFINE keys == KeysOf(s, block)
           stored == Stored(item, keys)
<1>1. CASE Line.key \in DOMAIN keys
  <2>1. keys[Line.key] \notin Lists
    BY <1>1, KeysSpareLists
  <2>2. stored = [item EXCEPT ![keys[Line.key]] = Convert(keys[Line.key], Line.value)]
    BY <1>1 DEF Stored
  <2> HIDE DEF keys, stored
  <2>3. DOMAIN stored = DOMAIN item /\ \A l \in Lists \cap DOMAIN item : stored[l] = item[l]
    BY <2>1, <2>2
  <2> QED
    BY <2>3 DEF IsItem, stored, keys
<1>2. CASE Line.key \notin DOMAIN keys
  BY <1>2 DEF Stored
<1> QED
  BY <1>1, <1>2

(* An item may grow any of its lists that is not full.                       *)
LEMMA ItemGrows ==
  ASSUME NEW s \in Sections, NEW item, IsItem(s, item), NEW l \in Lists \cap DOMAIN item,
         Len(item[l]) < MaxEntries[l], NEW e
  PROVE  /\ IsItem(s, [item EXCEPT ![l] = Append(@, e)])
         /\ s = "paths" =>
              DOMAIN item.segments \subseteq DOMAIN [item EXCEPT ![l] = Append(@, e)].segments
<1> DEFINE grown == [item EXCEPT ![l] = Append(@, e)]
           list == item[l]
<1>1. IsList(list) /\ Len(list) <= MaxEntries[l] /\ MaxEntries[l] \in Nat
  BY LoaderAssumption DEF IsItem, Lists
<1>2. /\ IsList(Append(list, e)) /\ Len(Append(list, e)) <= MaxEntries[l]
      /\ Len(Append(list, e)) = Len(list) + 1 /\ Len(list) \in Nat
  BY <1>1, ListGrows
<1>3. DOMAIN list \subseteq DOMAIN Append(list, e)
  BY <1>1, <1>2 DEF IsList
<1>4. /\ DOMAIN grown = DOMAIN item /\ grown[l] = Append(list, e)
      /\ \A k \in DOMAIN item : k # l => grown[k] = item[k]
  OBVIOUS
<1>5. s = "paths" => "segments" \in DOMAIN item
  BY ListsOfItems DEF IsItem
<1> HIDE DEF grown, list
<1>6. IsItem(s, grown)
  BY <1>2, <1>4 DEF IsItem
<1>7. s = "paths" => DOMAIN item.segments \subseteq DOMAIN grown.segments
  BY <1>3, <1>4, <1>5 DEF list
<1> QED
  BY <1>6, <1>7 DEF grown

(* A segment of a path may be written again.                                 *)
LEMMA SegmentRewritten ==
  ASSUME NEW item, IsItem("paths", item), NEW b \in DOMAIN item.segments, NEW e
  PROVE  /\ IsItem("paths", [item EXCEPT !.segments[b] = e])
         /\ DOMAIN item.segments \subseteq DOMAIN [item EXCEPT !.segments[b] = e].segments
<1> DEFINE written == [item EXCEPT !.segments[b] = e]
           list == item.segments
<1>1. "segments" \in Lists \cap DOMAIN item
  BY ListsOfItems DEF IsItem
<1>2. IsList(list) /\ Len(list) <= MaxEntries.segments
  BY <1>1 DEF IsItem
<1>3. /\ IsList([list EXCEPT ![b] = e]) /\ Len([list EXCEPT ![b] = e]) = Len(list)
      /\ DOMAIN [list EXCEPT ![b] = e] = DOMAIN list
  BY <1>2, EntryReplaced
<1>4. /\ DOMAIN written = DOMAIN item /\ written.segments = [list EXCEPT ![b] = e]
      /\ \A k \in DOMAIN item : k # "segments" => written[k] = item[k]
  BY <1>1
<1> HIDE DEF written, list
<1>5. IsItem("paths", written)
  BY <1>2, <1>3, <1>4 DEF IsItem
<1> QED
  BY <1>3, <1>4, <1>5 DEF written, list

------------------------------------------------------------------------------
(* The configuration.  It only grows while a file is read, so what a pointer *)
(* of the parser points at stays where it is.                                *)
Grown(c, d) ==
  /\ \A s \in Sections : c[s] # <<>> => d[s] # <<>>
  /\ \A i \in DOMAIN c.paths :
       /\ i \in DOMAIN d.paths
       /\ DOMAIN c.paths[i].segments \subseteq DOMAIN d.paths[i].segments

LEMMA ItemReplaced ==
  ASSUME NEW c, Configured(c), NEW s \in Sections, NEW i \in DOMAIN c[s],
         NEW item, IsItem(s, item),
         s = "paths" => DOMAIN c.paths[i].segments \subseteq DOMAIN item.segments
  PROVE  /\ Configured([c EXCEPT ![s][i] = item]) /\ Grown(c, [c EXCEPT ![s][i] = item])
         /\ [c EXCEPT ![s][i] = item][s][i] = item
<1> DEFINE d == [c EXCEPT ![s][i] = item]
           items == [c[s] EXCEPT ![i] = item]
<1>1. IsList(c[s]) /\ Len(c[s]) <= MaxItems[s] /\ \A j \in DOMAIN c[s] : IsItem(s, c[s][j])
  BY DEF Configured, AreItems
<1>2. IsList(items) /\ Len(items) = Len(c[s]) /\ DOMAIN items = DOMAIN c[s]
  BY <1>1, EntryReplaced
<1>3. items[i] = item /\ \A j \in DOMAIN c[s] : j # i => items[j] = c[s][j]
  OBVIOUS
<1>4. d = [t \in Sections |-> d[t]] /\ d[s] = items /\ \A t \in Sections : t # s => d[t] = c[t]
  BY DEF Configured
<1> HIDE DEF d, items
<1>5. AreItems(s, items)
  BY <1>1, <1>2, <1>3 DEF AreItems
<1>6. Configured(d)
  BY <1>4, <1>5 DEF Configured
<1>7. \A t \in Sections : c[t] # <<>> => d[t] # <<>>
  BY <1>1, <1>2, <1>4, EmptyIsList
<1>8. \A j \in DOMAIN c.paths : /\ j \in DOMAIN d.paths
                               /\ DOMAIN c.paths[j].segments \subseteq DOMAIN d.paths[j].segments
  <2>1. CASE s = "paths"
    BY <1>2, <1>3, <1>4, <2>1
  <2>2. CASE s # "paths"
    BY <1>4, <2>2 DEF Sections
  <2> QED
    BY <2>1, <2>2
<1>9. d[s][i] = item
  BY <1>3, <1>4
<1> QED
  BY <1>6, <1>7, <1>8, <1>9 DEF d, Grown

LEMMA ItemAdded ==
  ASSUME NEW c, Configured(c), NEW s \in Sections, Len(c[s]) < MaxItems[s],
         NEW item, IsItem(s, item)
  PROVE  /\ Configured([c EXCEPT ![s] = Append(@, item)])
         /\ Grown(c, [c EXCEPT ![s] = Append(@, item)])
         /\ [c EXCEPT ![s] = Append(@, item)][s] # <<>>
<1> DEFINE d == [c EXCEPT ![s] = Append(@, item)]
           items == Append(c[s], item)
<1>1. /\ IsList(c[s]) /\ Len(c[s]) <= MaxItems[s] /\ \A j \in DOMAIN c[s] : IsItem(s, c[s][j])
      /\ MaxItems[s] \in Nat
  BY LoaderAssumption DEF Configured, AreItems
<1>2. /\ IsList(items) /\ Len(c[s]) \in Nat /\ Len(items) = Len(c[s]) + 1
      /\ \A j \in DOMAIN items : items[j] = IF j \in DOMAIN c[s] THEN c[s][j] ELSE item
  BY <1>1, ListGrows
<1>3. DOMAIN c[s] \subseteq DOMAIN items
  BY <1>1, <1>2 DEF IsList
<1>4. d = [t \in Sections |-> d[t]] /\ d[s] = items /\ \A t \in Sections : t # s => d[t] = c[t]
  BY DEF Configured
<1> HIDE DEF d, items
<1>5. AreItems(s, items)
  BY <1>1, <1>2 DEF AreItems
<1>6. Configured(d)
  BY <1>4, <1>5 DEF Configured
<1>7. d[s] # <<>>
  BY <1>2, <1>4, EmptyIsList
<1>8. \A j \in DOMAIN c.paths : /\ j \in DOMAIN d.paths
                               /\ DOMAIN c.paths[j].segments \subseteq DOMAIN d.paths[j].segments
  <2>1. CASE s = "paths"
    BY <1>2, <1>3, <1>4, <2>1
  <2>2. CASE s # "paths"
    BY <1>4, <2>2 DEF Sections
  <2> QED
    BY <2>1, <2>2
<1> QED
  BY <1>4, <1>6, <1>7, <1>8 DEF d, Grown

(* The item a section's pointer is on.                                       *)
LEMMA ItemIsThere ==
  ASSUME LoaderInv, HasItem
  PROVE  /\ top \in Sections /\ Len(cfg[top]) \in DOMAIN cfg[top]
         /\ IsItem(top, Item) /\ DOMAIN Item = DOMAIN Default[top]
<1>1. top \in Sections /\ cfg[top] # <<>>
  BY DEF LoaderInv, CursorInv, HasItem
<1>2. AreItems(top, cfg[top])
  BY <1>1 DEF LoaderInv, Configured
<1>3. Len(cfg[top]) \in DOMAIN cfg[top]
  BY <1>1, <1>2, LastOfList DEF AreItems
<1> QED
  BY <1>1, <1>2, <1>3 DEF AreItems, Item, IsItem

(* A line that is consumed and leaves the configuration grown.               *)
LEMMA CursorGoesOn ==
  ASSUME LoaderInv, Reading, Consume, Grown(cfg, cfg'), Configured(cfg'),
         top' \in Sections \cup {"none"}, context' \in {"none"} \cup Blocks(top'),
         current' \in SUBSET {s \in Sections : cfg'[s] # <<>>},
         context' \in {"waypoints", "segments"} => top' \in current',
         \/ segment' = segment
         \/ /\ segment'[1] \in DOMAIN cfg'.paths
            /\ segment'[2] \in DOMAIN cfg'.paths[segment'[1]].segments
  PROVE  LoaderInv'
<1>1. doc' = doc /\ doc \in Documents /\ at' \in 0..(Len(doc) + 1) /\ result' = result
  <2>1. doc \in Documents /\ Len(doc) \in Nat
    BY LoaderAssumption DEF LoaderInv, CursorInv
  <2> QED
    BY <2>1 DEF Consume, Reading
<1>2. segment' # None => /\ segment'[1] \in DOMAIN cfg'.paths
                         /\ segment'[2] \in DOMAIN cfg'.paths[segment'[1]].segments
  BY DEF LoaderInv, CursorInv, Grown
<1> QED
  BY <1>1, <1>2 DEF LoaderInv, CursorInv, HasItem

------------------------------------------------------------------------------
(* Every kind of line.                                                       *)

LEMMA NothingGrows == Grown(cfg, cfg)
BY DEF Grown

LEMMA RejectKeeps ==
  ASSUME LoaderInv, NEW e \in ErrorCodes \cup {"crash"}, Reject(e)
  PROVE  LoaderInv'
BY DEF LoaderInv, CursorInv, HasItem, Reject, position

LEMMA InSectionSays ==
  ASSUME LoaderInv, NEW kind, InSection(kind)
  PROVE  Reading /\ top \in Sections
BY DEF InSection, LoaderInv, CursorInv

LEMMA HeaderKeeps == LoaderInv /\ Header => LoaderInv'
<1> SUFFICES ASSUME LoaderInv, Header PROVE LoaderInv'
  OBVIOUS
<1>1. /\ Reading /\ Consume /\ top' \in Sections /\ context' = "none"
      /\ current' \subseteq current /\ segment' = segment /\ cfg' = cfg
  BY DEF Header, IsHeader
<1>2. current' \in SUBSET {s \in Sections : cfg'[s] # <<>>}
  BY <1>1 DEF LoaderInv, CursorInv
<1> QED
  BY <1>1, <1>2, NothingGrows, CursorGoesOn DEF LoaderInv

LEMMA NewItemKeeps == LoaderInv /\ NewItem => LoaderInv'
<1> SUFFICES ASSUME LoaderInv, NewItem PROVE LoaderInv'
  OBVIOUS
<1> DEFINE item == Stored(Default[top], KeysOf(top, "none"))
<1>1. /\ Reading /\ Consume /\ top \in Sections /\ top' = top /\ segment' = segment
      /\ Len(cfg[top]) < MaxItems[top] /\ cfg' = [cfg EXCEPT ![top] = Append(@, item)]
      /\ current' = current \cup {top}
  BY InSectionSays DEF NewItem
<1>2. IsItem(top, item)
  BY <1>1, DefaultIsItem, StoredKeeps
<1>3. Configured(cfg') /\ Grown(cfg, cfg') /\ cfg'[top] # <<>>
  <2> HIDE DEF item
  <2> QED
    BY <1>1, <1>2, ItemAdded DEF LoaderInv
<1>4. current' \in SUBSET {s \in Sections : cfg'[s] # <<>>}
  BY <1>1, <1>3 DEF LoaderInv, CursorInv, Grown
<1>5. context' \in {"none"} \cup Blocks(top')
  BY <1>1 DEF NewItem, Blocks
<1> QED
  BY <1>1, <1>3, <1>4, <1>5, CursorGoesOn

(* A line that writes to the last item of its section.                       *)
LEMMA LastItemKeeps ==
  ASSUME LoaderInv, Reading, HasItem, Consume, NEW item, IsItem(top, item),
         top = "paths" => DOMAIN Item.segments \subseteq DOMAIN item.segments,
         cfg' = LastItem(item), UNCHANGED <<top, context, current>>,
         \/ segment' = segment
         \/ /\ segment'[1] \in DOMAIN cfg'.paths
            /\ segment'[2] \in DOMAIN cfg'.paths[segment'[1]].segments
  PROVE  LoaderInv'
<1>1. top \in Sections /\ Len(cfg[top]) \in DOMAIN cfg[top]
  BY ItemIsThere
<1>2. Configured(cfg') /\ Grown(cfg, cfg')
  BY <1>1, ItemReplaced DEF LastItem, LoaderInv, Item
<1>3. current' \in SUBSET {s \in Sections : cfg'[s] # <<>>}
  BY <1>2 DEF LoaderInv, CursorInv, Grown
<1>4. /\ top' \in Sections \cup {"none"} /\ context' \in {"none"} \cup Blocks(top')
      /\ context' \in {"waypoints", "segments"} => top' \in current'
  BY DEF LoaderInv, CursorInv, HasItem
<1> QED
  BY <1>2, <1>3, <1>4, CursorGoesOn

LEMMA ContextIsList ==
  ASSUME LoaderInv, HasItem, context \in Lists
  PROVE  context \in Lists \cap DOMAIN Item
<1>1. top \in Sections /\ DOMAIN Item = DOMAIN Default[top]
  BY ItemIsThere
<1>2. context \in Blocks(top)
  BY DEF LoaderInv, CursorInv, Lists, PlainLists
<1>3. CASE top = "paths"
  BY <1>1, <1>2, <1>3, ListsOfItems DEF Blocks
<1>4. CASE top = "intents"
  BY <1>1, <1>2, <1>4, ListsOfItems DEF Blocks, IntentBlocks, Lists, PlainLists
<1> QED
  BY <1>1, <1>2, <1>3, <1>4 DEF Blocks, Sections

LEMMA AddEntryKeeps == LoaderInv /\ AddEntry => LoaderInv'
<1> SUFFICES ASSUME LoaderInv, AddEntry PROVE LoaderInv'
  OBVIOUS
<1> DEFINE grown == [Item EXCEPT ![context] = Append(@, Convert(context, Entry))]
<1>1. /\ Reading /\ HasItem /\ Consume /\ context \in Lists
      /\ Len(Item[context]) < MaxEntries[context] /\ cfg' = LastItem(grown)
      /\ UNCHANGED <<top, context, current, segment>>
  BY InSectionSays DEF AddEntry, InList, Lists, position
<1>2. /\ top \in Sections /\ IsItem(top, Item) /\ context \in Lists \cap DOMAIN Item
  BY <1>1, ItemIsThere, ContextIsList
<1>3. /\ IsItem(top, grown)
      /\ top = "paths" => DOMAIN Item.segments \subseteq DOMAIN grown.segments
  BY <1>1, <1>2, ItemGrows
<1> HIDE DEF grown
<1> QED
  BY <1>1, <1>3, LastItemKeeps

LEMMA AddSegmentKeeps == LoaderInv /\ AddSegment => LoaderInv'
<1> SUFFICES ASSUME LoaderInv, AddSegment PROVE LoaderInv'
  OBVIOUS
<1> DEFINE grown == [Item EXCEPT !.segments = Append(@, Stored(EmptySegment, SegmentKeys))]
           last == Len(cfg.paths)
<1>1. /\ Reading /\ Consume /\ context = "segments"
      /\ Len(Item.segments) < MaxEntries.segments /\ cfg' = LastItem(grown)
      /\ segment' = <<last, Len(Item.segments) + 1>>
      /\ UNCHANGED <<top, context, current>>
  BY InSectionSays DEF AddSegment, InList
<1>2. HasItem /\ top = "paths"
  <2>1. "segments" \in Blocks(top)
    BY <1>1 DEF LoaderInv, CursorInv
  <2> QED
    BY <1>1, <2>1 DEF LoaderInv, CursorInv, Blocks, IntentBlocks
<1>3. /\ IsItem("paths", Item) /\ "segments" \in Lists \cap DOMAIN Item
      /\ last \in DOMAIN cfg.paths /\ "paths" \in Sections
  BY <1>1, <1>2, ItemIsThere, ContextIsList DEF Lists
<1>4. /\ IsItem("paths", grown) /\ DOMAIN Item.segments \subseteq DOMAIN grown.segments
  BY <1>1, <1>3, ItemGrows
<1>5. IsList(Item.segments) /\ grown.segments = Append(Item.segments, Stored(EmptySegment, SegmentKeys))
  BY <1>3 DEF IsItem
<1> HIDE DEF grown
<1>6. Len(Item.segments) + 1 \in DOMAIN grown.segments
  <2>1. /\ IsList(grown.segments) /\ Len(Item.segments) \in Nat
        /\ Len(grown.segments) = Len(Item.segments) + 1
    BY <1>5, ListGrows
  <2> QED
    BY <2>1 DEF IsList
<1>7. cfg' = [cfg EXCEPT !["paths"][last] = grown]
  BY <1>1, <1>2 DEF LastItem
<1>8. /\ last \in DOMAIN cfg'.paths /\ cfg'.paths[last] = grown
  <2>1. Grown(cfg, cfg') /\ cfg'["paths"][last] = grown
    <3>1. Configured(cfg) /\ Item = cfg["paths"][last]
      BY <1>2 DEF LoaderInv, Item
    <3> HIDE DEF last
    <3>2. DOMAIN cfg["paths"][last].segments \subseteq DOMAIN grown.segments
      BY <1>4, <3>1
    <3>3. /\ Grown(cfg, [cfg EXCEPT !["paths"][last] = grown])
          /\ [cfg EXCEPT !["paths"][last] = grown]["paths"][last] = grown
      BY <1>3, <1>4, <3>1, <3>2, ItemReplaced
    <3> QED
      BY <1>7, <3>3
  <2> QED
    BY <1>3, <2>1 DEF Grown
<1> HIDE DEF last
<1>9. /\ segment'[1] \in DOMAIN cfg'.paths
      /\ segment'[2] \in DOMAIN cfg'.paths[segment'[1]].segments
  BY <1>1, <1>6, <1>8
<1> QED
  BY <1>1, <1>2, <1>4, <1>9, LastItemKeeps

LEMMA SegmentFieldKeeps == LoaderInv /\ SegmentField => LoaderInv'
<1> SUFFICES ASSUME LoaderInv, SegmentField PROVE LoaderInv'
  OBVIOUS
<1> DEFINE a == segment[1]
           b == segment[2]
           e == Stored(cfg.paths[a].segments[b], SegmentKeys)
           written == [cfg.paths[a] EXCEPT !.segments[b] = e]
<1>1. /\ Reading /\ Consume /\ segment # None
      /\ cfg' = [cfg EXCEPT !["paths"][a] = written]
      /\ UNCHANGED <<top, context, current, segment>>
  BY InSectionSays DEF SegmentField, IsSegmentField, position
<1>2. /\ "paths" \in Sections /\ a \in DOMAIN cfg.paths /\ b \in DOMAIN cfg.paths[a].segments
      /\ IsItem("paths", cfg.paths[a])
  BY <1>1 DEF LoaderInv, CursorInv, Configured, AreItems, Sections
<1> HIDE DEF a, b, e
<1>3. /\ IsItem("paths", written)
      /\ DOMAIN cfg["paths"][a].segments \subseteq DOMAIN written.segments
  BY <1>2, SegmentRewritten
<1> HIDE DEF written
<1>4. /\ Configured([cfg EXCEPT !["paths"][a] = written])
      /\ Grown(cfg, [cfg EXCEPT !["paths"][a] = written])
  BY <1>2, <1>3, ItemReplaced DEF LoaderInv
<1>5. Configured(cfg') /\ Grown(cfg, cfg')
  BY <1>1, <1>4
<1>6. current' \in SUBSET {s \in Sections : cfg'[s] # <<>>}
  BY <1>1, <1>5 DEF LoaderInv, CursorInv, Grown
<1>7. /\ top' \in Sections \cup {"none"} /\ context' \in {"none"} \cup Blocks(top')
      /\ context' \in {"waypoints", "segments"} => top' \in current'
  BY <1>1 DEF LoaderInv, CursorInv, HasItem
<1> QED
  BY <1>1, <1>5, <1>6, <1>7, CursorGoesOn

LEMMA OpenBlockKeeps == LoaderInv /\ OpenBlock => LoaderInv'
<1> SUFFICES ASSUME LoaderInv, OpenBlock PROVE LoaderInv'
  OBVIOUS
<1>1. /\ Reading /\ Consume /\ OpensBlock /\ context' = Line.key
      /\ UNCHANGED <<top, current, segment, cfg>>
  BY InSectionSays DEF OpenBlock
<1>2. /\ Line.key \in Blocks(top)
      /\ Line.key \in {"waypoints", "segments"} => HasItem
  BY <1>1 DEF OpensBlock, Blocks, IntentBlocks
<1>3. /\ top' \in Sections \cup {"none"} /\ context' \in {"none"} \cup Blocks(top')
      /\ context' \in {"waypoints", "segments"} => top' \in current'
      /\ current' \in SUBSET {s \in Sections : cfg'[s] # <<>>}
  BY <1>1, <1>2 DEF LoaderInv, CursorInv, HasItem
<1> QED
  BY <1>1, <1>3, NothingGrows, CursorGoesOn DEF LoaderInv

LEMMA FieldKeeps == LoaderInv /\ Field => LoaderInv'
<1> SUFFICES ASSUME LoaderInv, Field PROVE LoaderInv'
  OBVIOUS
<1> DEFINE item == Stored(Item, Keys)
<1>1. /\ Reading /\ HasItem /\ Consume /\ cfg' = LastItem(item)
      /\ UNCHANGED <<top, context, current, segment>>
  BY InSectionSays DEF Field, IsItemField, position
<1>2. top \in Sections /\ IsItem(top, Item)
  BY <1>1, ItemIsThere
<1>3. IsItem(top, item) /\ \A l \in Lists \cap DOMAIN Item : item[l] = Item[l]
  BY <1>2, StoredKeeps DEF Keys
<1>4. top = "paths" => "segments" \in Lists \cap DOMAIN Item
  BY <1>2, ListsOfItems DEF IsItem
<1> HIDE DEF item
<1>5. top = "paths" => DOMAIN Item.segments \subseteq DOMAIN item.segments
  BY <1>3, <1>4
<1> QED
  BY <1>1, <1>3, <1>5, LastItemKeeps

LEMMA FieldWithoutItemKeeps == LoaderInv /\ FieldWithoutItem => LoaderInv'
<1> SUFFICES ASSUME LoaderInv, FieldWithoutItem PROVE LoaderInv'
  OBVIOUS
<1>1. CASE \E e \in {"crash", "invalid_argument"} : Reject(e)
  BY <1>1, RejectKeeps DEF ErrorCodes
<1>2. CASE Consume /\ UNCHANGED <<position, cfg>>
  <2>1. /\ Reading /\ UNCHANGED <<top, context, current, segment, cfg>>
    BY <1>2, InSectionSays DEF FieldWithoutItem, IsItemField, position
  <2>2. /\ top' \in Sections \cup {"none"} /\ context' \in {"none"} \cup Blocks(top')
        /\ context' \in {"waypoints", "segments"} => top' \in current'
        /\ current' \in SUBSET {s \in Sections : cfg'[s] # <<>>}
    BY <2>1 DEF LoaderInv, CursorInv, HasItem
  <2> QED
    BY <1>2, <2>1, <2>2, NothingGrows, CursorGoesOn DEF LoaderInv
<1> QED
  BY <1>1, <1>2 DEF FieldWithoutItem

LEMMA RefusalsKeep ==
  /\ LoaderInv
  /\ \/ OpenFails \/ Orphan \/ TooManyItems \/ EntryRefused \/ EntryWithoutItem
     \/ TooManySegments \/ Misplaced \/ FieldRefused
  => LoaderInv'
<1> SUFFICES ASSUME LoaderInv, \E e \in {"crash", "invalid_argument", "not_found"} : Reject(e)
             PROVE  LoaderInv'
  BY DEF OpenFails, Orphan, TooManyItems, EntryRefused, EntryWithoutItem,
         TooManySegments, Misplaced, FieldRefused
<1> QED
  BY RejectKeeps DEF ErrorCodes

LEMMA OpenKeeps == LoaderInv /\ Open => LoaderInv'
<1> SUFFICES ASSUME LoaderInv, Open PROVE LoaderInv'
  OBVIOUS
<1>1. doc \in Documents /\ Len(doc) \in Nat
  BY LoaderAssumption DEF LoaderInv, CursorInv
<1> QED
  BY <1>1 DEF LoaderInv, CursorInv, HasItem, Open, position

------------------------------------------------------------------------------
(* The end of the file: normalisation and validation.                        *)

LessThan == {ss \in Nat \X Nat : ss[1] < ss[2]}

LEMMA MinIsThere ==
  ASSUME NEW S \in SUBSET Nat, S # {}
  PROVE  Min(S) \in S /\ \A j \in S : Min(S) <= j
<1>1. IsWellFoundedOn(LessThan, Nat)
  BY NatLessThanWellFounded DEF OpToRel, LessThan
<1>2. PICK n \in S : \A m \in S : ~ (<<m, n>> \in LessThan)
  BY <1>1, WFMin
<1>3. \A m \in S : ~ (m < n)
  BY <1>2 DEF LessThan
<1>4. \E x \in S : \A y \in S : x <= y
  BY <1>3
<1> QED
  BY <1>4, Zenon DEF Min

LEMMA MappedIsList ==
  ASSUME NEW list, IsList(list), NEW f, f = [i \in DOMAIN list |-> f[i]]
  PROVE  IsList(f) /\ Len(f) = Len(list) /\ DOMAIN f = DOMAIN list
<1>1. Len(list) \in Nat /\ DOMAIN list = 1..Len(list)
  BY DEF IsList
<1>2. f \in Seq(Range(f))
  <2>1. \A i \in 1..Len(list) : f[i] \in Range(f)
    BY <1>1 DEF Range
  <2> QED
    BY <1>1, <2>1, IsASeq
<1> QED
  BY <1>1, <1>2 DEF IsList

(* An item that differs in fields only is an item still.                     *)
LEMMA SameLists ==
  ASSUME NEW s \in Sections, NEW item, IsItem(s, item), NEW other,
         DOMAIN other = DOMAIN item, \A l \in Lists \cap DOMAIN item : other[l] = item[l]
  PROVE  IsItem(s, other)
BY DEF IsItem

LEMMA NormalizedPathIsItem ==
  ASSUME NEW c, NEW p, IsItem("paths", p)
  PROVE  /\ IsItem("paths", NormalizedPath(c, p))
         /\ NormalizedPath(c, p).segments = p.segments
<1> DEFINE n == NormalizedPath(c, p)
<1>1. /\ DOMAIN n = DOMAIN p
      /\ \A l \in DOMAIN p : l \notin {"egress", "prefix", "next_hop"} => n[l] = p[l]
  BY DEF NormalizedPath
<1>2. \A l \in Lists : l \notin {"egress", "prefix", "next_hop"}
  BY DEF Lists, PlainLists
<1>3. "segments" \in Lists \cap DOMAIN p
  BY ListsOfItems DEF IsItem
<1> HIDE DEF n
<1>4. IsItem("paths", n)
  BY <1>1, <1>2, SameLists DEF Sections
<1> QED
  BY <1>1, <1>2, <1>3, <1>4 DEF n

LEMMA NormalizedEdgeIsItem ==
  ASSUME NEW e, IsItem("vpp_edges", e)
  PROVE  IsItem("vpp_edges", NormalizedEdge(e))
<1> DEFINE n == NormalizedEdge(e)
<1>1. /\ DOMAIN n = DOMAIN e
      /\ \A l \in DOMAIN e : l \notin {"vpp_interface", "next_hop"} => n[l] = e[l]
  BY DEF NormalizedEdge
<1>2. \A l \in Lists : l \notin {"vpp_interface", "next_hop"}
  BY DEF Lists, PlainLists
<1> HIDE DEF n
<1> QED
  BY <1>1, <1>2, SameLists DEF Sections, n

LEMMA Normalized ==
  ASSUME NEW c, Configured(c)
  PROVE  /\ Configured(Normalize(c))
         /\ Normalize(c).tunnels = c.tunnels /\ Normalize(c).intents = c.intents
         /\ Normalize(c).paths = [i \in DOMAIN c.paths |-> NormalizedPath(c, c.paths[i])]
         /\ \A s \in Sections : DOMAIN Normalize(c)[s] = DOMAIN c[s]
         /\ \A i \in DOMAIN c.paths : Normalize(c).paths[i].segments = c.paths[i].segments
<1> DEFINE n == Normalize(c)
           paths == [i \in DOMAIN c.paths |-> NormalizedPath(c, c.paths[i])]
           edges == [i \in DOMAIN c.vpp_edges |-> NormalizedEdge(c.vpp_edges[i])]
<1>1. /\ n = [s \in Sections |-> n[s]] /\ n.paths = paths /\ n.vpp_edges = edges
      /\ n.tunnels = c.tunnels /\ n.intents = c.intents
  BY DEF Normalize, Configured, Sections
<1>2. AreItems("paths", c.paths) /\ AreItems("vpp_edges", c.vpp_edges)
      /\ AreItems("tunnels", c.tunnels) /\ AreItems("intents", c.intents)
  BY DEF Configured, Sections
<1>3. /\ DOMAIN paths = DOMAIN c.paths
      /\ \A i \in DOMAIN c.paths : /\ IsItem("paths", paths[i])
                                   /\ paths[i].segments = c.paths[i].segments
  BY <1>2, NormalizedPathIsItem DEF AreItems
<1>4. DOMAIN edges = DOMAIN c.vpp_edges /\ \A i \in DOMAIN c.vpp_edges : IsItem("vpp_edges", edges[i])
  BY <1>2, NormalizedEdgeIsItem DEF AreItems
<1>5. paths = [i \in DOMAIN c.paths |-> paths[i]] /\ edges = [i \in DOMAIN c.vpp_edges |-> edges[i]]
  OBVIOUS
<1>6. paths = [i \in DOMAIN c.paths |-> NormalizedPath(c, c.paths[i])]
  OBVIOUS
<1> HIDE DEF n, paths, edges
<1>7. AreItems("paths", paths) /\ AreItems("vpp_edges", edges)
  BY <1>2, <1>3, <1>4, <1>5, MappedIsList DEF AreItems
<1>8. \A s \in Sections : AreItems(s, n[s]) /\ DOMAIN n[s] = DOMAIN c[s]
  BY <1>1, <1>2, <1>3, <1>4, <1>7 DEF Sections
<1> QED
  BY <1>1, <1>3, <1>6, <1>8 DEF Configured, n

Verdicts == {"none", "invalid_argument", "not_found"}
Passed(c) ==
  /\ c.paths # <<>>
  /\ \A i \in DOMAIN c.tunnels : TunnelVerdict(c, i) = "none"
  /\ \A i \in DOMAIN c.paths : PathVerdict(c, i) = "none"
  /\ \A i \in DOMAIN c.intents : IntentVerdict(c, i) = "none"
  /\ \A i \in DOMAIN c.vpp_edges : EdgeVerdict(c, i) = "none"

LEMMA VerdictsOfList ==
  ASSUME NEW list, IsList(list), NEW f \in [DOMAIN list -> Verdicts]
  PROVE  /\ f \in Seq(Verdicts)
         /\ (\A v \in Range(f) : v = "none") <=> \A i \in DOMAIN list : f[i] = "none"
<1>1. Len(list) \in Nat /\ DOMAIN list = 1..Len(list)
  BY DEF IsList
<1>2. f \in Seq(Verdicts)
  BY <1>1, IsASeq
<1> QED
  BY <1>2 DEF Range

LEMMA FourTogether ==
  ASSUME NEW S, NEW s1 \in Seq(S), NEW s2 \in Seq(S), NEW s3 \in Seq(S), NEW s4 \in Seq(S)
  PROVE  /\ s1 \o s2 \o s3 \o s4 \in Seq(S)
         /\ Range(s1 \o s2 \o s3 \o s4) = Range(s1) \cup Range(s2) \cup Range(s3) \cup Range(s4)
<1> DEFINE two == s1 \o s2
           three == two \o s3
           four == three \o s4
<1>1. two \in Seq(S) /\ Range(two) = Range(s1) \cup Range(s2)
  BY RangeConcatenation
<1> HIDE DEF two
<1>2. three \in Seq(S) /\ Range(three) = Range(two) \cup Range(s3)
  BY <1>1, RangeConcatenation
<1> HIDE DEF three
<1>3. four \in Seq(S) /\ Range(four) = Range(three) \cup Range(s4)
  BY <1>2, RangeConcatenation
<1> QED
  BY <1>1, <1>2, <1>3 DEF two, three

(* The first error in the order of the items decides; there is none exactly  *)
(* when every item passes.                                                   *)
LEMMA ValidateSays ==
  ASSUME NEW c, Configured(c)
  PROVE  Validate(c) \in Verdicts /\ (Validate(c) = "none" <=> Passed(c))
<1> DEFINE T == [i \in DOMAIN c.tunnels |-> TunnelVerdict(c, i)]
           P == [i \in DOMAIN c.paths |-> PathVerdict(c, i)]
           N == [i \in DOMAIN c.intents |-> IntentVerdict(c, i)]
           E == [i \in DOMAIN c.vpp_edges |-> EdgeVerdict(c, i)]
           all == T \o P \o N \o E
           bad == {i \in DOMAIN all : all[i] # "none"}
<1>1. /\ T \in [DOMAIN c.tunnels -> Verdicts] /\ P \in [DOMAIN c.paths -> Verdicts]
      /\ N \in [DOMAIN c.intents -> Verdicts] /\ E \in [DOMAIN c.vpp_edges -> Verdicts]
  BY DEF Verdicts, Judge, TunnelVerdict, PathVerdict, IntentVerdict, EdgeVerdict
<1>2. /\ IsList(c.tunnels) /\ IsList(c.paths) /\ IsList(c.intents) /\ IsList(c.vpp_edges)
  BY DEF Configured, AreItems, Sections
<1>3. Validate(c) = IF c.paths = <<>> THEN "invalid_argument"
                    ELSE IF bad = {} THEN "none" ELSE all[Min(bad)]
  BY DEF Validate
<1>4. Passed(c) <=> /\ c.paths # <<>>
                    /\ \A i \in DOMAIN c.tunnels : T[i] = "none"
                    /\ \A i \in DOMAIN c.paths : P[i] = "none"
                    /\ \A i \in DOMAIN c.intents : N[i] = "none"
                    /\ \A i \in DOMAIN c.vpp_edges : E[i] = "none"
  BY DEF Passed
<1> HIDE DEF T, P, N, E
<1>5. T \in Seq(Verdicts) /\ P \in Seq(Verdicts) /\ N \in Seq(Verdicts) /\ E \in Seq(Verdicts)
  BY <1>1, <1>2, VerdictsOfList
<1>6. Passed(c) <=> c.paths # <<>> /\ \A v \in Range(T) \cup Range(P) \cup Range(N) \cup Range(E) : v = "none"
  <2>1. /\ (\A v \in Range(T) : v = "none") <=> \A i \in DOMAIN c.tunnels : T[i] = "none"
        /\ (\A v \in Range(P) : v = "none") <=> \A i \in DOMAIN c.paths : P[i] = "none"
    BY <1>1, <1>2, VerdictsOfList
  <2>2. /\ (\A v \in Range(N) : v = "none") <=> \A i \in DOMAIN c.intents : N[i] = "none"
        /\ (\A v \in Range(E) : v = "none") <=> \A i \in DOMAIN c.vpp_edges : E[i] = "none"
    BY <1>1, <1>2, VerdictsOfList
  <2> QED
    BY <1>4, <2>1, <2>2
<1>7. all \in Seq(Verdicts) /\ Range(all) = Range(T) \cup Range(P) \cup Range(N) \cup Range(E)
  BY <1>5, FourTogether
<1> HIDE DEF all
<1>8. bad = {} <=> \A v \in Range(all) : v = "none"
  BY DEF Range
<1>9. bad # {} => Min(bad) \in bad
  <2>1. bad \in SUBSET Nat
    BY <1>7
  <2> HIDE DEF bad
  <2> QED
    BY <2>1, MinIsThere
<1>10. bad # {} => all[Min(bad)] \in Verdicts /\ all[Min(bad)] # "none"
  BY <1>7, <1>9
<1> HIDE DEF bad
<1> QED
  BY <1>3, <1>6, <1>7, <1>8, <1>10 DEF Verdicts

LEMMA EndOfFileKeeps == LoaderInv /\ EndOfFile => LoaderInv'
<1> SUFFICES ASSUME LoaderInv, EndOfFile PROVE LoaderInv'
  OBVIOUS
<1>1. cfg' = Normalize(cfg) /\ result' = Validate(cfg') /\ UNCHANGED <<doc, at, top, context, current, segment>>
  BY DEF EndOfFile, position
<1>2. /\ Configured(cfg') /\ \A s \in Sections : DOMAIN cfg'[s] = DOMAIN cfg[s]
      /\ \A i \in DOMAIN cfg.paths : cfg'.paths[i].segments = cfg.paths[i].segments
  BY <1>1, Normalized DEF LoaderInv
<1>3. result' \in ErrorCodes
  BY <1>1, <1>2, ValidateSays DEF Verdicts, ErrorCodes
<1>4. current' \in SUBSET {s \in Sections : cfg'[s] # <<>>}
  <2>1. \A s \in Sections : cfg'[s] = <<>> => cfg[s] = <<>>
    <3> TAKE s \in Sections
    <3>1. IsList(cfg[s]) /\ IsList(cfg'[s]) /\ DOMAIN cfg'[s] = DOMAIN cfg[s]
      BY <1>2 DEF LoaderInv, Configured, AreItems
    <3> QED
      BY <3>1, LastOfList, EmptyIsList
  <2> QED
    BY <1>1, <2>1 DEF LoaderInv, CursorInv
<1>5. segment' # None => /\ segment'[1] \in DOMAIN cfg'.paths
                         /\ segment'[2] \in DOMAIN cfg'.paths[segment'[1]].segments
  BY <1>1, <1>2 DEF LoaderInv, CursorInv, Sections
<1> QED
  BY <1>1, <1>2, <1>3, <1>4, <1>5 DEF LoaderInv, CursorInv, HasItem

------------------------------------------------------------------------------
(* The loader.                                                               *)

LEMMA LoaderStarts == Init => LoaderInv
<1> SUFFICES ASSUME Init PROVE LoaderInv
  OBVIOUS
<1>1. Configured(cfg)
  <2>1. cfg = [s \in Sections |-> <<>>]
    BY DEF Init
  <2>2. \A s \in Sections : AreItems(s, <<>>)
    BY EmptyIsList, LoaderAssumption DEF AreItems
  <2> QED
    BY <2>1, <2>2 DEF Configured
<1>2. CursorInv
  <2>1. doc \in Documents /\ Len(doc) \in Nat
    BY LoaderAssumption DEF Init
  <2> QED
    BY <2>1 DEF Init, CursorInv
<1> QED
  BY <1>1, <1>2 DEF LoaderInv

LEMMA LoaderMoves == LoaderInv /\ [Next]_vars => LoaderInv'
<1> SUFFICES ASSUME LoaderInv, [Next]_vars PROVE LoaderInv'
  OBVIOUS
<1>1. CASE Next
  BY <1>1, OpenKeeps, RefusalsKeep, HeaderKeeps, NewItemKeeps, AddEntryKeeps, AddSegmentKeeps,
     SegmentFieldKeeps, OpenBlockKeeps, FieldKeeps, FieldWithoutItemKeeps, EndOfFileKeeps DEF Next
<1>2. CASE UNCHANGED vars
  BY <1>2 DEF LoaderInv, CursorInv, HasItem, vars, position
<1> QED
  BY <1>1, <1>2

LEMMA LoaderAlways == Spec => []LoaderInv
BY LoaderStarts, LoaderMoves, PTL DEF Spec

LEMMA ConfiguredFits ==
  ASSUME NEW c, Configured(c)
  PROVE  Fits(c)
<1>1. \A s \in Sections : AreItems(s, c[s])
  BY DEF Configured
<1>2. DOMAIN MaxEntries = Lists
  BY LoaderAssumption DEF Lists
<1> QED
  BY <1>1, <1>2 DEF Fits, AreItems, IsItem

(* Whatever the file, no array is overrun, the segment pointer points at a   *)
(* segment that was read, and the parser is in one of its states.            *)
THEOREM LoaderTypeCorrect == Spec => []LoaderTypeOK
<1>1. LoaderInv => LoaderTypeOK
  <2> SUFFICES ASSUME LoaderInv PROVE LoaderTypeOK
    OBVIOUS
  <2>1. Fits(cfg)
    BY ConfiguredFits DEF LoaderInv
  <2>2. Blocks(top) \subseteq Blocks("paths") \cup Blocks("intents")
    BY DEF Blocks
  <2> QED
    BY <2>1, <2>2 DEF LoaderInv, CursorInv, LoaderTypeOK
<1> QED
  BY <1>1, LoaderAlways, PTL

------------------------------------------------------------------------------
(* What is accepted.                                                         *)

(* What normalisation fills in, if it can.                                   *)
Completed(c) ==
  \A i \in DOMAIN c.paths :
    LET p == c.paths[i]
        egress == FindTunnel(c, p.egress)
    IN  /\ p.segments # <<>> /\ p.egress = "" => p.segments[1].tunnel_id = ""
        /\ p.prefix = "" => egress = None \/ egress.remote_ts = ""
AcceptedInv == result = "none" => Passed(cfg) /\ Completed(cfg)

LEMMA PathFields ==
  /\ {"egress", "prefix", "next_hop", "segments"} \subseteq DOMAIN Default.paths
  /\ "tunnel_id" \in DOMAIN Default.tunnels
<1>1. {"egress", "prefix", "next_hop"} \subseteq DOMAIN Default.paths
  <2>1. DOMAIN Default.paths = Range(PathKeys) \cup DOMAIN PathDefaults
    BY DEF Default, BlankBut
  <2>2. {"egress", "prefix", "next_hop"} \subseteq Range(PathKeys)
    BY DEF PathKeys, Range
  <2> QED
    BY <2>1, <2>2
<1>2. "tunnel_id" \in DOMAIN Default.tunnels
  <2>1. DOMAIN Default.tunnels = Range(TunnelKeys) \cup {"protocol"}
    BY DEF Default, BlankBut
  <2>2. "tunnel_id" \in Range(TunnelKeys)
    BY DEF TunnelKeys, Range
  <2> QED
    BY <2>1, <2>2
<1> QED
  BY <1>1, <1>2, ListsOfItems

LEMMA NormalizeCompletes ==
  ASSUME NEW c, Configured(c)
  PROVE  Completed(Normalize(c))
<1> DEFINE n == Normalize(c)
<1>1. /\ n.tunnels = c.tunnels /\ DOMAIN n.paths = DOMAIN c.paths
      /\ \A i \in DOMAIN c.paths : n.paths[i] = NormalizedPath(c, c.paths[i])
  <2>1. n.tunnels = c.tunnels /\ n.paths = [i \in DOMAIN c.paths |-> NormalizedPath(c, c.paths[i])]
    BY Normalized
  <2> HIDE DEF n
  <2> QED
    BY <2>1
<1>2. \A id : FindTunnel(n, id) = FindTunnel(c, id)
  BY <1>1 DEF FindTunnel
<1> SUFFICES ASSUME NEW i \in DOMAIN c.paths
             PROVE  LET p == n.paths[i]
                        egress == FindTunnel(n, p.egress)
                    IN  /\ p.segments # <<>> /\ p.egress = "" => p.segments[1].tunnel_id = ""
                        /\ p.prefix = "" => egress = None \/ egress.remote_ts = ""
  BY <1>1 DEF Completed
<1> DEFINE p == c.paths[i]
           egress == IF p.segments = <<>> THEN p.egress ELSE OrElse(p.egress, p.segments[1].tunnel_id)
           q == NormalizedPath(c, p)
<1>3. {"egress", "prefix", "next_hop", "segments"} \subseteq DOMAIN p
  BY PathFields DEF Configured, AreItems, IsItem, Sections
<1>4. /\ q.segments = p.segments /\ q.egress = egress
      /\ q.prefix = FromTunnel(p.prefix, c, egress, "remote_ts")
  BY <1>3 DEF NormalizedPath
<1>5. q.segments # <<>> /\ q.egress = "" => q.segments[1].tunnel_id = ""
  BY <1>4 DEF OrElse
<1> HIDE DEF egress, q
<1>6. q.prefix = "" => FindTunnel(c, egress) = None \/ FindTunnel(c, egress).remote_ts = ""
  BY <1>4 DEF FromTunnel, OrElse
<1> HIDE DEF p, n
<1> QED
  BY <1>1, <1>2, <1>4, <1>5, <1>6 DEF q, p

LEMMA AcceptedMoves == LoaderInv /\ AcceptedInv /\ [Next]_vars => AcceptedInv'
<1> SUFFICES ASSUME LoaderInv, AcceptedInv, [Next]_vars, result' = "none"
             PROVE  Passed(cfg') /\ Completed(cfg')
  BY DEF AcceptedInv
<1>1. CASE EndOfFile
  <2>1. cfg' = Normalize(cfg) /\ Validate(cfg') = "none"
    BY <1>1 DEF EndOfFile
  <2>2. Configured(cfg') /\ Completed(cfg')
    BY <2>1, Normalized, NormalizeCompletes DEF LoaderInv
  <2> QED
    BY <2>1, <2>2, ValidateSays
<1>2. CASE Next /\ ~ EndOfFile
  <2>1. result = "loading" /\ (result' = result \/ result' \in {"crash", "invalid_argument", "not_found"})
    BY <1>2 DEF Next, Open, OpenFails, Header, Orphan, NewItem, TooManyItems, AddEntry, EntryRefused,
       EntryWithoutItem, AddSegment, TooManySegments, Misplaced, SegmentField, OpenBlock, Field,
       FieldRefused, FieldWithoutItem, Reject, Consume, Reading, InSection, InList, IsItemField
  <2> QED
    BY <2>1
<1>3. CASE UNCHANGED vars
  BY <1>3 DEF vars, AcceptedInv
<1> QED
  BY <1>1, <1>2, <1>3

LEMMA AcceptedAlways == Spec => []AcceptedInv
<1>1. Init => AcceptedInv
  BY DEF Init, AcceptedInv
<1> QED
  BY <1>1, AcceptedMoves, LoaderAlways, PTL DEF Spec

LEMMA NoneRepeated ==
  ASSUME NEW list, IsList(list), NEW f, \A i \in DOMAIN list : ~ Repeated(list, i, f)
  PROVE  Distinct(list, f)
<1> DEFINE S == 1..Len(list)
           g == [i \in S |-> list[i][f]]
<1>1. Len(list) \in Nat /\ DOMAIN list = S
  BY DEF IsList
<1>2. IsFiniteSet(S) /\ Cardinality(S) = Len(list)
  BY <1>1, FS_Interval
<1>3. g \in Surjection(S, Ids(list, f))
  <2>1. Ids(list, f) = {list[i][f] : i \in S}
    BY <1>1 DEF Ids
  <2>2. g \in [S -> Ids(list, f)]
    BY <2>1
  <2>3. \A y \in Ids(list, f) : \E x \in S : g[x] = y
    BY <2>1
  <2> HIDE DEF g, S
  <2> QED
    BY <2>2, <2>3 DEF Surjection
<1>4. \A i, j \in S : i < j => list[j][f] # list[i][f]
  BY <1>1 DEF Repeated
<1>5. \A i, j \in S : i # j => g[i] # g[j]
  BY <1>1, <1>4
<1>6. g \in Injection(S, Ids(list, f))
  BY <1>3, <1>5 DEF Injection, IsInjective, Surjection
<1> HIDE DEF S, g
<1>7. Cardinality(Ids(list, f)) = Cardinality(S)
  BY <1>2, <1>3, <1>6, FS_Surjection
<1> QED
  BY <1>2, <1>7 DEF Distinct

LEMMA JudgedInnocent ==
  ASSUME NEW invalid, NEW unknown, Judge(invalid, unknown) = "none"
  PROVE  ~ invalid /\ ~ unknown
BY DEF Judge

(* What passes item by item is sound as a whole.                             *)
LEMMA PassedIsSound ==
  ASSUME NEW c, Configured(c), Passed(c), Completed(c)
  PROVE  Sound(c)
<1>0. /\ IsList(c.tunnels) /\ IsList(c.paths) /\ IsList(c.intents) /\ IsList(c.vpp_edges)
      /\ \A i \in DOMAIN c.paths : IsItem("paths", c.paths[i])
      /\ \A i \in DOMAIN c.intents : IsItem("intents", c.intents[i])
  BY DEF Configured, AreItems, Sections
<1>1. \A i \in DOMAIN c.tunnels : /\ ~ Unnamed(c.tunnels[i], Required.tunnels)
                                 /\ ~ Repeated(c.tunnels, i, "tunnel_id")
  BY JudgedInnocent DEF Passed, TunnelVerdict, Required
<1>2. \A i \in DOMAIN c.paths :
        /\ ~ Unnamed(c.paths[i], Required.paths) /\ ~ Repeated(c.paths, i, "path_id")
        /\ c.paths[i].segments # <<>>
        /\ \A j \in DOMAIN c.paths[i].segments : HasTunnel(c, c.paths[i].segments[j].tunnel_id)
        /\ c.paths[i].egress # "" => HasTunnel(c, c.paths[i].egress)
  BY JudgedInnocent DEF Passed, PathVerdict, Required
<1>3. \A i \in DOMAIN c.intents :
        /\ ~ Unnamed(c.intents[i], Required.intents) /\ ~ Repeated(c.intents, i, "intent_id")
        /\ c.intents[i].mode = "explicit" => HasPath(c, c.intents[i].selected)
        /\ \A j \in DOMAIN c.intents[i].candidates : HasPath(c, c.intents[i].candidates[j])
  BY JudgedInnocent DEF Passed, IntentVerdict, Required, Unnamed
<1>4. \A i \in DOMAIN c.vpp_edges : /\ ~ Unnamed(c.vpp_edges[i], Required.vpp_edges)
                                   /\ ~ Repeated(c.vpp_edges, i, "node_id")
  BY JudgedInnocent DEF Passed, EdgeVerdict, Required
<1>5. \A s \in Sections : /\ Distinct(c[s], IdOf[s])
                         /\ \A f \in Required[s] : "" \notin Ids(c[s], f)
  <2>1. /\ Distinct(c.tunnels, "tunnel_id") /\ Distinct(c.paths, "path_id")
        /\ Distinct(c.intents, "intent_id") /\ Distinct(c.vpp_edges, "node_id")
    BY <1>0, <1>1, <1>2, <1>3, <1>4, NoneRepeated
  <2>2. \A s \in Sections : Distinct(c[s], IdOf[s])
    BY <2>1 DEF IdOf, Sections
  <2>3. \A s \in Sections : \A i \in DOMAIN c[s] : ~ Unnamed(c[s][i], Required[s])
    BY <1>1, <1>2, <1>3, <1>4 DEF Sections
  <2>4. \A s \in Sections : \A f \in Required[s] : "" \notin Ids(c[s], f)
    BY <2>3 DEF Unnamed, Ids
  <2> QED
    BY <2>2, <2>4
<1>6. "" \notin Ids(c.tunnels, "tunnel_id")
  BY <1>1 DEF Unnamed, Ids, Required
<1>7. ASSUME NEW i \in DOMAIN c.paths
      PROVE  LET p == c.paths[i] IN
             p.segments # <<>> /\ Ids(p.segments, "tunnel_id") \cup {p.egress} \subseteq Ids(c.tunnels, "tunnel_id")
  <2> DEFINE p == c.paths[i]
  <2>1. IsList(p.segments) /\ p.segments # <<>>
    BY <1>0, <1>2, ListsOfItems DEF IsItem
  <2>2. 1 \in DOMAIN p.segments
    BY <2>1, LastOfList DEF IsList
  <2>3. \A j \in DOMAIN p.segments : p.segments[j].tunnel_id \in Ids(c.tunnels, "tunnel_id")
    BY <1>2 DEF HasTunnel
  <2>4. p.egress # ""
    BY <1>6, <2>1, <2>2, <2>3 DEF Completed
  <2>5. p.egress \in Ids(c.tunnels, "tunnel_id")
    BY <1>2, <2>4 DEF HasTunnel
  <2>6. Ids(p.segments, "tunnel_id") \subseteq Ids(c.tunnels, "tunnel_id")
    <3>1. \A x \in Ids(p.segments, "tunnel_id") : \E j \in DOMAIN p.segments : x = p.segments[j].tunnel_id
      BY DEF Ids
    <3> QED
      BY <2>3, <3>1
  <2> QED
    BY <2>1, <2>5, <2>6
<1>8. ASSUME NEW i \in DOMAIN c.intents
      PROVE  LET n == c.intents[i] IN
             ToSet(n.candidates) \cup (IF n.mode = "explicit" THEN {n.selected} ELSE {}) \subseteq Ids(c.paths, "path_id")
  <2> DEFINE n == c.intents[i]
  <2>1. \A j \in DOMAIN n.candidates : n.candidates[j] \in Ids(c.paths, "path_id")
    BY <1>3 DEF HasPath
  <2>2. ToSet(n.candidates) \subseteq Ids(c.paths, "path_id")
    <3>1. \A x \in ToSet(n.candidates) : \E j \in DOMAIN n.candidates : x = n.candidates[j]
      BY DEF ToSet
    <3> QED
      BY <2>1, <3>1
  <2>3. n.mode = "explicit" => n.selected \in Ids(c.paths, "path_id")
    BY <1>3 DEF HasPath
  <2> QED
    BY <2>2, <2>3
<1> QED
  BY <1>5, <1>7, <1>8 DEF Sound, Passed

(* What a load accepts is sound: identifiers apart, references resolved, a   *)
(* way to forward for each path (validate_config of yaml_config.c), whatever *)
(* the file was and however it was misread.                                  *)
THEOREM AcceptedConfigsAreSound == Spec => []AcceptedIsSound
<1>1. LoaderInv /\ AcceptedInv => AcceptedIsSound
  BY PassedIsSound DEF AcceptedIsSound, AcceptedInv, LoaderInv
<1> QED
  BY <1>1, LoaderAlways, AcceptedAlways, PTL

LEMMA TunnelsAreFound ==
  ASSUME NEW c, Configured(c), NEW id \in Ids(c.tunnels, "tunnel_id")
  PROVE  /\ FindTunnel(c, id) = TunnelNamed(c, id) /\ FindTunnel(c, id) # None
         /\ TunnelNamed(c, id) # NoTunnel
<1> DEFINE hits == {i \in DOMAIN c.tunnels : c.tunnels[i].tunnel_id = id}
<1>1. IsList(c.tunnels) /\ \A i \in DOMAIN c.tunnels : IsItem("tunnels", c.tunnels[i])
  BY DEF Configured, AreItems, Sections
<1>2. hits # {} /\ hits \in SUBSET Nat
  BY <1>1 DEF Ids, IsList
<1>3. FindTunnel(c, id) = c.tunnels[Min(hits)] /\ TunnelNamed(c, id) = c.tunnels[Min(hits)]
  BY <1>2 DEF FindTunnel, TunnelNamed
<1>4. Min(hits) \in DOMAIN c.tunnels
  <2>1. Min(hits) \in hits
    <3> HIDE DEF hits
    <3> QED
      BY <1>2, MinIsThere
  <2> QED
    BY <2>1
<1>5. DOMAIN c.tunnels[Min(hits)] # {}
  BY <1>1, <1>4, PathFields DEF IsItem
<1>6. c.tunnels[Min(hits)] # <<>>
  BY <1>5, EmptyIsList
<1> QED
  BY <1>3, <1>6 DEF None, NoTunnel

(* And it can be planned: whatever file it came from, each of its paths has  *)
(* an apply plan (en_apply_plan_from_config) when its egress tunnel states   *)
(* its remote selector and endpoint.                                         *)
THEOREM AcceptedConfigsArePlannable == Spec => []AcceptedIsPlannable
<1>1. ASSUME Configured(cfg), Passed(cfg), Completed(cfg), NEW i \in DOMAIN cfg.paths
      PROVE  LET p == cfg.paths[i]
                 egress == FindTunnel(cfg, p.egress)
             IN  egress.remote_ts # "" /\ egress.remote_endpoint # "" => PlanOf(cfg, p).error = "none"
  <2> DEFINE p == cfg.paths[i]
             egress == FindTunnel(cfg, p.egress)
             ids == Ids(cfg.tunnels, "tunnel_id")
  <2> SUFFICES ASSUME egress.remote_ts # "", egress.remote_endpoint # ""
               PROVE  PlanOf(cfg, p).error = "none"
    OBVIOUS
  <2>1. /\ Ids(p.segments, "tunnel_id") \subseteq ids /\ p.egress \in ids /\ "" \notin ids
    <3>1. Sound(cfg)
      BY <1>1, PassedIsSound
    <3>2. "tunnel_id" \in Required["tunnels"] /\ "tunnels" \in Sections
      BY DEF Required, Sections
    <3>3. "" \notin ids
      BY <3>1, <3>2 DEF Sound
    <3> QED
      BY <1>1, <3>1, <3>3 DEF Sound
  <2>2. Range(TunnelIds(p)) \subseteq ids
    BY <2>1 DEF TunnelIds, Range, Ids
  <2>3. /\ \A id \in Range(TunnelIds(p)) : TunnelNamed(cfg, id) # NoTunnel
        /\ TunnelNamed(cfg, p.egress) = egress /\ egress # NoTunnel /\ egress # None
    BY <1>1, <2>1, <2>2, TunnelsAreFound
  <2>4. p.prefix # "" /\ NextHop(p, egress) # ""
    BY <1>1, <2>3 DEF Completed, NextHop
  <2>5. PlanError(cfg, p) = "none"
    <3> HIDE DEF egress, p, ids
    <3> QED
      BY <2>1, <2>2, <2>3, <2>4 DEF PlanError
  <2> QED
    BY <2>5 DEF PlanOf
<1>2. LoaderInv /\ AcceptedInv => AcceptedIsPlannable
  BY <1>1 DEF AcceptedIsPlannable, AcceptedInv, LoaderInv
<1> QED
  BY <1>2, LoaderAlways, AcceptedAlways, PTL
==============================================================================
