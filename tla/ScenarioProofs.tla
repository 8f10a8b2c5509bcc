---------------------------- MODULE ScenarioProofs ----------------------------
(***************************************************************************)
(* Theorems about eventnet_scenario and eventnet_netns_plan, for every     *)
(* topology, every set of YAML files and every sequence of commands: what  *)
(* the log and the generated files say is what was decided, and what was   *)
(* decided is what the files and the injected conditions call for.         *)
(***************************************************************************)
EXTENDS ScenarioProperties, ControllerDecision, SequenceTheorems

------------------------------------------------------------------------------
(* The override table of the mock probe. *)

IsOverrideTable(f, list, n) ==
  f = [k \in 0..n |-> IF k = 0 THEN <<>> ELSE Override(f[k - 1], list[k])]

(* The recursion of OverrideTables is well founded: each table is made from  *)
(* the one before it.                                                        *)
LEMMA OverrideTableExists ==
  ASSUME NEW list, NEW n \in Nat
  PROVE  \E f : IsOverrideTable(f, list, n)
<1> DEFINE Bad == {m \in Nat : ~ \E f : IsOverrideTable(f, list, m)}
<1> SUFFICES ASSUME Bad # {} PROVE FALSE
  OBVIOUS
<1>1. PICK m \in Bad : \A k \in Bad : m <= k
  BY LeastNumber
<1>2. CASE m = 0
  <2>1. IsOverrideTable([k \in 0..0 |-> <<>>], list, 0)
    BY DEF IsOverrideTable
  <2> QED
    BY <1>1, <1>2, <2>1
<1>3. CASE m # 0
  <2>1. m \in Nat /\ m - 1 \in Nat /\ m - 1 \notin Bad
    BY <1>1, <1>3
  <2>2. PICK g : IsOverrideTable(g, list, m - 1)
    BY <2>1
  <2> DEFINE f == [k \in 0..m |-> IF k = m THEN Override(g[m - 1], list[m]) ELSE g[k]]
  <2>3. DOMAIN g = 0..(m - 1)
    BY <2>2 DEF IsOverrideTable
  <2>4. \A k \in 0..(m - 1) : g[k] = IF k = 0 THEN <<>> ELSE Override(g[k - 1], list[k])
    BY <2>2 DEF IsOverrideTable
  <2>5. \A k \in 0..m : f[k] = IF k = 0 THEN <<>> ELSE Override(f[k - 1], list[k])
    <3> SUFFICES ASSUME NEW k \in 0..m
                 PROVE  f[k] = IF k = 0 THEN <<>> ELSE Override(f[k - 1], list[k])
      OBVIOUS
    <3>1. CASE k = m
      <4>1. f[k - 1] = g[m - 1] /\ k # 0
        BY <1>3, <2>1, <3>1
      <4> QED
        BY <3>1, <4>1
    <3>2. CASE k # m /\ k # 0
      <4>1. k \in 0..(m - 1) /\ f[k] = g[k] /\ f[k - 1] = g[k - 1]
        BY <2>1, <3>2
      <4> QED
        BY <2>4, <3>2, <4>1
    <3>3. CASE k # m /\ k = 0
      <4>1. k \in 0..(m - 1) /\ f[k] = g[k]
        BY <2>1, <3>3
      <4> QED
        BY <2>4, <3>3, <4>1
    <3> QED
      BY <3>1, <3>2, <3>3
  <2>6. f = [k \in 0..m |-> f[k]]
    OBVIOUS
  <2> HIDE DEF f
  <2>7. IsOverrideTable(f, list, m)
    BY <2>5, <2>6 DEF IsOverrideTable
  <2> QED
    BY <1>1, <2>7
<1> QED
  BY <1>2, <1>3

LEMMA OverrideStep ==
  ASSUME NEW list, Len(list) \in Nat
  PROVE  LET t == OverrideTables(list)
         IN  /\ t[0] = <<>>
             /\ \A k \in 1..Len(list) : t[k] = Override(t[k - 1], list[k])
<1> DEFINE t == OverrideTables(list)
<1>1. PICK f : f = [k \in 0..Len(list) |-> IF k = 0 THEN <<>> ELSE Override(f[k - 1], list[k])]
  BY OverrideTableExists DEF IsOverrideTable
<1>2. t = [k \in 0..Len(list) |-> IF k = 0 THEN <<>> ELSE Override(t[k - 1], list[k])]
  BY <1>1, Zenon DEF OverrideTables
<1> HIDE DEF t
<1>3. \A k \in 0..Len(list) : t[k] = IF k = 0 THEN <<>> ELSE Override(t[k - 1], list[k])
  BY <1>2
<1>4. t[0] = <<>>
  BY <1>3
<1>5. \A k \in 1..Len(list) : t[k] = Override(t[k - 1], list[k])
  BY <1>3
<1> QED
  BY <1>4, <1>5 DEF t

(* The paths the first n calls are about. *)
NamedIn(list, n) == {list[m].path : m \in 1..n}

(* What a table says of a path is what the last call about it said; when     *)
(* there is room for all, every path of the list is in it.                   *)
TableInv(list, n) ==
  LET entries == OverrideTables(list)[n]
  IN  /\ IsFiniteSet(DOMAIN entries) /\ Cardinality(DOMAIN entries) <= MaxPaths
      /\ DOMAIN entries \subseteq NamedIn(list, n)
      /\ \A p \in DOMAIN entries : \E m \in 1..n :
           /\ list[m].path = p /\ entries[p] = list[m].reading
           /\ \A k \in (m + 1)..n : list[k].path # p
      /\ Cardinality(NamedIn(list, Len(list))) <= MaxPaths => DOMAIN entries = NamedIn(list, n)

LEMMA NamedFinite ==
  ASSUME NEW list, NEW n \in Nat
  PROVE  IsFiniteSet(NamedIn(list, n)) /\ Cardinality(NamedIn(list, n)) <= n
<1> DEFINE f == [m \in 1..n |-> list[m].path]
<1>1. IsFiniteSet(1..n) /\ Cardinality(1..n) = n
  BY FS_Interval
<1>2. f \in Surjection(1..n, NamedIn(list, n))
  BY DEF NamedIn, Surjection
<1> HIDE DEF f
<1> QED
  BY <1>1, <1>2, FS_Surjection

LEMMA OverrideKeeps ==
  ASSUME NEW list, Len(list) \in Nat, NEW n \in 1..Len(list), TableInv(list, n - 1)
  PROVE  TableInv(list, n)
<1> DEFINE old == OverrideTables(list)[n - 1]
           new == OverrideTables(list)[n]
           o == list[n]
<1>1. n \in Nat /\ n - 1 \in Nat /\ MaxPaths \in Nat
  BY ControllerAssumption
<1>2. new = Override(old, o)
  BY OverrideStep
<1>3. NamedIn(list, n) = NamedIn(list, n - 1) \cup {o.path}
  BY <1>1 DEF NamedIn
<1>4. /\ IsFiniteSet(DOMAIN old) /\ Cardinality(DOMAIN old) <= MaxPaths
      /\ DOMAIN old \subseteq NamedIn(list, n - 1)
      /\ Cardinality(NamedIn(list, Len(list))) <= MaxPaths => DOMAIN old = NamedIn(list, n - 1)
      /\ \A p \in DOMAIN old : \E m \in 1..(n - 1) :
           /\ list[m].path = p /\ old[p] = list[m].reading
           /\ \A k \in (m + 1)..(n - 1) : list[k].path # p
  BY DEF TableInv
<1>5. Cardinality(DOMAIN old) \in Nat
  BY <1>4, FS_CardinalityType
<1> HIDE DEF old, new, o
<1>6. CASE o.path \in DOMAIN old \/ Cardinality(DOMAIN old) < MaxPaths
  <2>1. new = [p \in DOMAIN old \cup {o.path} |-> IF p = o.path THEN o.reading ELSE old[p]]
    BY <1>2, <1>6 DEF Override
  <2>2. IsFiniteSet(DOMAIN new) /\ Cardinality(DOMAIN new) <= MaxPaths
    <3>1. DOMAIN new = DOMAIN old \cup {o.path}
      BY <2>1
    <3>2. CASE o.path \in DOMAIN old
      <4>1. DOMAIN new = DOMAIN old
        BY <3>1, <3>2
      <4> QED
        BY <1>4, <4>1
    <3>3. CASE o.path \notin DOMAIN old
      <4>1. /\ IsFiniteSet(DOMAIN old \cup {o.path})
            /\ Cardinality(DOMAIN old \cup {o.path}) = Cardinality(DOMAIN old) + 1
        BY <1>4, <3>3, FS_AddElement
      <4>2. Cardinality(DOMAIN old) + 1 <= MaxPaths
        BY <1>1, <1>5, <1>6, <3>3
      <4> QED
        BY <3>1, <4>1, <4>2
    <3> QED
      BY <3>2, <3>3
  <2>3. DOMAIN new \subseteq NamedIn(list, n)
    BY <1>3, <1>4, <2>1
  <2>4. Cardinality(NamedIn(list, Len(list))) <= MaxPaths => DOMAIN new = NamedIn(list, n)
    BY <1>3, <1>4, <2>1
  <2>5. ASSUME NEW p \in DOMAIN new
        PROVE  \E m \in 1..n : /\ list[m].path = p /\ new[p] = list[m].reading
                               /\ \A k \in (m + 1)..n : list[k].path # p
    <3>1. CASE p = o.path
      <4>1. list[n].path = p /\ new[p] = list[n].reading
        BY <2>1, <3>1 DEF o
      <4> QED
        BY <1>1, <4>1
    <3>2. CASE p # o.path
      <4>1. p \in DOMAIN old /\ new[p] = old[p]
        BY <2>1, <3>2
      <4>2. PICK m \in 1..(n - 1) : /\ list[m].path = p /\ old[p] = list[m].reading
                                    /\ \A k \in (m + 1)..(n - 1) : list[k].path # p
        BY <1>4, <4>1
      <4>3. \A k \in (m + 1)..n : list[k].path # p
        BY <1>1, <3>2, <4>2 DEF o
      <4> QED
        BY <1>1, <4>1, <4>2, <4>3
    <3> QED
      BY <3>1, <3>2
  <2> QED
    BY <2>2, <2>3, <2>4, <2>5 DEF TableInv, new
<1>7. CASE ~ (o.path \in DOMAIN old \/ Cardinality(DOMAIN old) < MaxPaths)
  <2>1. new = old
    BY <1>2, <1>7 DEF Override
  <2>2. ASSUME Cardinality(NamedIn(list, Len(list))) <= MaxPaths PROVE FALSE
    <3>1. Cardinality(NamedIn(list, n)) = Cardinality(DOMAIN old) + 1
      <4>1. NamedIn(list, n) = DOMAIN old \cup {o.path}
        BY <1>3, <1>4, <2>2
      <4> QED
        BY <1>4, <1>7, <4>1, FS_AddElement
    <3>2. NamedIn(list, n) \subseteq NamedIn(list, Len(list))
      BY <1>1 DEF NamedIn
    <3>3. /\ IsFiniteSet(NamedIn(list, Len(list)))
          /\ Cardinality(NamedIn(list, n)) <= Cardinality(NamedIn(list, Len(list)))
          /\ Cardinality(NamedIn(list, Len(list))) \in Nat
      BY <3>2, NamedFinite, FS_Subset, FS_CardinalityType
    <3> QED
      BY <1>1, <1>5, <1>7, <2>2, <3>1, <3>3
  <2>3. ASSUME NEW p \in DOMAIN new
        PROVE  \E m \in 1..n : /\ list[m].path = p /\ new[p] = list[m].reading
                               /\ \A k \in (m + 1)..n : list[k].path # p
    <3>1. p # o.path
      BY <1>7, <2>1
    <3>2. PICK m \in 1..(n - 1) : /\ list[m].path = p /\ old[p] = list[m].reading
                                  /\ \A k \in (m + 1)..(n - 1) : list[k].path # p
      BY <1>4, <2>1
    <3>3. \A k \in (m + 1)..n : list[k].path # p
      BY <1>1, <3>1, <3>2 DEF o
    <3> QED
      BY <1>1, <2>1, <3>2, <3>3
  <2> QED
    BY <1>3, <1>4, <2>1, <2>2, <2>3 DEF TableInv, new
<1> QED
  BY <1>6, <1>7

LEMMA TableIsLast ==
  ASSUME NEW list, Len(list) \in Nat
  PROVE  TableInv(list, Len(list))
<1> DEFINE Bad == {n \in 0..Len(list) : ~ TableInv(list, n)}
<1> SUFFICES ASSUME Bad # {} PROVE FALSE
  OBVIOUS
<1>1. PICK n \in Bad : \A k \in Bad : n <= k
  <2>1. Bad \in SUBSET Nat
    OBVIOUS
  <2> HIDE DEF Bad
  <2> QED
    BY <2>1, LeastNumber
<1>2. CASE n = 0
  <2>1. OverrideTables(list)[0] = <<>> /\ DOMAIN <<>> = {}
    BY OverrideStep
  <2>2. NamedIn(list, 0) = {} /\ MaxPaths \in Nat
    BY ControllerAssumption DEF NamedIn
  <2>3. TableInv(list, 0)
    BY <2>1, <2>2, FS_EmptySet DEF TableInv
  <2> QED
    BY <1>1, <1>2, <2>3
<1>3. CASE n # 0
  <2>1. n \in 1..Len(list) /\ n - 1 \in 0..Len(list) /\ n - 1 \notin Bad
    BY <1>1, <1>3
  <2> QED
    BY <1>1, <2>1, OverrideKeeps
<1> QED
  BY <1>2, <1>3

(* Whether a path is in the table, and what the table says of it, when there *)
(* is room for all the paths the calls are about.                            *)
LEMMA OverrideFound ==
  ASSUME NEW list, Len(list) \in Nat,
         Cardinality(NamedIn(list, Len(list))) <= MaxPaths
  PROVE  /\ DOMAIN Overrides(list) = NamedIn(list, Len(list))
         /\ \A m \in 1..Len(list) :
              (\A k \in (m + 1)..Len(list) : list[k].path # list[m].path) =>
                Overrides(list)[list[m].path] = list[m].reading
<1> DEFINE entries == Overrides(list)
<1>1. /\ DOMAIN entries = NamedIn(list, Len(list))
      /\ \A p \in DOMAIN entries : \E m \in 1..Len(list) :
           /\ list[m].path = p /\ entries[p] = list[m].reading
           /\ \A k \in (m + 1)..Len(list) : list[k].path # p
  BY TableIsLast DEF TableInv, Overrides
<1> HIDE DEF entries
<1>2. ASSUME NEW m \in 1..Len(list),
             \A k \in (m + 1)..Len(list) : list[k].path # list[m].path
      PROVE  entries[list[m].path] = list[m].reading
  <2>1. list[m].path \in DOMAIN entries
    BY <1>1 DEF NamedIn
  <2>2. PICK j \in 1..Len(list) :
          /\ list[j].path = list[m].path /\ entries[list[m].path] = list[j].reading
          /\ \A k \in (j + 1)..Len(list) : list[k].path # list[m].path
    BY <1>1, <2>1
  <2>3. ~ (j < m) /\ ~ (m < j)
    BY <1>2, <2>2
  <2>4. j = m
    BY <2>3
  <2> QED
    BY <2>2, <2>4
<1> QED
  BY <1>1, <1>2 DEF entries

LEMMA UnderOverridesType ==
  ASSUME NEW list, Len(list) \in Nat, \A n \in 1..Len(list) : list[n].reading \in Readings
  PROVE  UnderOverrides(list) \in [Paths -> Readings]
<1> DEFINE entries == Overrides(list)
<1>1. \A p \in DOMAIN entries : entries[p] \in Readings
  BY TableIsLast DEF TableInv, Overrides
<1>2. \A p \in Paths : HealthyReading(p) \in Readings
  BY MockAssumption
<1>3. UnderOverrides(list) =
        [p \in Paths |-> IF p \in DOMAIN entries THEN entries[p] ELSE HealthyReading(p)]
  BY DEF UnderOverrides
<1> HIDE DEF entries
<1> QED
  BY <1>1, <1>2, <1>3

(* set_failed_health for each of the failed paths: they are down, the others *)
(* are healthy.                                                              *)
FailedList(failed) == [n \in DOMAIN failed |-> FailedOverride(failed[n])]

LEMMA FailedListReadings ==
  ASSUME NEW failed, failed \in Seq(Range(failed))
  PROVE  /\ Len(FailedList(failed)) = Len(failed) /\ Len(failed) \in Nat
         /\ UnderOverrides(FailedList(failed)) \in [Paths -> Readings]
         /\ Len(failed) <= MaxPaths =>
              UnderOverrides(FailedList(failed)) = FailedReadings(Range(failed))
<1> DEFINE list == FailedList(failed)
           size == Len(failed)
<1>1. size \in Nat /\ DOMAIN failed = 1..size
  OBVIOUS
<1>2. list = [n \in 1..size |-> FailedOverride(failed[n])]
  BY <1>1 DEF FailedList
<1>3. Len(list) = size
  BY <1>1, <1>2
<1>4. \A n \in 1..size : list[n].path = failed[n] /\ list[n].reading = FailedReading
  BY <1>2 DEF FailedOverride
<1>5. UnderOverrides(list) \in [Paths -> Readings]
  <2>1. \A n \in 1..size : list[n].reading \in Readings
    BY <1>4, MockAssumption
  <2> HIDE DEF list, size
  <2> QED
    BY <1>1, <1>3, <2>1, UnderOverridesType
<1>6. ASSUME size <= MaxPaths PROVE UnderOverrides(list) = FailedReadings(Range(failed))
  <2>1. NamedIn(list, size) = Range(failed)
    BY <1>1, <1>4 DEF NamedIn, Range
  <2>2. Cardinality(NamedIn(list, size)) <= MaxPaths
    <3>1. /\ Cardinality(NamedIn(list, size)) <= size
          /\ Cardinality(NamedIn(list, size)) \in Nat /\ MaxPaths \in Nat
      BY <1>1, NamedFinite, FS_CardinalityType, ControllerAssumption
    <3> HIDE DEF list, size
    <3> QED
      BY <1>1, <1>6, <3>1
  <2> DEFINE entries == Overrides(list)
  <2>3. /\ DOMAIN entries = Range(failed)
        /\ \A p \in DOMAIN entries : \E m \in 1..size : entries[p] = list[m].reading
    BY <1>1, <1>3, <2>1, <2>2, TableIsLast DEF TableInv, Overrides
  <2>4. \A p \in DOMAIN entries : entries[p] = FailedReading
    BY <1>4, <2>3
  <2>5. UnderOverrides(list) =
          [p \in Paths |-> IF p \in DOMAIN entries THEN entries[p] ELSE HealthyReading(p)]
    BY DEF UnderOverrides
  <2> HIDE DEF entries, list, size
  <2> QED
    BY <2>3, <2>4, <2>5 DEF FailedReadings
<1> QED
  BY <1>1, <1>3, <1>5, <1>6

------------------------------------------------------------------------------
(* The options of a run. *)

(* What a named step sets and what it keeps of the command's options.        *)
SetsFor(o, base, step) ==
  /\ o.expected = StepGoal(step) /\ o.expected # NoPath
  /\ o.explain = base.explain /\ o.generate = FALSE
  /\ \/ o.injected = <<>>
     \/ o.injected = << Injected("path-direct", "healthy", 80, 5),
                        Injected("path-via-relay-c", "healthy", 30, 1),
                        Injected("path-via-hub", "healthy", 50, 2) >>

LEMMA StepSets ==
  ASSUME NEW base, DOMAIN base = DOMAIN NoOptions, NEW step \in StepNames
  PROVE  SetsFor(StepOptions(base, step), base, step)
<1> DEFINE fresh == [base EXCEPT !.active = NoPath, !.failed = NoPath, !.expected = NoPath,
                                 !.injected = <<>>, !.generate = FALSE]
           o == StepOptions(base, step)
<1>1. {"active", "failed", "expected", "injected", "generate", "explain", "mode", "order"}
        \subseteq DOMAIN base
  BY DEF NoOptions
<1>2. /\ DOMAIN fresh = DOMAIN base /\ fresh.injected = <<>>
      /\ fresh.explain = base.explain /\ fresh.generate = FALSE
  BY <1>1
<1>3. CASE step = "direct-ok"
  <2>1. o = [fresh EXCEPT !.expected = "path-direct"] /\ StepGoal(step) = "path-direct"
    BY <1>3 DEF StepOptions, StepGoal
  <2> HIDE DEF o, fresh
  <2> QED
    BY <1>1, <1>2, <2>1, StepAssumption DEF o, SetsFor
<1>4. CASE step \in {"direct-failed", "fallback"}
  <2>1. /\ o = [fresh EXCEPT !.active = "path-direct", !.failed = "path-direct",
                             !.expected = "path-via-hub"]
        /\ StepGoal(step) = "path-via-hub"
    BY <1>4 DEF StepOptions, StepGoal
  <2> HIDE DEF o, fresh
  <2> QED
    BY <1>1, <1>2, <2>1, StepAssumption DEF o, SetsFor
<1>5. CASE step \in {"direct-recovered", "recovery"}
  <2>1. /\ o = [fresh EXCEPT !.active = "path-via-hub", !.expected = "path-direct"]
        /\ StepGoal(step) = "path-direct"
    BY <1>5 DEF StepOptions, StepGoal
  <2> HIDE DEF o, fresh
  <2> QED
    BY <1>1, <1>2, <2>1, StepAssumption DEF o, SetsFor
<1>6. CASE step = "relay-best"
  <2> DEFINE three == << Injected("path-direct", "healthy", 80, 5),
                         Injected("path-via-relay-c", "healthy", 30, 1),
                         Injected("path-via-hub", "healthy", 50, 2) >>
             order == <<"packet_loss", "latency", "hop_count", "path_id">>
  <2>1. /\ o = [fresh EXCEPT !.mode = "evaluated", !.expected = "path-via-relay-c",
                             !.order = order, !.injected = three]
        /\ StepGoal(step) = "path-via-relay-c"
    BY <1>6 DEF StepOptions, StepGoal
  <2> HIDE DEF o, fresh, order, three
  <2>2. /\ o.expected = "path-via-relay-c" /\ o.injected = three
        /\ o.explain = base.explain /\ o.generate = FALSE
    BY <1>1, <1>2, <2>1
  <2> QED
    BY <2>1, <2>2, StepAssumption DEF o, three, SetsFor
<1> QED
  BY <1>3, <1>4, <1>5, <1>6 DEF StepNames

(* Where the options of a run come from. *)
LEMMA RunOptionsOf ==
  ASSUME NEW c \in Invocations, NEW o \in RunOptions(c)
  PROVE  /\ o \in HarnessOptions
         /\ c.program = "eventnet_scenario" /\ ~ BadArguments(c)
         /\ c.steps \in Seq(Range(c.steps))
         /\ c.steps = <<>> => o = c.options
         /\ c.steps # <<>> => o.generate = FALSE
<1>1. c.program = "eventnet_scenario" /\ ~ BadArguments(c)
  BY DEF RunOptions
<1>2. o \in HarnessOptions
  BY DEF HarnessOptions
<1>3. /\ c.steps \in Seq(Range(c.steps))
      /\ DOMAIN c.options = DOMAIN NoOptions
  BY <1>1, InvocationAssumption
<1>4. c.steps = <<>> => o = c.options
  BY <1>1 DEF RunOptions
<1>5. ASSUME c.steps # <<>> PROVE o.generate = FALSE
  <2>1. PICK step \in StepNames : o = StepOptions(c.options, step)
    BY <1>1, <1>5 DEF RunOptions
  <2> QED
    BY <1>3, <2>1, StepSets DEF SetsFor
<1> QED
  BY <1>1, <1>2, <1>3, <1>4, <1>5

LEMMA InjectedAreNamed ==
  ASSUME NEW o \in HarnessOptions
  PROVE  /\ o.injected \in Seq(Range(o.injected))
         /\ \A n \in DOMAIN o.injected : o.injected[n].path # NoPath
<1>1. o.injected \in Seq(Range(o.injected))
  BY InvocationAssumption
<1>2. PICK c \in Invocations : o \in RunOptions(c)
  BY DEF HarnessOptions
<1>3. c.program = "eventnet_scenario" /\ ~ BadArguments(c)
  BY <1>2, RunOptionsOf
<1>4. CASE c.steps = <<>>
  <2>1. o = c.options
    BY <1>2, <1>4, RunOptionsOf
  <2>2. \A h \in Range(o.injected) : h.path # NoPath
    BY <1>3, <2>1 DEF BadArguments
  <2>3. \A n \in DOMAIN o.injected : o.injected[n] \in Range(o.injected)
    BY DEF Range
  <2> QED
    BY <1>1, <2>2, <2>3
<1>5. CASE c.steps # <<>>
  <2>1. PICK step \in StepNames : o = StepOptions(c.options, step)
    BY <1>2, <1>3, <1>5 DEF RunOptions
  <2>2. DOMAIN c.options = DOMAIN NoOptions
    BY <1>3, InvocationAssumption
  <2>3. SetsFor(o, c.options, step)
    BY <2>1, <2>2, StepSets
  <2>4. CASE o.injected = <<>>
    BY <1>1, <2>4
  <2>5. CASE o.injected = << Injected("path-direct", "healthy", 80, 5),
                             Injected("path-via-relay-c", "healthy", 30, 1),
                             Injected("path-via-hub", "healthy", 50, 2) >>
    <3>1. ASSUME NEW n \in DOMAIN o.injected
          PROVE  o.injected[n].path \in {"path-direct", "path-via-relay-c", "path-via-hub"}
      <4>1. n \in {1, 2, 3}
        BY <2>5
      <4> QED
        BY <2>5, <4>1 DEF Injected
    <3> QED
      BY <1>1, <3>1, StepAssumption
  <2> QED
    BY <2>3, <2>4, <2>5 DEF SetsFor
<1> QED
  BY <1>4, <1>5

(* The calls apply_health_override makes: the injected ones, then the failed *)
(* path.                                                                     *)
LEMMA OverridesOfShape ==
  ASSUME NEW o, o.injected \in Seq(Range(o.injected))
  PROVE  LET size == Len(o.injected)
             list == OverridesOf(o)
         IN  /\ size \in Nat /\ DOMAIN o.injected = 1..size
             /\ Len(list) = IF o.failed = NoPath THEN size ELSE size + 1
             /\ DOMAIN list = 1..Len(list)
             /\ \A n \in 1..size : list[n] = InjectedOverride(o.injected[n])
             /\ o.failed # NoPath =>
                  list[size + 1] = InjectedOverride(Injected(o.failed, "failed", Missing, Missing))
<1> DEFINE size == Len(o.injected)
           first == [n \in DOMAIN o.injected |-> InjectedOverride(o.injected[n])]
           last == InjectedOverride(Injected(o.failed, "failed", Missing, Missing))
           list == OverridesOf(o)
           Entries == {InjectedOverride(o.injected[n]) : n \in DOMAIN o.injected} \cup {last}
<1>1. size \in Nat /\ DOMAIN o.injected = 1..size
  OBVIOUS
<1>2. first \in Seq(Entries) /\ Len(first) = size
  BY <1>1
<1>3. \A n \in 1..size : first[n] = InjectedOverride(o.injected[n])
  BY <1>1
<1>4. list = first \o (IF o.failed = NoPath THEN <<>> ELSE <<last>>)
  BY DEF OverridesOf, FailedOverrides
<1>5. last \in Entries
  OBVIOUS
<1> HIDE DEF size, first, last, list, Entries
<1>6. CASE o.failed = NoPath
  <2>1. list = first
    BY <1>2, <1>4, <1>6
  <2> QED
    BY <1>1, <1>2, <1>3, <1>6, <2>1 DEF size, list, last
<1>7. CASE o.failed # NoPath
  <2>1. list = first \o <<last>>
    BY <1>4, <1>7
  <2>2. Len(list) = size + 1 /\ DOMAIN list = 1..(size + 1)
    BY <1>2, <1>5, <2>1
  <2>3. list[size + 1] = last /\ \A n \in 1..size : list[n] = first[n]
    BY <1>1, <1>2, <1>5, <2>1
  <2> QED
    BY <1>1, <1>3, <1>7, <2>2, <2>3 DEF size, list, last
<1> QED
  BY <1>6, <1>7

(* A nonempty set of numbers with a bound has a greatest one. *)
LEMMA GreatestNumber ==
  ASSUME NEW n \in Nat, NEW S \in SUBSET Nat, S # {}, \A k \in S : k <= n
  PROVE  \E m \in S : \A k \in S : m >= k
<1> DEFINE Above == {m \in 0..n : \A k \in S : k <= m}
<1>1. Above \in SUBSET Nat /\ n \in Above
  OBVIOUS
<1> HIDE DEF Above
<1>2. PICK m \in Above : \A k \in Above : m <= k
  BY <1>1, LeastNumber
<1>3. m \in Nat /\ m <= n /\ \A k \in S : k <= m
  BY <1>2 DEF Above
<1>4. m \in S
  <2> SUFFICES ASSUME m \notin S PROVE FALSE
    OBVIOUS
  <2>1. m # 0
    <3>1. PICK k \in S : TRUE
      OBVIOUS
    <3> QED
      BY <1>3, <3>1
  <2>2. m - 1 \in Above
    BY <1>3, <2>1 DEF Above
  <2> QED
    BY <1>2, <1>3, <2>2
<1> QED
  BY <1>3, <1>4

(* The network a run is decided in. *)
NetOf(o) == UnderOverrides(OverridesOf(o))

LEMMA HarnessNet ==
  ASSUME NEW o \in HarnessOptions
  PROVE  NetOf(o) \in [Paths -> Readings]
<1>1. o.injected \in Seq(Range(o.injected))
  BY InjectedAreNamed
<1>2. Len(OverridesOf(o)) \in Nat /\ DOMAIN OverridesOf(o) = 1..Len(OverridesOf(o))
  BY <1>1, OverridesOfShape
<1>3. \A n \in 1..Len(OverridesOf(o)) : OverridesOf(o)[n].reading \in Readings
  BY <1>2, InvocationAssumption
<1> QED
  BY <1>2, <1>3, UnderOverridesType DEF NetOf

(* The table says of each path what the reference says: the failure wins     *)
(* over what was injected, and the last injection over the others.           *)
LEMMA HarnessReadings ==
  ASSUME NEW o \in HarnessOptions, AllOverridesFit(o)
  PROVE  NetOf(o) = [p \in Paths |-> ReadingUnder(o, p)]
<1> DEFINE size == Len(o.injected)
           list == OverridesOf(o)
           entries == Overrides(list)
           last == InjectedOverride(Injected(o.failed, "failed", Missing, Missing))
<1>1. /\ o.injected \in Seq(Range(o.injected))
      /\ \A n \in DOMAIN o.injected : o.injected[n].path # NoPath
  BY InjectedAreNamed
<1>2. /\ size \in Nat /\ DOMAIN o.injected = 1..size
      /\ Len(list) = IF o.failed = NoPath THEN size ELSE size + 1
      /\ \A n \in 1..size : list[n] = InjectedOverride(o.injected[n])
      /\ o.failed # NoPath => list[size + 1] = last
  BY <1>1, OverridesOfShape
<1>3. /\ last.path = o.failed
      /\ last.reading = [state |-> "failed", rtt |-> 10, loss |-> AllLost]
  BY DEF InjectedOverride, Injected, InjectedReading, Missing
<1>5. NetOf(o) = [p \in Paths |-> IF p \in DOMAIN entries THEN entries[p] ELSE HealthyReading(p)]
  BY DEF NetOf, UnderOverrides
<1> HIDE DEF list, entries, last, size
<1>4. \A n \in 1..size : /\ list[n].path = o.injected[n].path
                         /\ list[n].reading = InjectedReading(o.injected[n])
  <2> TAKE n \in 1..size
  <2>1. list[n] = InjectedOverride(o.injected[n])
    BY <1>2
  <2>2. list[n] = [path |-> o.injected[n].path, reading |-> InjectedReading(o.injected[n])]
    BY <2>1 DEF InjectedOverride
  <2> QED
    BY <2>2
<1>6. Len(list) \in Nat /\ Len(list) >= size
  BY <1>2
<1>7. NamedIn(list, Len(list)) = ({h.path : h \in Range(o.injected)} \cup {o.failed}) \ {NoPath}
  <2>1. {h.path : h \in Range(o.injected)} = {o.injected[n].path : n \in 1..size}
    BY <1>2 DEF Range
  <2>2. CASE o.failed = NoPath
    <3>1. NamedIn(list, Len(list)) = {o.injected[n].path : n \in 1..size}
      BY <1>2, <1>4, <2>2 DEF NamedIn
    <3>2. NoPath \notin {o.injected[n].path : n \in 1..size}
      BY <1>1, <1>2
    <3> QED
      BY <2>1, <2>2, <3>1, <3>2
  <2>3. CASE o.failed # NoPath
    <3>1. NamedIn(list, Len(list)) = {list[n].path : n \in 1..size} \cup {o.failed}
      BY <1>2, <1>3, <2>3 DEF NamedIn
    <3>2. {list[n].path : n \in 1..size} = {o.injected[n].path : n \in 1..size}
      BY <1>4
    <3>3. NoPath \notin {o.injected[n].path : n \in 1..size}
      BY <1>1, <1>2
    <3> QED
      BY <2>1, <2>3, <3>1, <3>2, <3>3
  <2> QED
    BY <2>2, <2>3
<1>8. /\ DOMAIN entries = NamedIn(list, Len(list))
      /\ \A m \in 1..Len(list) :
           (\A k \in (m + 1)..Len(list) : list[k].path # list[m].path) =>
             entries[list[m].path] = list[m].reading
  BY <1>6, <1>7, OverrideFound DEF AllOverridesFit, entries
<1>9. ASSUME NEW p \in Paths
      PROVE  (IF p \in DOMAIN entries THEN entries[p] ELSE HealthyReading(p)) = ReadingUnder(o, p)
  <2> DEFINE said == {n \in DOMAIN o.injected : o.injected[n].path = p}
  <2>1. p # NoPath
    BY PathsAssumption
  <2>2. CASE p = o.failed
    <3>1. /\ o.failed # NoPath /\ Len(list) = size + 1
          /\ list[size + 1].path = p
          /\ list[size + 1].reading = [state |-> "failed", rtt |-> 10, loss |-> AllLost]
      BY <1>2, <1>3, <2>1, <2>2
    <3>2. p \in DOMAIN entries
      BY <1>7, <1>8, <2>1, <2>2
    <3>3. entries[p] = list[size + 1].reading
      BY <1>2, <1>8, <3>1
    <3> QED
      BY <2>2, <3>1, <3>2, <3>3 DEF ReadingUnder
  <2>3. CASE p # o.failed /\ said # {}
    <3>1. said \in SUBSET Nat /\ IsFiniteSet(said) /\ \A n \in said : n <= size
      <4>1. said \in SUBSET (1..size)
        BY <1>2
      <4>2. IsFiniteSet(1..size)
        BY <1>2, FS_Interval
      <4> QED
        BY <1>2, <4>1, <4>2, FS_Subset
    <3>2. PICK m \in said : \A n \in said : m >= n
      BY <1>2, <2>3, <3>1, GreatestNumber
    <3>3. m = Max(said)
      <4>1. \A n \in said : n \in Nat
        BY <3>1
      <4> HIDE DEF said
      <4>2. \A n \in said : (\A k \in said : n >= k) => n = m
        BY <3>2, <4>1
      <4> QED
        BY <3>2, <4>2 DEF Max
    <3>4. /\ m \in 1..Len(list) /\ list[m].path = p
          /\ list[m].reading = InjectedReading(o.injected[m])
      BY <1>2, <1>4, <1>6, <3>2
    <3>5. \A k \in (m + 1)..Len(list) : list[k].path # p
      <4> TAKE k \in (m + 1)..Len(list)
      <4>1. CASE k \in 1..size
        <5>1. k \notin said
          BY <1>2, <3>2, <3>4, <4>1
        <5> QED
          BY <1>2, <1>4, <4>1, <5>1
      <4>2. CASE k \notin 1..size
        <5>1. k = size + 1 /\ o.failed # NoPath
          BY <1>2, <3>4, <4>2
        <5> QED
          BY <1>2, <1>3, <2>3, <5>1
      <4> QED
        BY <4>1, <4>2
    <3>6. p \in DOMAIN entries /\ entries[p] = list[m].reading
      BY <1>6, <1>8, <3>4, <3>5 DEF NamedIn
    <3> QED
      BY <2>3, <3>3, <3>4, <3>6 DEF ReadingUnder
  <2>4. CASE p # o.failed /\ said = {}
    <3>1. p \notin {h.path : h \in Range(o.injected)}
      BY <2>4 DEF Range
    <3>2. p \notin DOMAIN entries
      BY <1>7, <1>8, <2>4, <3>1
    <3> QED
      BY <2>4, <3>2 DEF ReadingUnder
  <2> QED
    BY <2>2, <2>3, <2>4
<1> QED
  BY <1>5, <1>9

------------------------------------------------------------------------------
(* Answers. *)

LEMMA SoundIsSelected ==
  ASSUME NEW i \in Intents, NEW h, Readable(h), NEW p, SoundAnswer(i, h, p),
         ~ OwnPathUnobserved(i)
  PROVE  p \in {o.path : o \in SelectPath(i, h)}
<1>1. PICK o : SelectPath(i, h) = {o}
  BY IntentType, AnswerIsUnique
<1> QED
  BY <1>1 DEF SoundAnswer

(* How a path that is down is down does not matter. *)
Down(h, p) == h[p] # NoHealth /\ h[p].state = "failed"

LEMMA DownDoesNotMatter ==
  ASSUME NEW i \in Intents, NEW g, NEW h,
         \A p \in Paths : g[p] = h[p] \/ (Down(g, p) /\ Down(h, p))
  PROVE  SelectPath(i, g) = SelectPath(i, h)
<1>1. \A p \in Paths : Excluded(p, g[p], i.limits) <=> Excluded(p, h[p], i.limits)
  <2> TAKE p \in Paths
  <2>1. CASE g[p] = h[p]
    BY <2>1
  <2>2. CASE Down(g, p) /\ Down(h, p)
    <3>1. ExclusionTests(p, g[p], i.limits)[2] /\ ExclusionTests(p, h[p], i.limits)[2]
      BY <2>2 DEF Down, ExclusionTests
    <3> QED
      BY <3>1 DEF Excluded
  <2> QED
    BY <2>1, <2>2
<1>2. \A n : RejectedOf(i, g, n) = RejectedOf(i, h, n)
  BY <1>1 DEF RejectedOf
<1>3. UsableOf(i, g) = UsableOf(i, h)
  BY <1>1 DEF UsableOf
<1>4. \A p \in UsableOf(i, h) : g[p] = h[p]
  <2> TAKE p \in UsableOf(i, h)
  <2>1. p \in Paths /\ ~ Excluded(p, h[p], i.limits)
    BY DEF UsableOf
  <2>2. ASSUME Down(h, p) PROVE FALSE
    <3>1. ExclusionTests(p, h[p], i.limits)[2]
      BY <2>2 DEF Down, ExclusionTests
    <3> QED
      BY <2>1, <3>1 DEF Excluded
  <2> QED
    BY <2>1, <2>2
<1>5. CASE i.mode = "explicit"
  BY <1>1, <1>5 DEF SelectPath, ExplicitOutcome
<1>6. CASE i.mode = "priority"
  <2>1. PriorityStops(i, g) = PriorityStops(i, h) /\ NoneUsable(i, g) = NoneUsable(i, h)
    BY <1>2 DEF PriorityStops, NoneUsable
  <2> QED
    BY <1>6, <2>1 DEF SelectPath, PriorityOutcome
<1>7. CASE i.mode \notin {"explicit", "priority"}
  <2>1. \A p, q \in UsableOf(i, h) : Better(p, q, g, i.order) <=> Better(p, q, h, i.order)
    BY <1>4 DEF Better
  <2>2. BestOf(i, g) = BestOf(i, h)
    BY <1>3, <2>1 DEF BestOf
  <2>3. NoneUsable(i, g) = NoneUsable(i, h)
    BY <1>2 DEF NoneUsable
  <2>4. \A n \in FirstUnknown(i) : RejectedOf(i, g, n - 1) = RejectedOf(i, h, n - 1)
    BY <1>2
  <2>5. RejectedOf(i, g, Len(i.cands)) = RejectedOf(i, h, Len(i.cands))
    BY <1>2
  <2>6. EvaluatedOutcome(i, g) = EvaluatedOutcome(i, h)
    BY <1>3, <2>2, <2>3, <2>4, <2>5 DEF EvaluatedOutcome
  <2> QED
    BY <1>7, <2>6 DEF SelectPath
<1> QED
  BY <1>5, <1>6, <1>7

------------------------------------------------------------------------------
(* The invariant.  It says of every place in the two programs what is known  *)
(* there: the network their controller decides in, whose answer it is, and   *)
(* what the log and the files hold by then.                                  *)

Running == {"starting", "deciding", "reconciling", "generating", "waiting", "recording"}

(* The controller, whichever program runs it. *)
CoreInv == TypeOK /\ DecisionInv /\ AnswerInv

(* The shell and the two programs take turns. *)
ShellInv ==
  /\ at \in Running \cup {"shell", "planning", "stepping"}
  /\ given \in 0..MaxCommands /\ code \in 0..2
  /\ command \in Invocations \cup {Harness(NoOptions, <<>>)}
  /\ options \in HarnessOptions \cup {NoOptions}
  /\ selected \in Paths \cup {NoPath}
  /\ at # "shell" => command \in Invocations
  /\ at \in Running \cup {"stepping"} =>
       command.program = "eventnet_scenario" /\ ~ BadArguments(command)
  /\ at = "planning" => command.program = "eventnet_netns_plan"
  /\ at = "stepping" => command.steps # <<>>
  /\ at \in Running => options \in RunOptions(command)
  /\ IF at \in {"planning", "waiting"} THEN planner.at # "off"
     ELSE planner.at \in {"off", "exited"}
  /\ pc # "idle" => at = "reconciling" \/ planner.at = "calling"

(* The path of a run is the fallback or a sound answer under its options. *)
Chosen(o, p) ==
  /\ RunError(o) = 0 /\ p \in Paths
  /\ IF TakesFallback(o) THEN p = Entry(o).fallback
     ELSE SoundAnswer(ForcedIntent(o), NetOf(o), p)

(* The runtime has been generated for the options and the path of the run. *)
Delivered ==
  /\ planner.at = "exited" /\ planner.code = 0
  /\ planner.args = ChildArguments(options, selected)

RunInv ==
  /\ at \in Running \ {"starting"} => RunError(options) = 0
  /\ at = "deciding" => net = NetOf(options)
  /\ at = "reconciling" =>
       /\ ~ TakesFallback(options)
       /\ before.intent = ForcedIntent(options) /\ before.net = NetOf(options)
       /\ pc = "idle" => reply.key \in Keys
  /\ at \in {"generating", "waiting", "recording"} => Chosen(options, selected)
  /\ at \in {"generating", "waiting"} => options.generate
  /\ at = "waiting" => planner.args = ChildArguments(options, selected)
  /\ (at = "recording" /\ options.generate) => Delivered
  /\ GeneratedAll => Chosen(options, selected) /\ Delivered

(* The generator decides for itself only when it is neither told a path nor  *)
(* takes a fallback.                                                         *)
FailedNet(args) == UnderOverrides(FailedList(args.failed))

Asks(args) == ~ PlanRefuses(args) /\ args.path = NoPath /\ ~ PlanTakesFallback(args)

PlanChosen(args, p) ==
  /\ ~ PlanRefuses(args) /\ p \in Paths
  /\ IF args.path # NoPath THEN p = args.path
     ELSE IF PlanTakesFallback(args) THEN p = PlanIntent(args).fallback
     ELSE SoundAnswer(PlanIntent(args).request, FailedNet(args), p)

PlannerStates ==
  [at : {"off", "choosing", "submitting", "calling", "writing", "exited"},
   args : GeneratorArguments \cup {PlanArguments(NoId, NoId, NoPath, NoPath, <<>>)},
   path : Paths \cup {NoPath}, next : 1..6, code : 0..2]

PlannerInv ==
  /\ planner \in PlannerStates
  /\ planner.at # "off" => planner.args \in GeneratorArguments
  /\ planner.at \in {"choosing", "submitting", "calling"} => planner.next = 1
  /\ planner.at \in {"submitting", "calling"} => Asks(planner.args)
  /\ planner.at = "submitting" => net = FailedNet(planner.args)
  /\ planner.at = "calling" =>
       /\ before.intent = PlanIntent(planner.args).request
       /\ before.net = FailedNet(planner.args)
       /\ pc = "idle" => reply.key \in Keys
  /\ planner.at = "writing" => PlanChosen(planner.args, planner.path)

(* Every file is empty or about some path; the ones a generation has written *)
(* are about its own.                                                        *)
FilesInv ==
  /\ DOMAIN files = Range(FileNames)
  /\ \A name \in Range(FileNames) :
       files[name] = NoFile \/ \E p \in Paths : files[name] = Contents(name, p)
  /\ planner.at = "writing" =>
       \A n \in 1..(planner.next - 1) : files[FileNames[n]] = Contents(FileNames[n], planner.path)
  /\ planner.at = "exited" =>
       IF planner.next <= 5 THEN planner.code = 1
       ELSE /\ PlanChosen(planner.args, planner.path)
            /\ \A n \in 1..5 : files[FileNames[n]] = Contents(FileNames[n], planner.path)
            /\ planner.code = IF RuntimeKind(PathRecord(planner.path)) = "unsupported"
                              THEN 2 ELSE 0

(* The log: its lines are sound, and those of a multi-step run are about the *)
(* steps so far.                                                             *)
LogLines ==
  {e \in [step : StepNames \cup {"single"}, options : HarnessOptions, selected : Paths,
          pass : BOOLEAN] :
     Chosen(e.options, e.selected) /\ (e.pass <=> e.options.expected \in {NoPath, e.selected})}

Stepping == at \in Running \cup {"stepping"} /\ command.steps # <<>>
Done == Len(command.steps) - Len(stepsLeft)

Told(n) ==
  /\ explain[n].step = command.steps[n] /\ explain[n].pass
  /\ explain[n].selected = StepGoal(command.steps[n])

LogInv ==
  /\ explain \in Seq(LogLines)
  /\ Stepping =>
       /\ stepsLeft \in Seq(Range(command.steps)) /\ Len(stepsLeft) <= Len(command.steps)
       /\ \A k \in DOMAIN stepsLeft : stepsLeft[k] = command.steps[Done + k]
       /\ at # "stepping" =>
            /\ Done >= 1 /\ command.steps[Done] \in StepNames
            /\ options = StepOptions(command.options, command.steps[Done])
       /\ command.options.explain =>
            /\ Len(explain) = IF at = "stepping" THEN Done ELSE Done - 1
            /\ \A n \in DOMAIN explain : Told(n)
  /\ LogTellsSteps

ScenarioInv == CoreInv /\ ShellInv /\ RunInv /\ PlannerInv /\ FilesInv /\ LogInv

------------------------------------------------------------------------------
(* The controller keeps its invariant under whatever either program does.    *)

LEMMA CoreNext ==
  ASSUME CoreInv, [Next]_vars
  PROVE  CoreInv'
<1>1. ProbeAdapter = "mock"
  BY MockAssumption
<1>2. TypeOK'
  BY NextType DEF CoreInv
<1>3. DecisionInv'
  BY <1>1, NextDecision DEF CoreInv
<1>4. AnswerInv'
  BY <1>1, NextAnswer DEF CoreInv
<1> QED
  BY <1>2, <1>3, <1>4 DEF CoreInv

LEMMA CoreCreate ==
  ASSUME CoreInv, NEW list, UnderOverrides(list) \in [Paths -> Readings], CreateController(list)
  PROVE  /\ CoreInv' /\ pc' = "idle" /\ net' = UnderOverrides(list)
<1>1. /\ NewController /\ table' = EmptyTable /\ failNext' = FALSE
      /\ net' = UnderOverrides(list) /\ routes' = routes
      /\ before' = [Snapshot(NoIntent) EXCEPT !.net = net', !.applied = EmptyTable,
                                              !.table = EmptyTable]
  BY DEF CreateController
<1>2. /\ pc' = "idle" /\ intent' = NoIntent /\ todo' = <<>> /\ target' = NoPath /\ prev' = NoPath
      /\ reply' = NoReply /\ restarts < MaxRestarts /\ restarts' = restarts + 1
      /\ pathState' = [p \in Paths |-> "unknown"] /\ health' = [p \in Paths |-> NoHealth]
      /\ observed' = {} /\ applied' = EmptyTable /\ transition' = "idle"
      /\ intentCount' = 0 /\ errors' = 0
      /\ audit' = [count |-> 0, event |-> "none", ref |-> NoPath]
  BY <1>1 DEF NewController
<1>3. EmptyTable \in [Keys -> Paths \cup {NoPath}]
  BY DEF EmptyTable
<1>4. AdaptersTypeOK'
  BY <1>1, <1>3 DEF CoreInv, TypeOK, AdaptersTypeOK
<1>5. StateTypeOK'
  BY <1>2, <1>3, CapacitiesType DEF StateTypeOK, PathStates, TransitionStates, AuditLogs
<1>6. CallTypeOK'
  BY <1>2 DEF CallTypeOK, ProgramCounters
<1>7. reply' \in Answers
  BY <1>2 DEF NoReply, Answer, Answers, ErrorCodes
<1>8. before' \in BeforeRecords
  <2>1. routes \in [FibPrefixes -> Paths \cup {NoPath}]
    BY DEF CoreInv, TypeOK, AdaptersTypeOK
  <2>2. before' = [intent |-> NoIntent, net |-> net', applied |-> EmptyTable,
                   table |-> EmptyTable, routes |-> routes]
    BY <1>1 DEF Snapshot
  <2> QED
    BY <1>1, <1>3, <2>1, <2>2 DEF BeforeRecords
<1>9. restarts' \in 0..MaxRestarts
  BY <1>2, CapacitiesType DEF CoreInv, TypeOK
<1>10. TypeOK'
  BY <1>4, <1>5, <1>6, <1>7, <1>8, <1>9 DEF TypeOK
<1>11. reply'.key \notin Keys
  BY <1>2, ControllerAssumption DEF NoReply, Answer
<1>12. DecisionInv'
  BY <1>2, <1>11 DEF DecisionInv, CallInv, DecisionIsCurrent, Answered
<1>13. AnswerInv'
  BY <1>2, <1>11 DEF AnswerInv, AnswersAreSound, Answered, Validated
<1> QED
  BY <1>1, <1>2, <1>10, <1>12, <1>13 DEF CoreInv

LEMMA CoreSubmit ==
  ASSUME CoreInv, NEW i \in Intents, Submit(i)
  PROVE  /\ CoreInv' /\ pc' = "observing"
         /\ before'.intent = i /\ before'.net = net
<1>1. CoreInv'
  BY CoreNext DEF Next
<1>2. pc' = "observing" /\ before' = Snapshot(i)
  BY DEF Submit
<1> QED
  BY <1>1, <1>2 DEF Snapshot

LEMMA CoreCall ==
  ASSUME CoreInv, CallStep
  PROVE  /\ CoreInv' /\ before' = before /\ pc # "idle"
         /\ pc' = "idle" => reply'.key \in Keys
<1>1. CoreInv'
  BY CoreNext DEF Next
<1>2. pc # "idle" => intent.key \in Keys
  BY IntentKey DEF CoreInv, TypeOK, CallTypeOK
<1>3. ASSUME NEW err, NEW path, EndCall(err, path)
      PROVE  before' = before /\ reply'.key = intent.key
  BY <1>3 DEF EndCall, Answer
<1>4. CASE ObserveOne \/ Select \/ EnsureTunnel \/ Prepared \/ Validate
           \/ CommitImmediate \/ CommitGraceful \/ PauseEnds \/ DrainEnds \/ Switch
  BY <1>1, <1>4 DEF ObserveOne, Select, EnsureTunnel, Prepared, Validate, CommitImmediate,
     CommitGraceful, PauseEnds, DrainEnds, Switch, Goto, clientVars
<1>5. CASE ObserveUnknown \/ ObserveFails \/ SelectFails \/ Confirm
  BY <1>1, <1>2, <1>3, <1>5 DEF ObserveUnknown, ObserveFails, SelectFails, Confirm
<1>6. CASE EnsureFails \/ ObservedFull \/ ProbeFails \/ ValidationFails \/ CommitReserved
           \/ SwitchFails \/ ConfirmFails
  BY <1>1, <1>2, <1>3, <1>6 DEF EnsureFails, ObservedFull, ProbeFails, ValidationFails,
     CommitReserved, SwitchFails, ConfirmFails, Fail
<1> QED
  BY <1>4, <1>5, <1>6 DEF CallStep

------------------------------------------------------------------------------
(* The steps of eventnet_netns_plan. *)

LEMMA FileCount ==
  /\ Len(FileNames) = 5 /\ Range(FileNames) = {FileNames[n] : n \in 1..5}
  /\ \A m, n \in 1..5 : FileNames[m] = FileNames[n] => m = n
<1>1. Len(FileNames) = 5 /\ DOMAIN FileNames = 1..5
  BY DEF FileNames
<1>2. \A m, n \in 1..5 : FileNames[m] = FileNames[n] => m = n
  BY DEF FileNames
<1> QED
  BY <1>1, <1>2 DEF Range

(* The failed paths an invocation lists, or the harness hands on. *)
LEMMA FailedAreListed ==
  ASSUME NEW args \in GeneratorArguments
  PROVE  args.failed \in Seq(Range(args.failed))
<1>1. CASE args \in {c.args : c \in {d \in Invocations : d.program = "eventnet_netns_plan"}}
  BY <1>1, InvocationAssumption
<1>2. CASE args \in {ChildArguments(o, p) : o \in HarnessOptions, p \in Paths}
  <2>1. PICK o \in HarnessOptions, p \in Paths : args = ChildArguments(o, p)
    BY <1>2
  <2>2. args.failed = <<>> \/ args.failed = <<o.failed>>
    BY <2>1 DEF ChildArguments, PlanArguments
  <2>3. <<o.failed>> \in Seq({o.failed}) /\ Range(<<o.failed>>) = {o.failed}
    BY DEF Range
  <2>4. CASE args.failed = <<>>
    BY <2>4
  <2>5. CASE args.failed = <<o.failed>>
    BY <2>3, <2>5
  <2> QED
    BY <2>2, <2>4, <2>5
<1> QED
  BY <1>1, <1>2 DEF GeneratorArguments

(* While the generator does not run, its state and its files do not depend   *)
(* on the controller.                                                        *)
LEMMA PlannerIdle ==
  ASSUME PlannerInv, FilesInv, planner.at \in {"off", "exited"}, UNCHANGED plannerVars
  PROVE  PlannerInv' /\ FilesInv'
<1>1. planner' = planner /\ files' = files
  BY DEF plannerVars
<1>2. PlannerInv'
  BY <1>1 DEF PlannerInv
<1>3. FilesInv'
  BY <1>1 DEF FilesInv
<1> QED
  BY <1>2, <1>3

LEMMA PlannerStarts ==
  ASSUME PlannerInv, FilesInv, NEW args \in GeneratorArguments, PlanStart(args)
  PROVE  PlannerInv' /\ FilesInv' /\ planner'.at = "choosing" /\ planner'.args = args
<1>1. /\ planner' = [at |-> "choosing", args |-> args, path |-> NoPath, next |-> 1, code |-> 0]
      /\ files' = files
  BY DEF PlanStart
<1>2. PlannerInv'
  BY <1>1 DEF PlannerInv, PlannerStates
<1>3. FilesInv'
  BY <1>1 DEF FilesInv
<1> QED
  BY <1>1, <1>2, <1>3

(* What the other invariants need to know of a step of the generator.        *)
PlannerMoved ==
  /\ CoreInv' /\ PlannerInv' /\ FilesInv'
  /\ planner'.args = planner.args /\ planner'.at # "off"
  /\ pc' # "idle" => planner'.at = "calling"

(* A path is chosen, or the program ends, without touching the controller.   *)
LEMMA PlannerChooses ==
  ASSUME CoreInv, PlannerInv, FilesInv, pc = "idle", UNCHANGED <<vars, files>>,
         planner.at \in {"choosing", "calling"},
         \/ PlanExit(1)
         \/ \E p : PlanChosen(planner.args, p) /\ PlanWrites(p)
  PROVE  PlannerMoved
<1>1. CoreInv'
  BY CoreNext
<1>2. planner \in PlannerStates /\ planner.args \in GeneratorArguments /\ planner.next = 1
  BY DEF PlannerInv
<1>3. pc' = "idle" /\ files' = files
  BY DEF vars, callVars
<1>4. CASE PlanExit(1)
  <2>1. planner' = [planner EXCEPT !.at = "exited", !.code = 1]
    BY <1>4 DEF PlanExit
  <2>2. planner' = [at |-> "exited", args |-> planner.args, path |-> planner.path, next |-> 1,
                    code |-> 1]
    BY <1>2, <2>1 DEF PlannerStates
  <2>3. /\ planner' \in PlannerStates /\ planner'.at = "exited" /\ planner'.code = 1
        /\ planner'.args = planner.args /\ planner'.next = 1
    BY <1>2, <2>2 DEF PlannerStates
  <2>4. PlannerInv'
    BY <1>2, <2>3 DEF PlannerInv
  <2>5. FilesInv'
    BY <1>3, <2>3 DEF FilesInv
  <2> QED
    BY <1>1, <1>3, <2>3, <2>4, <2>5 DEF PlannerMoved
<1>5. CASE \E p : PlanChosen(planner.args, p) /\ PlanWrites(p)
  <2>1. PICK p : PlanChosen(planner.args, p) /\ PlanWrites(p)
    BY <1>5
  <2>2. p \in Paths
    BY <2>1 DEF PlanChosen
  <2>3. planner' = [planner EXCEPT !.at = "writing", !.path = p]
    BY <2>1 DEF PlanWrites
  <2>4. /\ planner' \in PlannerStates /\ planner'.at = "writing" /\ planner'.path = p
        /\ planner'.args = planner.args /\ planner'.next = 1
    BY <1>2, <2>2, <2>3 DEF PlannerStates
  <2>5. PlannerInv'
    BY <1>2, <2>1, <2>4 DEF PlannerInv
  <2>6. FilesInv'
    BY <1>3, <2>4 DEF FilesInv
  <2> QED
    BY <1>1, <1>3, <2>4, <2>5, <2>6 DEF PlannerMoved
<1> QED
  BY <1>4, <1>5

LEMMA PlanChoosingStep ==
  ASSUME CoreInv, PlannerInv, FilesInv, pc = "idle", PlanRefused \/ PlanForced \/ PlanFallback
  PROVE  PlannerMoved
<1>1. CASE PlanRefused
  BY <1>1, PlannerChooses DEF PlanRefused, PlanAt
<1>2. CASE PlanForced
  <2>1. ~ PlanRefuses(planner.args) /\ planner.args.path # NoPath
    BY <1>2 DEF PlanForced
  <2>2. planner.args.path \in Paths
    BY <2>1 DEF PlanRefuses
  <2>3. PlanChosen(planner.args, planner.args.path)
    BY <2>1, <2>2 DEF PlanChosen
  <2> QED
    BY <1>2, <2>3, PlannerChooses DEF PlanForced, PlanAt
<1>3. CASE PlanFallback
  <2>1. /\ ~ PlanRefuses(planner.args)
        /\ planner.args.path = NoPath /\ PlanTakesFallback(planner.args)
    BY <1>3 DEF PlanFallback
  <2>2. PlanIntent(planner.args).fallback \in Paths
    BY <2>1 DEF PlanRefuses
  <2>3. PlanChosen(planner.args, PlanIntent(planner.args).fallback)
    BY <2>1, <2>2 DEF PlanChosen
  <2> QED
    BY <1>3, <2>3, PlannerChooses DEF PlanFallback, PlanAt
<1> QED
  BY <1>1, <1>2, <1>3

LEMMA PlanAnsweredStep ==
  ASSUME CoreInv, PlannerInv, FilesInv, PlanAnswered
  PROVE  PlannerMoved
<1>1. /\ planner.at = "calling" /\ pc = "idle" /\ UNCHANGED <<vars, files>>
      /\ IF reply.err = "none" THEN PlanWrites(reply.path) ELSE PlanExit(1)
  BY DEF PlanAnswered, PlanAt
<1>2. /\ Asks(planner.args) /\ reply.key \in Keys
      /\ before.intent = PlanIntent(planner.args).request
      /\ before.net = FailedNet(planner.args)
  BY <1>1 DEF PlannerInv
<1>3. ASSUME reply.err = "none" PROVE PlanChosen(planner.args, reply.path)
  <2>1. SoundAnswer(before.intent, before.net, reply.path)
    BY <1>1, <1>2, <1>3 DEF CoreInv, AnswerInv, AnswersAreSound, Answered
  <2> QED
    BY <1>2, <2>1 DEF PlanChosen, Asks, SoundAnswer
<1> QED
  BY <1>1, <1>3, PlannerChooses

LEMMA PlanCreatesStep ==
  ASSUME CoreInv, PlannerInv, FilesInv, PlanCreates
  PROVE  PlannerMoved
<1> DEFINE args == planner.args
<1>1. /\ planner.at = "choosing" /\ Asks(args) /\ files' = files
      /\ CreateController(FailedList(args.failed))
      /\ planner' = [planner EXCEPT !.at = "submitting"]
  BY DEF PlanCreates, PlanAt, PlanGoto, Asks, FailedList
<1>2. planner \in PlannerStates /\ args \in GeneratorArguments /\ planner.next = 1
  BY <1>1 DEF PlannerInv
<1>3. args.failed \in Seq(Range(args.failed))
  BY <1>2, FailedAreListed
<1>4. CoreInv' /\ pc' = "idle" /\ net' = FailedNet(args)
  BY <1>1, <1>3, FailedListReadings, CoreCreate DEF FailedNet
<1>5. /\ planner' \in PlannerStates /\ planner'.at = "submitting"
      /\ planner'.args = args /\ planner'.next = 1
  BY <1>1, <1>2 DEF PlannerStates
<1>6. PlannerInv'
  BY <1>1, <1>2, <1>4, <1>5 DEF PlannerInv
<1>7. FilesInv'
  BY <1>1, <1>5 DEF FilesInv
<1> QED
  BY <1>4, <1>5, <1>6, <1>7 DEF PlannerMoved

LEMMA PlanSubmitsStep ==
  ASSUME CoreInv, PlannerInv, FilesInv, PlanSubmits
  PROVE  PlannerMoved
<1> DEFINE args == planner.args
           i == PlanIntent(args).request
<1>1. /\ planner.at = "submitting" /\ Submit(i) /\ files' = files
      /\ planner' = [planner EXCEPT !.at = "calling"]
  BY DEF PlanSubmits, PlanAt, PlanGoto
<1>2. /\ planner \in PlannerStates /\ args \in GeneratorArguments /\ planner.next = 1
      /\ Asks(args) /\ net = FailedNet(args)
  BY <1>1 DEF PlannerInv
<1>3. i \in Intents
  BY <1>2, InvocationAssumption DEF Asks, PlanRefuses
<1>4. CoreInv' /\ pc' = "observing" /\ before'.intent = i /\ before'.net = FailedNet(args)
  BY <1>1, <1>2, <1>3, CoreSubmit
<1>5. /\ planner' \in PlannerStates /\ planner'.at = "calling"
      /\ planner'.args = args /\ planner'.next = 1
  BY <1>1, <1>2 DEF PlannerStates
<1>6. PlannerInv'
  BY <1>2, <1>4, <1>5 DEF PlannerInv
<1>7. FilesInv'
  BY <1>1, <1>5 DEF FilesInv
<1> QED
  BY <1>4, <1>5, <1>6, <1>7 DEF PlannerMoved

(* The submission of the generator goes on. *)
LEMMA PlanCallStep ==
  ASSUME CoreInv, PlannerInv, FilesInv, planner.at = "calling", CallStep, UNCHANGED plannerVars
  PROVE  PlannerMoved
<1>1. CoreInv' /\ before' = before /\ (pc' = "idle" => reply'.key \in Keys)
  BY CoreCall
<1>2. planner' = planner /\ files' = files
  BY DEF plannerVars
<1>3. PlannerInv'
  BY <1>1, <1>2 DEF PlannerInv
<1>4. FilesInv'
  BY <1>2 DEF FilesInv
<1> QED
  BY <1>1, <1>2, <1>3, <1>4 DEF PlannerMoved

LEMMA WriteFileStep ==
  ASSUME CoreInv, PlannerInv, FilesInv, pc = "idle", WriteFile
  PROVE  PlannerMoved
<1> DEFINE k == planner.next
           name == FileNames[k]
           p == planner.path
<1>1. /\ planner.at = "writing" /\ k <= 5 /\ UNCHANGED vars
      /\ files' = [files EXCEPT ![name] = Contents(name, p)]
      /\ planner' = [planner EXCEPT !.next = k + 1]
  BY FileCount DEF WriteFile, PlanAt
<1>2. /\ planner \in PlannerStates /\ planner.args \in GeneratorArguments
      /\ PlanChosen(planner.args, p) /\ k \in 1..5
  <2>1. planner \in PlannerStates
    BY DEF PlannerInv
  <2>2. k \in 1..6
    BY <2>1 DEF PlannerStates
  <2> QED
    BY <1>1, <2>1, <2>2 DEF PlannerInv
<1>3. CoreInv' /\ pc' = "idle"
  <2>1. pc' = pc
    BY <1>1 DEF vars, callVars
  <2> QED
    BY <1>1, <2>1, CoreNext
<1>4. planner' = [at |-> "writing", args |-> planner.args, path |-> p, next |-> k + 1,
                  code |-> planner.code]
  BY <1>1, <1>2 DEF PlannerStates
<1>5. /\ planner' \in PlannerStates /\ planner'.at = "writing" /\ planner'.path = p
      /\ planner'.args = planner.args /\ planner'.next = k + 1
  BY <1>2, <1>4 DEF PlannerStates
<1>6. PlannerInv'
  BY <1>2, <1>5 DEF PlannerInv
<1>7. DOMAIN files = Range(FileNames) /\ name \in DOMAIN files /\ p \in Paths
  BY <1>2, FileCount DEF FilesInv, PlanChosen
<1>8. /\ DOMAIN files' = DOMAIN files /\ files'[name] = Contents(name, p)
      /\ \A other \in DOMAIN files : other # name => files'[other] = files[other]
  BY <1>1, <1>7
<1> HIDE DEF k, name, p
<1>9. FilesInv'
  <2>1. ASSUME NEW any \in Range(FileNames)
        PROVE  files'[any] = NoFile \/ \E q \in Paths : files'[any] = Contents(any, q)
    <3>1. files[any] = NoFile \/ \E q \in Paths : files[any] = Contents(any, q)
      BY DEF FilesInv
    <3> QED
      BY <1>7, <1>8, <3>1
  <2>2. ASSUME NEW n \in 1..k
        PROVE  files'[FileNames[n]] = Contents(FileNames[n], p)
    <3>1. CASE n = k
      BY <1>8, <3>1 DEF name
    <3>2. CASE n # k
      <4>1. n \in 1..(k - 1) /\ n \in 1..5
        BY <1>2, <3>2
      <4>2. files[FileNames[n]] = Contents(FileNames[n], p)
        BY <1>1, <4>1 DEF FilesInv, k, p
      <4>3. FileNames[n] # name /\ FileNames[n] \in DOMAIN files
        BY <1>2, <1>7, <3>2, <4>1, FileCount DEF name
      <4> QED
        BY <1>8, <4>2, <4>3
    <3> QED
      BY <3>1, <3>2
  <2>3. (k + 1) - 1 = k
    BY <1>2
  <2> QED
    BY <1>5, <1>7, <1>8, <2>1, <2>2, <2>3 DEF FilesInv
<1> QED
  BY <1>3, <1>5, <1>6, <1>9 DEF PlannerMoved

LEMMA WritingEnds ==
  ASSUME CoreInv, PlannerInv, FilesInv, pc = "idle", WriteFileFails \/ FilesWritten
  PROVE  PlannerMoved
<1> DEFINE result == IF planner.next <= 5 THEN 1
                     ELSE IF RuntimeKind(PathRecord(planner.path)) = "unsupported" THEN 2 ELSE 0
<1>1. planner \in PlannerStates /\ planner.next \in 1..6
  BY DEF PlannerInv, PlannerStates
<1>2. planner.at = "writing" /\ UNCHANGED vars /\ files' = files /\ PlanExit(result)
  BY <1>1, FileCount DEF WriteFileFails, FilesWritten, PlanAt
<1>3. result \in 0..2 /\ (planner.next <= 5 => result = 1)
  OBVIOUS
<1>4. planner.next > 5 => planner.next - 1 = 5
  BY <1>1
<1>5. result = IF planner.next <= 5 THEN 1
               ELSE IF RuntimeKind(PathRecord(planner.path)) = "unsupported" THEN 2 ELSE 0
  OBVIOUS
<1> HIDE DEF result
<1>6. planner' = [at |-> "exited", args |-> planner.args, path |-> planner.path,
                  next |-> planner.next, code |-> result]
  BY <1>1, <1>2 DEF PlanExit, PlannerStates
<1>7. /\ planner' \in PlannerStates /\ planner'.at = "exited" /\ planner'.path = planner.path
      /\ planner'.args = planner.args /\ planner'.next = planner.next
      /\ planner'.code = result
  BY <1>1, <1>3, <1>6 DEF PlannerStates
<1>8. planner.args \in GeneratorArguments /\ PlanChosen(planner.args, planner.path)
  BY <1>2 DEF PlannerInv
<1>9. PlannerInv'
  BY <1>7, <1>8 DEF PlannerInv
<1>10. FilesInv'
  <2>1. planner.next > 5 =>
          \A n \in 1..5 : files[FileNames[n]] = Contents(FileNames[n], planner.path)
    BY <1>2, <1>4 DEF FilesInv
  <2>2. /\ DOMAIN files = Range(FileNames)
        /\ \A name \in Range(FileNames) :
             files[name] = NoFile \/ \E p \in Paths : files[name] = Contents(name, p)
    BY DEF FilesInv
  <2>3. ~ (planner.next <= 5) <=> planner.next > 5
    BY <1>1
  <2> QED
    BY <1>2, <1>5, <1>7, <1>8, <2>1, <2>2, <2>3 DEF FilesInv
<1>11. CoreInv' /\ pc' = "idle"
  <2>1. pc' = pc
    BY <1>2 DEF vars, callVars
  <2> QED
    BY <1>2, <2>1, CoreNext
<1> QED
  BY <1>7, <1>9, <1>10, <1>11 DEF PlannerMoved

LEMMA PlannerSteps ==
  ASSUME CoreInv, PlannerInv, FilesInv, pc # "idle" => planner.at = "calling", PlannerStep
  PROVE  PlannerMoved
<1>1. CASE PlanRefused \/ PlanForced \/ PlanFallback
  <2>1. planner.at = "choosing"
    BY <1>1 DEF PlanRefused, PlanForced, PlanFallback, PlanAt
  <2> QED
    BY <1>1, <2>1, PlanChoosingStep
<1>2. CASE WriteFile
  <2>1. planner.at = "writing"
    BY <1>2 DEF WriteFile, PlanAt
  <2> QED
    BY <1>2, <2>1, WriteFileStep
<1>3. CASE WriteFileFails \/ FilesWritten
  <2>1. planner.at = "writing"
    BY <1>3 DEF WriteFileFails, FilesWritten, PlanAt
  <2> QED
    BY <1>3, <2>1, WritingEnds
<1> QED
  BY <1>1, <1>2, <1>3, PlanCreatesStep, PlanSubmitsStep, PlanAnsweredStep DEF PlannerStep

------------------------------------------------------------------------------
(* The steps of the shell and of eventnet_scenario. *)

LEMMA RestKept ==
  ASSUME CoreInv, PlannerInv, FilesInv, planner.at \in {"off", "exited"},
         UNCHANGED <<vars, plannerVars>>
  PROVE  /\ CoreInv' /\ PlannerInv' /\ FilesInv'
         /\ pc' = pc /\ net' = net /\ before' = before /\ reply' = reply /\ planner' = planner
<1>1. CoreInv'
  BY CoreNext
<1>2. PlannerInv' /\ FilesInv'
  BY PlannerIdle
<1>3. pc' = pc /\ net' = net /\ before' = before /\ reply' = reply /\ planner' = planner
  BY DEF vars, adapterVars, callVars, clientVars, plannerVars
<1> QED
  BY <1>1, <1>2, <1>3

(* A run goes on or ends. *)
LEMMA RunShell ==
  ASSUME ShellInv, at \in Running, at' \in Running \cup {"shell"},
         code' \in 0..2, selected' \in Paths \cup {NoPath},
         command' = command, options' = options, given' = given,
         IF at' = "waiting" THEN planner'.at # "off" ELSE planner'.at \in {"off", "exited"},
         pc' # "idle" => at' = "reconciling" \/ planner'.at = "calling"
  PROVE  ShellInv'
BY DEF ShellInv, Running

LEMMA LogMoves ==
  ASSUME LogInv, at \in Running, at' \in Running,
         UNCHANGED <<command, stepsLeft, options, explain>>
  PROVE  LogInv'
<1>1. Stepping' = Stepping /\ Done' = Done /\ \A n : Told(n)' = Told(n)
  BY DEF Stepping, Done, Told
<1>2. at # "stepping" /\ at' # "stepping"
  BY DEF Running
<1>3. explain' \in Seq(LogLines) /\ LogTellsSteps'
  BY <1>2 DEF LogInv, LogTellsSteps, Over, At, Running
<1> QED
  BY <1>1, <1>2, <1>3 DEF LogInv

LEMMA LogFails ==
  ASSUME LogInv, at \in Running, at' = "shell", code' # 0,
         UNCHANGED <<command, stepsLeft, explain>>
  PROVE  LogInv'
<1>1. ~ Stepping'
  BY DEF Stepping, Running
<1>2. ASSUME Stepping, command.options.explain
      PROVE  /\ Len(explain) <= Len(command.steps) /\ Len(explain) # Len(command.steps)
             /\ \A n \in DOMAIN explain : Told(n)
  <2>1. /\ Len(explain) = Done - 1 /\ \A n \in DOMAIN explain : Told(n)
        /\ stepsLeft \in Seq(Range(command.steps)) /\ Len(stepsLeft) <= Len(command.steps)
    BY <1>2 DEF LogInv, Running
  <2>2. Len(stepsLeft) \in Nat /\ Len(explain) \in Nat
    BY <2>1 DEF LogInv
  <2> QED
    BY <2>1, <2>2 DEF Done
<1>3. LogTellsSteps'
  BY <1>2 DEF LogTellsSteps, Told, Stepping, Running
<1> QED
  BY <1>1, <1>3 DEF LogInv

(* The run ends with an error, wherever it is. *)
LEMMA RunFails ==
  ASSUME ScenarioInv, at \in Running, planner.at \in {"off", "exited"}, pc = "idle",
         NEW c \in {1, 2}, Exit(c),
         UNCHANGED <<vars, plannerVars, runUnchanged, selected, explain>>
  PROVE  ScenarioInv'
<1>1. at' = "shell" /\ code' = c /\ code' # 0 /\ code' \in 0..2
  BY DEF Exit
<1>2. CoreInv' /\ PlannerInv' /\ FilesInv' /\ pc' = "idle" /\ planner' = planner
  BY RestKept DEF ScenarioInv
<1>3. ShellInv'
  BY <1>1, <1>2, RunShell DEF ScenarioInv, ShellInv, runUnchanged
<1>4. RunInv'
  BY <1>1 DEF RunInv, Running, GeneratedAll
<1>5. LogInv'
  BY <1>1, LogFails DEF ScenarioInv, runUnchanged
<1> QED
  BY <1>2, <1>3, <1>4, <1>5 DEF ScenarioInv

(* Between the commands and their steps neither program calls. *)
LEMMA RunIsAlone ==
  ASSUME ShellInv, at \notin {"planning", "waiting"}
  PROVE  planner.at \in {"off", "exited"} /\ (at # "reconciling" => pc = "idle")
BY DEF ShellInv

LEMMA StartStep ==
  ASSUME ScenarioInv, StartFails \/ Start
  PROVE  ScenarioInv'
<1>1. at = "starting" /\ at \in Running /\ planner.at \in {"off", "exited"} /\ pc = "idle"
  BY RunIsAlone DEF StartFails, Start, At, Running, ScenarioInv
<1>2. options \in RunOptions(command) /\ command \in Invocations
  BY <1>1 DEF ScenarioInv, ShellInv, Running
<1>3. options \in HarnessOptions
  BY <1>2, RunOptionsOf
<1>4. CASE StartFails
  <2>1. RunError(options) \in {1, 2}
    BY <1>4 DEF StartFails, RunError
  <2> QED
    BY <1>1, <1>4, <2>1, RunFails DEF StartFails
<1>5. CASE Start
  <2>1. /\ RunError(options) = 0 /\ CreateController(OverridesOf(options)) /\ at' = "deciding"
        /\ UNCHANGED <<plannerVars, runUnchanged, selected, explain, code>>
    BY <1>5 DEF Start, MoveTo
  <2>2. CoreInv' /\ pc' = "idle" /\ net' = NetOf(options)
    BY <1>3, <2>1, HarnessNet, CoreCreate DEF NetOf, ScenarioInv
  <2>3. PlannerInv' /\ FilesInv' /\ planner' = planner
    BY <1>1, <2>1, PlannerIdle DEF ScenarioInv, plannerVars
  <2>4. ShellInv'
    BY <1>1, <2>1, <2>2, <2>3, RunShell DEF ScenarioInv, ShellInv, runUnchanged, Running
  <2>5. RunInv'
    BY <2>1, <2>2 DEF RunInv, GeneratedAll, Over, At, runUnchanged
  <2>6. LogInv'
    BY <1>1, <2>1, LogMoves DEF ScenarioInv, runUnchanged, Running
  <2> QED
    BY <2>2, <2>3, <2>4, <2>5, <2>6 DEF ScenarioInv
<1> QED
  BY <1>4, <1>5

(* A path is decided on, or there is none. *)
LEMMA DecidesStep ==
  ASSUME ScenarioInv, at \in {"deciding", "reconciling"}, pc = "idle", NEW p, Chosen(options, p),
         Decides(p), UNCHANGED <<vars, plannerVars, runUnchanged, explain>>
  PROVE  ScenarioInv'
<1>1. /\ selected' = p /\ p \in Paths /\ code' = code
      /\ at' = IF options.generate THEN "generating" ELSE "recording"
      /\ command' = command /\ stepsLeft' = stepsLeft /\ options' = options /\ given' = given
  BY DEF Decides, MoveTo, runUnchanged, Chosen
<1>2. at \in Running /\ at' \in {"generating", "recording"} /\ planner.at \in {"off", "exited"}
  BY <1>1, RunIsAlone DEF Running, ScenarioInv
<1>3. CoreInv' /\ PlannerInv' /\ FilesInv' /\ pc' = "idle" /\ planner' = planner
  BY <1>2, RestKept DEF ScenarioInv
<1>4. ShellInv'
  BY <1>1, <1>2, <1>3, RunShell DEF ScenarioInv, ShellInv, Running
<1>5. RunInv'
  <2>1. RunError(options) = 0
    BY DEF ScenarioInv, RunInv, Running
  <2> QED
    BY <1>1, <1>2, <2>1 DEF RunInv, GeneratedAll, Over, At
<1>6. LogInv'
  BY <1>1, <1>2, LogMoves DEF ScenarioInv, Running
<1> QED
  BY <1>3, <1>4, <1>5, <1>6 DEF ScenarioInv

LEMMA FallBackStep ==
  ASSUME ScenarioInv, FallBack
  PROVE  ScenarioInv'
<1>1. /\ at = "deciding" /\ TakesFallback(options)
      /\ UNCHANGED <<vars, plannerVars, runUnchanged, explain>>
      /\ IF Entry(options).fallback \in Paths THEN Decides(Entry(options).fallback)
         ELSE Exit(1) /\ UNCHANGED selected
  BY DEF FallBack, At
<1>2. pc = "idle" /\ planner.at \in {"off", "exited"}
  BY <1>1, RunIsAlone DEF ScenarioInv
<1>3. CASE Entry(options).fallback \in Paths
  <2>1. RunError(options) = 0
    BY <1>1 DEF ScenarioInv, RunInv, Running
  <2> QED
    BY <1>1, <1>2, <1>3, <2>1, DecidesStep DEF Chosen
<1>4. CASE Entry(options).fallback \notin Paths
  BY <1>1, <1>2, <1>4, RunFails DEF Running
<1> QED
  BY <1>3, <1>4

LEMMA ReconcileStep ==
  ASSUME ScenarioInv, Reconcile
  PROVE  ScenarioInv'
<1>1. /\ at = "deciding" /\ ~ TakesFallback(options) /\ Submit(ForcedIntent(options))
      /\ at' = "reconciling"
      /\ UNCHANGED <<plannerVars, runUnchanged, selected, explain, code>>
  BY DEF Reconcile, At, MoveTo
<1>2. planner.at \in {"off", "exited"} /\ at \in Running
  BY <1>1, RunIsAlone DEF ScenarioInv, Running
<1>3. RunError(options) = 0 /\ net = NetOf(options) /\ options \in HarnessOptions
  BY <1>1, RunOptionsOf DEF ScenarioInv, RunInv, ShellInv, Running
<1>4. ForcedIntent(options) \in Intents
  BY <1>3, InvocationAssumption
<1>5. CoreInv' /\ pc' = "observing" /\ before'.intent = ForcedIntent(options)
      /\ before'.net = NetOf(options)
  BY <1>1, <1>3, <1>4, CoreSubmit DEF ScenarioInv
<1>6. PlannerInv' /\ FilesInv' /\ planner' = planner
  BY <1>1, <1>2, PlannerIdle DEF ScenarioInv, plannerVars
<1>7. ShellInv'
  BY <1>1, <1>2, <1>6, RunShell DEF ScenarioInv, ShellInv, runUnchanged, Running
<1>8. RunInv'
  BY <1>1, <1>3, <1>5 DEF RunInv, GeneratedAll, Over, At, runUnchanged
<1>9. LogInv'
  BY <1>1, <1>2, LogMoves DEF ScenarioInv, runUnchanged, Running
<1> QED
  BY <1>5, <1>6, <1>7, <1>8, <1>9 DEF ScenarioInv

LEMMA ReconciledStep ==
  ASSUME ScenarioInv, Reconciled
  PROVE  ScenarioInv'
<1>1. /\ at = "reconciling" /\ pc = "idle"
      /\ UNCHANGED <<vars, plannerVars, runUnchanged, explain>>
      /\ IF reply.err = "none" THEN Decides(reply.path) ELSE Exit(1) /\ UNCHANGED selected
  BY DEF Reconciled, At
<1>2. /\ ~ TakesFallback(options) /\ before.intent = ForcedIntent(options)
      /\ before.net = NetOf(options) /\ reply.key \in Keys /\ RunError(options) = 0
  BY <1>1 DEF ScenarioInv, RunInv, Running
<1>3. planner.at \in {"off", "exited"}
  BY <1>1, RunIsAlone DEF ScenarioInv
<1>4. CASE reply.err = "none"
  <2>1. SoundAnswer(before.intent, before.net, reply.path)
    BY <1>1, <1>2, <1>4 DEF ScenarioInv, CoreInv, AnswerInv, AnswersAreSound, Answered
  <2>2. Chosen(options, reply.path)
    BY <1>2, <2>1 DEF Chosen, SoundAnswer
  <2> QED
    BY <1>1, <1>4, <2>2, DecidesStep
<1>5. CASE reply.err # "none"
  BY <1>1, <1>3, <1>5, RunFails DEF Running
<1> QED
  BY <1>4, <1>5

LEMMA GenerateStep ==
  ASSUME ScenarioInv, Generate \/ GenerateFails
  PROVE  ScenarioInv'
<1>1. /\ at = "generating" /\ at \in Running /\ pc = "idle"
      /\ planner.at \in {"off", "exited"}
  BY RunIsAlone DEF Generate, GenerateFails, At, Running, ScenarioInv
<1>2. CASE GenerateFails
  BY <1>1, <1>2, RunFails DEF GenerateFails
<1>3. CASE Generate
  <2> DEFINE args == ChildArguments(options, selected)
  <2>1. /\ PlanStart(args) /\ at' = "waiting"
        /\ UNCHANGED <<runUnchanged, selected, explain, code>> /\ UNCHANGED vars
    BY <1>3 DEF Generate, MoveTo, PlanStart
  <2>2. /\ Chosen(options, selected) /\ RunError(options) = 0 /\ options.generate
        /\ options \in HarnessOptions
    BY <1>1, RunOptionsOf DEF ScenarioInv, RunInv, ShellInv, Running
  <2>3. args \in GeneratorArguments
    BY <2>2 DEF GeneratorArguments, Chosen
  <2>4. PlannerInv' /\ FilesInv' /\ planner'.at = "choosing" /\ planner'.args = args
    BY <2>1, <2>3, PlannerStarts DEF ScenarioInv
  <2>5. CoreInv' /\ pc' = "idle"
    <3>1. pc' = pc
      BY <2>1 DEF vars, callVars
    <3> QED
      BY <1>1, <2>1, <3>1, CoreNext DEF ScenarioInv
  <2>6. ShellInv'
    BY <1>1, <2>1, <2>4, <2>5, RunShell DEF ScenarioInv, ShellInv, runUnchanged, Running
  <2>7. RunInv'
    BY <2>1, <2>2, <2>4 DEF RunInv, GeneratedAll, Over, At, runUnchanged
  <2>8. LogInv'
    BY <1>1, <2>1, LogMoves DEF ScenarioInv, runUnchanged, Running
  <2> QED
    BY <2>4, <2>5, <2>6, <2>7, <2>8 DEF ScenarioInv
<1> QED
  BY <1>2, <1>3

LEMMA GeneratedStep ==
  ASSUME ScenarioInv, Generated
  PROVE  ScenarioInv'
<1>1. /\ at = "waiting" /\ at \in Running /\ planner.at = "exited"
      /\ UNCHANGED <<vars, plannerVars, runUnchanged, selected, explain>>
      /\ IF planner.code = 0 THEN at' = "recording" /\ code' = code ELSE Exit(1)
  BY DEF Generated, At, PlanAt, MoveTo, Running
<1>2. pc = "idle"
  BY <1>1 DEF ScenarioInv, ShellInv
<1>3. CASE planner.code # 0
  BY <1>1, <1>2, <1>3, RunFails
<1>4. CASE planner.code = 0
  <2>1. /\ Chosen(options, selected) /\ RunError(options) = 0
        /\ planner.args = ChildArguments(options, selected)
    BY <1>1 DEF ScenarioInv, RunInv, Running
  <2>2. CoreInv' /\ PlannerInv' /\ FilesInv' /\ pc' = "idle" /\ planner' = planner
    BY <1>1, <1>2, RestKept DEF ScenarioInv
  <2>3. ShellInv'
    BY <1>1, <1>4, <2>2, RunShell DEF ScenarioInv, ShellInv, runUnchanged, Running
  <2>4. RunInv'
    BY <1>1, <1>4, <2>1, <2>2 DEF RunInv, GeneratedAll, Over, At, runUnchanged, Delivered
  <2>5. LogInv'
    BY <1>1, <1>4, LogMoves DEF ScenarioInv, runUnchanged, Running
  <2> QED
    BY <2>2, <2>3, <2>4, <2>5 DEF ScenarioInv
<1> QED
  BY <1>3, <1>4

(* Where a multi-step run is when it records: its options are those of the   *)
(* step it came to, and the log ends with the step before.                   *)
LEMMA RecordsStep ==
  ASSUME ScenarioInv, at \in Running, command.steps # <<>>
  PROVE  /\ Done \in 1..Len(command.steps) /\ Len(command.steps) \in Nat
         /\ StepName = command.steps[Done] /\ StepName \in StepNames
         /\ options.expected = StepGoal(StepName) /\ options.expected # NoPath
         /\ options.explain = command.options.explain
         /\ command.options.explain =>
              Len(explain) = Done - 1 /\ \A n \in DOMAIN explain : Told(n)
<1>1. Stepping /\ at # "stepping"
  BY DEF Stepping, Running
<1>2. /\ stepsLeft \in Seq(Range(command.steps)) /\ Len(stepsLeft) <= Len(command.steps)
      /\ Done >= 1 /\ command.steps[Done] \in StepNames
      /\ options = StepOptions(command.options, command.steps[Done])
      /\ command.options.explain =>
           Len(explain) = Done - 1 /\ \A n \in DOMAIN explain : Told(n)
  BY <1>1 DEF ScenarioInv, LogInv
<1>3. command \in Invocations /\ command.program = "eventnet_scenario"
  BY DEF ScenarioInv, ShellInv, Running
<1>4. /\ command.steps \in Seq(Range(command.steps))
      /\ DOMAIN command.options = DOMAIN NoOptions
  BY <1>3, InvocationAssumption
<1>5. Len(command.steps) \in Nat /\ Len(stepsLeft) \in Nat
  BY <1>2, <1>4
<1>6. Done \in 1..Len(command.steps)
  BY <1>2, <1>5 DEF Done
<1>7. StepName = command.steps[Done]
  BY DEF StepName, Done
<1>8. SetsFor(options, command.options, command.steps[Done])
  BY <1>2, <1>4, StepSets
<1> QED
  BY <1>2, <1>5, <1>6, <1>7, <1>8 DEF SetsFor

(* The line is sound, and the log has one more of them. *)
LEMMA EventIsSound ==
  ASSUME ScenarioInv, at = "recording"
  PROVE  Event \in LogLines
<1>1. Chosen(options, selected) /\ options \in HarnessOptions
  BY RunOptionsOf DEF ScenarioInv, RunInv, ShellInv, Running
<1>2. StepName \in StepNames \cup {"single"}
  <2>1. CASE command.steps = <<>>
    BY <2>1 DEF StepName
  <2>2. CASE command.steps # <<>>
    BY <2>2, RecordsStep DEF Running
  <2> QED
    BY <2>1, <2>2
<1>3. AsExpected \in BOOLEAN /\ (AsExpected <=> options.expected \in {NoPath, selected})
  BY DEF AsExpected
<1>4. /\ Event = [step |-> StepName, options |-> options, selected |-> selected,
                  pass |-> AsExpected]
      /\ selected \in Paths
  BY <1>1 DEF Event, Chosen
<1>5. Event \in [step : StepNames \cup {"single"}, options : HarnessOptions, selected : Paths,
                 pass : BOOLEAN]
  BY <1>1, <1>2, <1>3, <1>4
<1>6. Event.options = options /\ Event.selected = selected /\ (Event.pass <=> AsExpected)
  BY <1>4
<1> QED
  BY <1>1, <1>3, <1>5, <1>6 DEF LogLines

(* The line of a step follows those of the steps before it. *)
LEMMA RecordedLog ==
  ASSUME ScenarioInv, at = "recording", AppendEvent, UNCHANGED runUnchanged,
         at' \in {"shell", "stepping"}, at' = "stepping" => AsExpected /\ command.steps # <<>>,
         (at' = "shell" /\ command.steps # <<>>) => ~ AsExpected /\ code' = 1
  PROVE  LogInv'
<1>1. /\ command' = command /\ stepsLeft' = stepsLeft /\ options' = options
      /\ explain \in Seq(LogLines) /\ Event \in LogLines
      /\ explain' = IF options.explain THEN Append(explain, Event) ELSE explain
  BY EventIsSound DEF runUnchanged, AppendEvent, ScenarioInv, LogInv
<1>2. explain' \in Seq(LogLines)
  BY <1>1
<1>3. at \in Running
  BY DEF Running
<1> DEFINE steps == command.steps
           Tells(n) == explain'[n].step = steps[n] /\ explain'[n].selected = StepGoal(steps[n])
<1>4. ASSUME steps # <<>>, command.options.explain
      PROVE  /\ Len(explain') = Done /\ Done \in 1..Len(steps) /\ Len(steps) \in Nat
             /\ \A n \in 1..Done : explain'[n].step = steps[n]
             /\ \A n \in 1..Done :
                  n # Done \/ AsExpected =>
                    explain'[n].pass /\ explain'[n].selected = StepGoal(steps[n])
             /\ explain'[Done].pass <=> AsExpected
  <2>1. /\ Done \in 1..Len(steps) /\ Len(steps) \in Nat
        /\ StepName = steps[Done]
        /\ options.expected = StepGoal(StepName) /\ options.expected # NoPath
        /\ options.explain = command.options.explain
        /\ Len(explain) = Done - 1 /\ \A n \in DOMAIN explain : Told(n)
    BY <1>3, <1>4, RecordsStep
  <2>2. explain' = Append(explain, Event)
    BY <1>1, <1>4, <2>1
  <2>3. /\ Len(explain') = Done /\ explain'[Done] = Event
        /\ \A n \in 1..(Done - 1) : explain'[n] = explain[n] /\ n \in DOMAIN explain
    BY <1>1, <2>1, <2>2
  <2>4. /\ Event.step = steps[Done] /\ (Event.pass <=> AsExpected)
        /\ AsExpected => Event.selected = StepGoal(steps[Done])
    BY <2>1 DEF Event, AsExpected
  <2>5. \A n \in 1..(Done - 1) : /\ explain'[n].step = steps[n] /\ explain'[n].pass
                                 /\ explain'[n].selected = StepGoal(steps[n])
    BY <2>1, <2>3 DEF Told
  <2>6. \A n \in 1..Done : n # Done => n \in 1..(Done - 1)
    BY <2>1
  <2> HIDE DEF steps
  <2> QED
    BY <2>1, <2>3, <2>4, <2>5, <2>6
<1>5. CASE at' = "stepping"
  <2>1. AsExpected /\ steps # <<>> /\ Stepping /\ Done' = Done
    BY <1>1, <1>3, <1>5 DEF Stepping, Done
  <2>2. /\ stepsLeft \in Seq(Range(steps)) /\ Len(stepsLeft) <= Len(steps)
        /\ \A k \in DOMAIN stepsLeft : stepsLeft[k] = steps[Done + k]
    BY <2>1 DEF ScenarioInv, LogInv
  <2>3. command.options.explain =>
          /\ Len(explain') = Done
          /\ \A n \in DOMAIN explain' : Told(n)'
    <3>1. SUFFICES ASSUME command.options.explain, NEW n \in DOMAIN explain'
                   PROVE  Len(explain') = Done /\ Told(n)'
      BY <1>4, <2>1
    <3>2. n \in 1..Done
      BY <1>2, <1>4, <2>1, <3>1
    <3> QED
      BY <1>1, <1>4, <2>1, <3>1, <3>2 DEF Told
  <2>4. LogTellsSteps'
    BY <1>5 DEF LogTellsSteps, Over, At
  <2> QED
    BY <1>1, <1>2, <1>5, <2>1, <2>2, <2>3, <2>4 DEF LogInv
<1>6. CASE at' = "shell"
  <2>1. ~ Stepping'
    BY <1>6 DEF Stepping, Running
  <2>2. LogTellsSteps'
    <3> SUFFICES ASSUME steps # <<>>, command.options.explain
                 PROVE  /\ Len(explain') <= Len(steps)
                        /\ \A n \in DOMAIN explain' :
                             /\ explain'[n].step = steps[n]
                             /\ n < Len(explain') \/ code' = 0 =>
                                  explain'[n].pass /\ explain'[n].selected = StepGoal(steps[n])
                        /\ code' = 0 <=> Len(explain') = Len(steps) /\ explain'[Len(explain')].pass
      BY <1>1 DEF LogTellsSteps
    <3>1. code' # 0 /\ ~ AsExpected
      BY <1>6
    <3>2. DOMAIN explain' = 1..Done /\ Len(explain') = Done
      BY <1>2, <1>4
    <3> HIDE DEF steps
    <3> QED
      BY <1>4, <3>1, <3>2
  <2> QED
    BY <1>2, <2>1, <2>2 DEF LogInv
<1> QED
  BY <1>5, <1>6

LEMMA RecordStep ==
  ASSUME ScenarioInv, Recorded \/ RecordFails
  PROVE  ScenarioInv'
<1>1. /\ at = "recording" /\ at \in Running /\ pc = "idle"
      /\ planner.at \in {"off", "exited"}
  BY RunIsAlone DEF Recorded, RecordFails, At, Running, ScenarioInv
<1>2. CASE RecordFails
  BY <1>1, <1>2, RunFails DEF RecordFails
<1>3. CASE Recorded
  <2>1. /\ AppendEvent /\ UNCHANGED <<vars, plannerVars, runUnchanged, selected>>
        /\ IF ~ AsExpected THEN at' = "shell" /\ code' = 1
           ELSE IF command.steps = <<>> THEN at' = "shell" /\ code' = 0
                ELSE at' = "stepping" /\ code' = code
    BY <1>3 DEF Recorded, Exit, MoveTo
  <2>2. CoreInv' /\ PlannerInv' /\ FilesInv' /\ pc' = "idle" /\ planner' = planner
    BY <1>1, <2>1, RestKept DEF ScenarioInv
  <2>3. LogInv'
    BY <1>1, <2>1, RecordedLog
  <2>4. Chosen(options, selected) /\ RunError(options) = 0
        /\ (options.generate => Delivered)
    BY <1>1 DEF ScenarioInv, RunInv, Running
  <2>5. ShellInv'
    <3>1. at' \in {"shell", "stepping"} /\ (at' = "stepping" => command.steps # <<>>)
          /\ code' \in 0..2
      BY <2>1 DEF ScenarioInv, ShellInv
    <3>2. command' = command /\ options' = options /\ given' = given /\ selected' = selected
      BY <2>1 DEF runUnchanged
    <3> QED
      BY <1>1, <2>2, <3>1, <3>2 DEF ScenarioInv, ShellInv, Running
  <2>6. RunInv'
    <3>1. options' = options /\ selected' = selected /\ at' \in {"shell", "stepping"}
      BY <2>1 DEF runUnchanged
    <3>2. GeneratedAll' => options.generate
      BY <3>1 DEF GeneratedAll
    <3> QED
      BY <2>2, <2>4, <3>1, <3>2 DEF RunInv, Delivered, Running
  <2> QED
    BY <2>2, <2>3, <2>5, <2>6 DEF ScenarioInv
<1> QED
  BY <1>2, <1>3

LEMMA SteppingStep ==
  ASSUME ScenarioInv, NextStep \/ UnknownStep \/ StepsDone
  PROVE  ScenarioInv'
<1> DEFINE steps == command.steps
<1>1. /\ at = "stepping" /\ planner.at \in {"off", "exited"} /\ pc = "idle"
      /\ UNCHANGED <<vars, plannerVars>>
      /\ command' = command /\ selected' = selected /\ explain' = explain /\ given' = given
  BY RunIsAlone DEF NextStep, UnknownStep, StepsDone, At, ScenarioInv
<1>2. CoreInv' /\ PlannerInv' /\ FilesInv' /\ pc' = "idle" /\ planner' = planner
  BY <1>1, RestKept DEF ScenarioInv
<1>3. /\ command \in Invocations /\ command.program = "eventnet_scenario" /\ steps # <<>>
      /\ ~ BadArguments(command) /\ code \in 0..2
      /\ options \in HarnessOptions \cup {NoOptions} /\ selected \in Paths \cup {NoPath}
      /\ given \in 0..MaxCommands
  BY <1>1 DEF ScenarioInv, ShellInv
<1>4. steps \in Seq(Range(steps)) /\ Len(steps) \in Nat
  BY <1>3, InvocationAssumption
<1>5. /\ stepsLeft \in Seq(Range(steps)) /\ Len(stepsLeft) <= Len(steps)
      /\ \A k \in DOMAIN stepsLeft : stepsLeft[k] = steps[Done + k]
      /\ command.options.explain => Len(explain) = Done /\ \A n \in DOMAIN explain : Told(n)
      /\ explain \in Seq(LogLines)
  BY <1>1, <1>3 DEF ScenarioInv, LogInv, Stepping
<1>6. Len(stepsLeft) \in Nat /\ Done = Len(steps) - Len(stepsLeft)
  BY <1>5 DEF Done
<1>7. CASE NextStep
  <2>1. /\ stepsLeft # <<>> /\ Head(stepsLeft) \in StepNames /\ stepsLeft' = Tail(stepsLeft)
        /\ options' = StepOptions(command.options, Head(stepsLeft))
        /\ at' = "starting" /\ code' = code
    BY <1>7 DEF NextStep, MoveTo
  <2>2. options' \in RunOptions(command)
    BY <1>3, <2>1 DEF RunOptions
  <2>3. options' \in HarnessOptions
    BY <1>3, <2>2, RunOptionsOf
  <2>4. ShellInv'
    BY <1>1, <1>2, <1>3, <2>1, <2>2, <2>3 DEF ShellInv, Running
  <2>5. RunInv'
    BY <2>1 DEF RunInv, GeneratedAll, Over, At
  <2>6. /\ stepsLeft' \in Seq(Range(steps)) /\ Len(stepsLeft') = Len(stepsLeft) - 1
        /\ \A k \in DOMAIN stepsLeft' : stepsLeft'[k] = stepsLeft[k + 1] /\ k + 1 \in DOMAIN stepsLeft
        /\ 1 \in DOMAIN stepsLeft /\ Head(stepsLeft) = stepsLeft[1]
    BY <1>5, <1>6, <2>1
  <2>7. Done' = Done + 1 /\ Done + 1 >= 1 /\ Done \in Nat
    BY <1>1, <1>4, <1>5, <1>6, <2>6 DEF Done
  <2>8. Head(stepsLeft) = steps[Done + 1]
    BY <1>5, <2>6
  <2>9. \A k \in DOMAIN stepsLeft' : stepsLeft'[k] = steps[(Done + 1) + k]
    <3> TAKE k \in DOMAIN stepsLeft'
    <3>1. k \in Nat /\ stepsLeft'[k] = steps[Done + (k + 1)]
      BY <1>5, <2>6
    <3>2. Done + (k + 1) = (Done + 1) + k
      BY <2>7, <3>1
    <3> QED
      BY <3>1, <3>2
  <2>10. \A n : Told(n)' = Told(n)
    BY <1>1 DEF Told
  <2>11. (Done + 1) - 1 = Done
    BY <2>7
  <2>12. LogTellsSteps'
    BY <2>1 DEF LogTellsSteps, Over, At
  <2>13. Len(stepsLeft') <= Len(steps)
    BY <1>4, <1>5, <1>6, <2>6
  <2> HIDE DEF steps
  <2>14. /\ stepsLeft' \in Seq(Range(command'.steps)) /\ Len(stepsLeft') <= Len(command'.steps)
         /\ \A k \in DOMAIN stepsLeft' : stepsLeft'[k] = command'.steps[Done' + k]
         /\ Done' >= 1 /\ command'.steps[Done'] \in StepNames
         /\ options' = StepOptions(command'.options, command'.steps[Done'])
    BY <1>1, <2>1, <2>6, <2>7, <2>8, <2>9, <2>13 DEF steps
  <2>15. command'.options.explain =>
           Len(explain') = Done' - 1 /\ \A n \in DOMAIN explain' : Told(n)'
    BY <1>1, <1>5, <2>7, <2>10, <2>11
  <2>16. LogInv'
    BY <1>1, <1>5, <2>1, <2>12, <2>14, <2>15 DEF LogInv
  <2> QED
    BY <1>2, <2>4, <2>5, <2>16 DEF ScenarioInv
<1>8. CASE UnknownStep \/ StepsDone
  <2>1. /\ at' = "shell" /\ code' \in {0, 2} /\ options' = options /\ stepsLeft' = stepsLeft
        /\ IF stepsLeft = <<>> THEN code' = 0 ELSE code' = 2
    BY <1>8 DEF UnknownStep, StepsDone, Exit
  <2>2. ShellInv'
    BY <1>1, <1>2, <1>3, <2>1 DEF ScenarioInv, ShellInv, Running
  <2>3. RunInv'
    BY <1>1, <1>3, <2>1 DEF RunInv, GeneratedAll, Running
  <2>4. ~ Stepping'
    BY <2>1 DEF Stepping, Running
  <2>5. LogTellsSteps'
    <3> SUFFICES ASSUME command.options.explain
                 PROVE  /\ Len(explain) <= Len(steps)
                        /\ \A n \in DOMAIN explain :
                             /\ explain[n].step = steps[n]
                             /\ n < Len(explain) \/ code' = 0 =>
                                  explain[n].pass /\ explain[n].selected = StepGoal(steps[n])
                        /\ code' = 0 <=> Len(explain) = Len(steps) /\ explain[Len(explain)].pass
      BY <1>1 DEF LogTellsSteps
    <3>1. /\ Len(explain) = Done
          /\ \A n \in DOMAIN explain : /\ explain[n].step = steps[n] /\ explain[n].pass
                                       /\ explain[n].selected = StepGoal(steps[n])
      BY <1>5 DEF Told
    <3>2. Len(explain) \in Nat /\ DOMAIN explain = 1..Len(explain) /\ Len(steps) # 0
      BY <1>3, <1>4, <1>5
    <3>3. Len(stepsLeft) = 0 <=> stepsLeft = <<>>
      BY <1>5
    <3>4. Len(explain) <= Len(steps) /\ (code' = 0 <=> Len(explain) = Len(steps))
      BY <1>4, <1>6, <2>1, <3>1, <3>3
    <3>5. Len(explain) = Len(steps) => Len(explain) \in DOMAIN explain
      BY <1>4, <3>2
    <3> HIDE DEF steps
    <3> QED
      BY <3>1, <3>4, <3>5
  <2>6. LogInv'
    BY <1>1, <1>5, <2>4, <2>5 DEF LogInv
  <2> QED
    BY <1>2, <2>2, <2>3, <2>6 DEF ScenarioInv
<1> QED
  BY <1>7, <1>8

LEMMA PlannerEndsStep ==
  ASSUME ScenarioInv, PlannerEnds
  PROVE  ScenarioInv'
<1>1. /\ at = "planning" /\ planner.at = "exited" /\ at' = "shell" /\ code' = planner.code
      /\ UNCHANGED <<vars, plannerVars>>
      /\ command' = command /\ stepsLeft' = stepsLeft /\ options' = options
      /\ selected' = selected /\ explain' = explain /\ given' = given
  BY DEF PlannerEnds, At, PlanAt, Exit
<1>2. CoreInv' /\ PlannerInv' /\ FilesInv' /\ pc' = pc /\ planner' = planner
  BY <1>1, RestKept DEF ScenarioInv
<1>3. planner.code \in 0..2
  BY DEF ScenarioInv, PlannerInv, PlannerStates
<1>4. command.program # "eventnet_scenario"
  BY <1>1 DEF ScenarioInv, ShellInv
<1>5. ShellInv'
  BY <1>1, <1>2, <1>3 DEF ScenarioInv, ShellInv, Running
<1>6. RunInv'
  BY <1>1, <1>4 DEF RunInv, GeneratedAll, Over, Running
<1>7. LogInv'
  BY <1>1, <1>4 DEF ScenarioInv, LogInv, LogTellsSteps, Over, Stepping, Running
<1> QED
  BY <1>2, <1>5, <1>6, <1>7 DEF ScenarioInv

LEMMA GiveStep ==
  ASSUME ScenarioInv, NEW c \in Invocations,
         GiveRefused(c) \/ GiveSingle(c) \/ GiveSteps(c) \/ GiveGenerator(c)
  PROVE  ScenarioInv'
<1>1. /\ at = "shell" /\ given < MaxCommands
      /\ command' = c /\ given' = given + 1 /\ selected' = selected
  BY DEF GiveRefused, GiveSingle, GiveSteps, GiveGenerator, Gives, At
<1>2. /\ planner.at \in {"off", "exited"} /\ pc = "idle" /\ code \in 0..2
      /\ options \in HarnessOptions \cup {NoOptions} /\ selected \in Paths \cup {NoPath}
      /\ explain \in Seq(LogLines)
  BY <1>1, RunIsAlone DEF ScenarioInv, ShellInv, LogInv
<1>3. given' \in 0..MaxCommands
  BY <1>1, StepAssumption DEF ScenarioInv, ShellInv
<1>4. CASE GiveRefused(c)
  <2>1. /\ BadArguments(c) /\ at' = "shell" /\ code' = 2
        /\ UNCHANGED <<vars, plannerVars>> /\ options' = options /\ explain' = explain
    BY <1>4 DEF GiveRefused, Exit
  <2>2. CoreInv' /\ PlannerInv' /\ FilesInv' /\ pc' = "idle" /\ planner' = planner
    BY <1>2, <2>1, RestKept DEF ScenarioInv
  <2>3. ShellInv'
    BY <1>1, <1>2, <1>3, <2>1, <2>2 DEF ShellInv, Running
  <2>4. RunInv'
    BY <2>1 DEF RunInv, GeneratedAll, Running
  <2>5. LogInv'
    BY <1>1, <1>2, <2>1 DEF LogInv, LogTellsSteps, Stepping, Running
  <2> QED
    BY <2>2, <2>3, <2>4, <2>5 DEF ScenarioInv
<1>5. CASE GiveSingle(c)
  <2>1. /\ c.program = "eventnet_scenario" /\ ~ BadArguments(c) /\ c.steps = <<>>
        /\ options' = c.options /\ at' = "starting" /\ code' = code
        /\ UNCHANGED <<vars, plannerVars>> /\ explain' = explain
    BY <1>5 DEF GiveSingle, MoveTo
  <2>2. CoreInv' /\ PlannerInv' /\ FilesInv' /\ pc' = "idle" /\ planner' = planner
    BY <1>2, <2>1, RestKept DEF ScenarioInv
  <2>3. options' \in RunOptions(c)
    BY <2>1 DEF RunOptions
  <2>4. options' \in HarnessOptions
    BY <2>3, RunOptionsOf
  <2>5. ShellInv'
    BY <1>1, <1>2, <1>3, <2>1, <2>2, <2>3, <2>4 DEF ShellInv, Running
  <2>6. RunInv'
    BY <2>1 DEF RunInv, GeneratedAll, Over, At
  <2>7. LogInv'
    BY <1>1, <1>2, <2>1 DEF LogInv, LogTellsSteps, Over, At, Stepping
  <2> QED
    BY <2>2, <2>5, <2>6, <2>7 DEF ScenarioInv
<1>6. CASE GiveSteps(c)
  <2>1. /\ c.program = "eventnet_scenario" /\ ~ BadArguments(c) /\ c.steps # <<>>
        /\ stepsLeft' = c.steps /\ at' = "stepping" /\ code' = code /\ options' = options
        /\ UNCHANGED <<vars, plannerVars>>
        /\ explain' = IF c.options.explain THEN <<>> ELSE explain
    BY <1>6 DEF GiveSteps, MoveTo
  <2>2. CoreInv' /\ PlannerInv' /\ FilesInv' /\ pc' = "idle" /\ planner' = planner
    BY <1>2, <2>1, RestKept DEF ScenarioInv
  <2>3. ShellInv'
    BY <1>1, <1>2, <1>3, <2>1, <2>2 DEF ShellInv, Running
  <2>4. RunInv'
    BY <2>1 DEF RunInv, GeneratedAll, Over, At, Running
  <2>5. c.steps \in Seq(Range(c.steps)) /\ Len(c.steps) \in Nat
    BY <2>1, InvocationAssumption
  <2>6. Done' = 0
    BY <1>1, <2>1, <2>5 DEF Done
  <2>7. /\ stepsLeft' \in Seq(Range(command'.steps)) /\ Len(stepsLeft') <= Len(command'.steps)
        /\ \A k \in DOMAIN stepsLeft' : stepsLeft'[k] = command'.steps[Done' + k]
    BY <1>1, <2>1, <2>5, <2>6
  <2>8. explain' \in Seq(LogLines) /\ (c.options.explain => Len(explain') = 0 /\ DOMAIN explain' = {})
    BY <1>2, <2>1
  <2>9. LogTellsSteps'
    BY <2>1 DEF LogTellsSteps, Over, At
  <2>10. LogInv'
    BY <1>1, <2>1, <2>6, <2>7, <2>8, <2>9 DEF LogInv
  <2> QED
    BY <2>2, <2>3, <2>4, <2>10 DEF ScenarioInv
<1>7. CASE GiveGenerator(c)
  <2>1. /\ c.program = "eventnet_netns_plan" /\ PlanStart(c.args) /\ at' = "planning"
        /\ code' = code /\ options' = options /\ explain' = explain /\ UNCHANGED vars
    BY <1>7 DEF GiveGenerator, MoveTo, PlanStart
  <2>2. c.args \in GeneratorArguments
    BY <2>1 DEF GeneratorArguments
  <2>3. PlannerInv' /\ FilesInv' /\ planner'.at = "choosing"
    BY <2>1, <2>2, PlannerStarts DEF ScenarioInv
  <2>4. CoreInv' /\ pc' = "idle"
    <3>1. pc' = pc
      BY <2>1 DEF vars, callVars
    <3> QED
      BY <1>2, <2>1, <3>1, CoreNext DEF ScenarioInv
  <2>5. ShellInv'
    BY <1>1, <1>2, <1>3, <2>1, <2>3, <2>4 DEF ShellInv, Running
  <2>6. RunInv'
    BY <2>1 DEF RunInv, GeneratedAll, Over, At, Running
  <2>7. LogInv'
    BY <1>1, <1>2, <2>1 DEF LogInv, LogTellsSteps, Over, At, Stepping, Running
  <2> QED
    BY <2>3, <2>4, <2>5, <2>6, <2>7 DEF ScenarioInv
<1> QED
  BY <1>4, <1>5, <1>6, <1>7

(* The generator goes on while its caller waits. *)
LEMMA GeneratorMoved ==
  ASSUME ScenarioInv, at \in {"planning", "waiting"}, PlannerMoved, UNCHANGED harnessVars
  PROVE  ScenarioInv'
<1>1. /\ at' = at /\ command' = command /\ stepsLeft' = stepsLeft /\ options' = options
      /\ selected' = selected /\ explain' = explain /\ code' = code /\ given' = given
  BY DEF harnessVars
<1>2. /\ CoreInv' /\ PlannerInv' /\ FilesInv' /\ planner'.args = planner.args
      /\ planner'.at # "off" /\ (pc' # "idle" => planner'.at = "calling")
  BY DEF PlannerMoved
<1>3. ShellInv'
  BY <1>1, <1>2 DEF ScenarioInv, ShellInv, Running
<1>4. RunInv'
  BY <1>1, <1>2 DEF ScenarioInv, RunInv, GeneratedAll, Over, At, Running
<1>5. LogInv'
  BY <1>1 DEF ScenarioInv, LogInv, LogTellsSteps, Over, At, Stepping, Done, Told, Running
<1> QED
  BY <1>2, <1>3, <1>4, <1>5 DEF ScenarioInv

LEMMA GeneratorStepMoves ==
  ASSUME ScenarioInv, GeneratorStep
  PROVE  ScenarioInv'
<1>1. at \in {"planning", "waiting"} /\ PlannerStep /\ UNCHANGED harnessVars
  BY DEF GeneratorStep, At
<1>2. pc # "idle" => planner.at = "calling"
  BY <1>1 DEF ScenarioInv, ShellInv
<1>3. PlannerMoved
  BY <1>1, <1>2, PlannerSteps DEF ScenarioInv
<1> QED
  BY <1>1, <1>3, GeneratorMoved

LEMMA SubmissionStepMoves ==
  ASSUME ScenarioInv, SubmissionStep
  PROVE  ScenarioInv'
<1>1. CallStep /\ UNCHANGED plannerVars /\ UNCHANGED harnessVars
  BY DEF SubmissionStep
<1>2. CASE at \in {"planning", "waiting"} /\ planner.at = "calling"
  <2>1. PlannerMoved
    BY <1>1, <1>2, PlanCallStep DEF ScenarioInv
  <2> QED
    BY <1>1, <1>2, <2>1, GeneratorMoved
<1>3. CASE at = "reconciling"
  <2>1. /\ at' = at /\ command' = command /\ stepsLeft' = stepsLeft /\ options' = options
        /\ selected' = selected /\ explain' = explain /\ code' = code /\ given' = given
    BY <1>1 DEF harnessVars
  <2>2. planner.at \in {"off", "exited"} /\ planner' = planner
    BY <1>1, <1>3, RunIsAlone DEF ScenarioInv, plannerVars
  <2>3. CoreInv' /\ before' = before /\ (pc' = "idle" => reply'.key \in Keys)
    BY <1>1, CoreCall DEF ScenarioInv
  <2>4. PlannerInv' /\ FilesInv'
    BY <1>1, <2>2, PlannerIdle DEF ScenarioInv
  <2>5. ShellInv'
    BY <1>3, <2>1, <2>2 DEF ScenarioInv, ShellInv, Running
  <2>6. RunInv'
    BY <1>3, <2>1, <2>2, <2>3 DEF ScenarioInv, RunInv, GeneratedAll, Over, At, Running
  <2>7. LogInv'
    BY <2>1 DEF ScenarioInv, LogInv, LogTellsSteps, Over, At, Stepping, Done, Told, Running
  <2> QED
    BY <2>3, <2>4, <2>5, <2>6, <2>7 DEF ScenarioInv
<1> QED
  BY <1>2, <1>3 DEF SubmissionStep, At, PlanAt

------------------------------------------------------------------------------
(* The invariant holds. *)

LEMMA ScenarioStarts == ScenarioInit => ScenarioInv
<1> SUFFICES ASSUME ScenarioInit PROVE ScenarioInv
  OBVIOUS
<1>1. /\ Init /\ PlannerInit /\ at = "shell" /\ command = Harness(NoOptions, <<>>)
      /\ stepsLeft = <<>> /\ options = NoOptions /\ selected = NoPath /\ explain = <<>>
      /\ code = 0 /\ given = 0
  BY DEF ScenarioInit
<1>2. CoreInv
  <2>1. DecisionInv /\ AnswerInv
    BY <1>1, ControllerAssumption DEF Init, NoReply, Answer, DecisionInv, CallInv,
       DecisionIsCurrent, Answered, AnswerInv, AnswersAreSound, Validated
  <2> QED
    BY <1>1, <2>1, InitType DEF CoreInv
<1>3. pc = "idle"
  BY <1>1 DEF Init
<1>4. /\ planner = [at |-> "off", args |-> PlanArguments(NoId, NoId, NoPath, NoPath, <<>>),
                   path |-> NoPath, next |-> 1, code |-> 0]
      /\ files = [name \in Range(FileNames) |-> NoFile]
  BY <1>1 DEF PlannerInit
<1>5. PlannerInv
  BY <1>4 DEF PlannerInv, PlannerStates
<1>6. FilesInv
  BY <1>4 DEF FilesInv
<1>7. ShellInv
  BY <1>1, <1>3, <1>4, StepAssumption DEF ShellInv, Running
<1>8. RunInv
  BY <1>1, <1>4 DEF RunInv, GeneratedAll, Over, Running
<1>9. LogInv
  BY <1>1 DEF LogInv, LogTellsSteps, Over, Stepping, Running
<1> QED
  BY <1>2, <1>5, <1>6, <1>7, <1>8, <1>9 DEF ScenarioInv

LEMMA ScenarioMoves == ScenarioInv /\ [ScenarioNext]_scenarioVars => ScenarioInv'
<1> SUFFICES ASSUME ScenarioInv, [ScenarioNext]_scenarioVars PROVE ScenarioInv'
  OBVIOUS
<1>1. CASE UNCHANGED scenarioVars
  <2>1. UNCHANGED vars /\ UNCHANGED plannerVars /\ UNCHANGED harnessVars
    BY <1>1 DEF scenarioVars
  <2>2. CoreInv'
    BY <2>1, CoreNext DEF ScenarioInv
  <2>3. /\ planner' = planner /\ files' = files /\ pc' = pc /\ net' = net /\ before' = before
        /\ reply' = reply
    BY <2>1 DEF vars, adapterVars, callVars, clientVars, plannerVars
  <2>4. PlannerInv' /\ FilesInv'
    BY <2>3 DEF ScenarioInv, PlannerInv, FilesInv
  <2>5. /\ at' = at /\ command' = command /\ stepsLeft' = stepsLeft /\ options' = options
        /\ selected' = selected /\ explain' = explain /\ code' = code /\ given' = given
    BY <2>1 DEF harnessVars
  <2>6. ShellInv'
    BY <2>3, <2>5 DEF ScenarioInv, ShellInv
  <2>7. RunInv'
    BY <2>3, <2>5 DEF ScenarioInv, RunInv, GeneratedAll, Over, At, Delivered
  <2>8. LogInv'
    BY <2>5 DEF ScenarioInv, LogInv, LogTellsSteps, Over, At, Stepping, Done, Told
  <2> QED
    BY <2>2, <2>4, <2>6, <2>7, <2>8 DEF ScenarioInv
<1>2. CASE \E c \in Invocations :
             GiveRefused(c) \/ GiveSingle(c) \/ GiveSteps(c) \/ GiveGenerator(c)
  BY <1>2, GiveStep
<1>3. CASE ProgramStep
  BY <1>3, SteppingStep, PlannerEndsStep, StartStep, FallBackStep, ReconcileStep,
     ReconciledStep, GenerateStep, GeneratedStep, RecordStep, SubmissionStepMoves,
     GeneratorStepMoves DEF ProgramStep
<1> QED
  BY <1>1, <1>2, <1>3 DEF ScenarioNext

LEMMA ScenarioAlways == ScenarioSpec => []ScenarioInv
BY ScenarioStarts, ScenarioMoves, PTL DEF ScenarioSpec

------------------------------------------------------------------------------
(* Theorems. *)

(* Every variable of the two programs and of their controller keeps its      *)
(* type, a call runs only while a program waits for it, and the calls of     *)
(* en_health_probe_mock_set leave no more overrides than there is room for   *)
(* (health_probe.c:53).                                                      *)
THEOREM ScenarioTypeCorrect == ScenarioSpec => []ScenarioTypeOK
<1>1. ASSUME ScenarioInv PROVE ScenarioTypeOK
  <2>1. TypeOK
    BY <1>1 DEF ScenarioInv, CoreInv
  <2>2. /\ planner \in PlannerStates
        /\ 1..Len(FileNames) + 1 = 1..6
    BY <1>1, FileCount DEF ScenarioInv, PlannerInv
  <2>3. /\ planner.at \in {"off", "choosing", "submitting", "calling", "writing", "exited"}
        /\ planner.path \in Paths \cup {NoPath} /\ planner.code \in 0..2
        /\ planner.next \in 1..Len(FileNames) + 1
    BY <2>2 DEF PlannerStates
  <2>4. /\ at \in {"shell", "planning", "stepping", "starting", "deciding", "reconciling",
                   "generating", "waiting", "recording"}
        /\ (pc # "idle" => At("reconciling") \/ PlanAt("calling"))
        /\ command \in Invocations \cup {Harness(NoOptions, <<>>)}
        /\ selected \in Paths \cup {NoPath} /\ code \in 0..2 /\ given \in 0..MaxCommands
    BY <1>1 DEF ScenarioInv, ShellInv, Running, At, PlanAt
  <2>5. \A name \in DOMAIN files : files[name].path \in Paths \cup {NoPath}
    <3>1. /\ DOMAIN files = Range(FileNames)
          /\ \A name \in Range(FileNames) :
               files[name] = NoFile \/ \E p \in Paths : files[name] = Contents(name, p)
      BY <1>1 DEF ScenarioInv, FilesInv
    <3>2. NoFile.path = NoPath /\ \A name, p : Contents(name, p).path = p
      BY DEF NoFile, Contents
    <3> QED
      BY <3>1, <3>2
  <2>6. Cardinality(DOMAIN Overrides(OverridesOf(options))) <= MaxPaths
    <3>1. options.injected \in Seq(Range(options.injected))
      <4>1. CASE options \in HarnessOptions
        BY <4>1, InvocationAssumption
      <4>2. CASE options = NoOptions
        BY <4>2 DEF NoOptions
      <4> QED
        BY <1>1, <4>1, <4>2 DEF ScenarioInv, ShellInv
    <3>2. Len(OverridesOf(options)) \in Nat
      BY <3>1, OverridesOfShape
    <3> QED
      BY <3>2, TableIsLast DEF TableInv, Overrides
  <2> QED
    BY <2>1, <2>3, <2>4, <2>5, <2>6 DEF ScenarioTypeOK
<1> QED
  BY <1>1, ScenarioAlways, PTL

(* A multi-step run that exits with 0 leaves a log with one passing line for *)
(* each of its steps, and one that stops early those of the steps it came to *)
(* (main and append_json_event of eventnet_scenario.c).                      *)
THEOREM LogsTellSteps == ScenarioSpec => []LogTellsSteps
<1>1. ScenarioInv => LogTellsSteps
  BY DEF ScenarioInv, LogInv
<1> QED
  BY <1>1, ScenarioAlways, PTL

(* A generation that came to its end leaves five files about one path,       *)
(* whatever the generations before it left (main of netns_plan.c).           *)
THEOREM FilesAgree == ScenarioSpec => []FilesOfOnePath
<1>1. ASSUME ScenarioInv, planner.at = "exited",
             planner.code = 2 \/ planner.next > Len(FileNames)
      PROVE  /\ \A name \in DOMAIN files : files[name] = Contents(name, planner.path)
             /\ planner.code = 2 <=> files["selected-path.txt"].kind = "unsupported"
  <2>1. planner.next \in 1..6
    BY <1>1 DEF ScenarioInv, PlannerInv, PlannerStates
  <2>2. planner.next <= 5 => planner.code = 1
    BY <1>1 DEF ScenarioInv, FilesInv
  <2>3. ~ (planner.next <= 5)
    BY <1>1, <2>1, <2>2, FileCount
  <2>4. /\ \A n \in 1..5 : files[FileNames[n]] = Contents(FileNames[n], planner.path)
        /\ planner.code = IF RuntimeKind(PathRecord(planner.path)) = "unsupported" THEN 2 ELSE 0
        /\ DOMAIN files = Range(FileNames)
    BY <1>1, <2>3 DEF ScenarioInv, FilesInv
  <2>5. files["selected-path.txt"] = Contents("selected-path.txt", planner.path)
    <3>1. FileNames[3] = "selected-path.txt"
      BY DEF FileNames
    <3> QED
      BY <2>4, <3>1
  <2>6. files["selected-path.txt"].kind = RuntimeKind(PathRecord(planner.path))
    BY <2>5 DEF Contents
  <2> QED
    BY <2>4, <2>6, FileCount
<1>2. ScenarioInv => FilesOfOnePath
  BY <1>1 DEF FilesOfOnePath, PlanAt
<1> QED
  BY <1>2, ScenarioAlways, PTL

(* The readings under which either program decides are readable. *)
LEMMA NetsAreReadable ==
  /\ \A o \in HarnessOptions : Readable(NetOf(o))
  /\ \A args \in GeneratorArguments : Readable(FailedNet(args))
<1>1. Readings \subseteq HealthRecords
  BY WiringAssumption
<1>2. \A o \in HarnessOptions : Readable(NetOf(o))
  BY <1>1, HarnessNet DEF Readable
<1>3. \A args \in GeneratorArguments : Readable(FailedNet(args))
  BY <1>1, FailedAreListed, FailedListReadings DEF Readable, FailedNet
<1> QED
  BY <1>2, <1>3

(* What was chosen is what is called for. *)
LEMMA ChosenIsCalledFor ==
  ASSUME NEW o \in HarnessOptions, AllOverridesFit(o), NEW p, Chosen(o, p)
  PROVE  /\ p \in PathCalledFor(Entry(o), ForcedIntent(o), ActiveFailed(o),
                                [q \in Paths |-> ReadingUnder(o, q)])
         /\ ~ TakesFallback(o) => p # o.failed
<1> DEFINE readings == [q \in Paths |-> ReadingUnder(o, q)]
           i == ForcedIntent(o)
<1>1. RunError(o) = 0 /\ p \in Paths
  BY DEF Chosen
<1>2. i \in Intents
  BY <1>1, InvocationAssumption
<1>3. NetOf(o) = readings /\ Readable(readings)
  BY HarnessReadings, NetsAreReadable
<1>4. CASE TakesFallback(o)
  BY <1>4 DEF Chosen, TakesFallback, PathCalledFor
<1>5. CASE ~ TakesFallback(o)
  <2>1. SoundAnswer(i, readings, p)
    BY <1>3, <1>5 DEF Chosen
  <2>2. ASSUME OwnPathUnobserved(i)
        PROVE  p \in PathCalledFor(Entry(o), i, ActiveFailed(o), readings)
    BY <1>5, <2>1, <2>2 DEF SoundAnswer, PathCalledFor, TakesFallback
  <2>3. ASSUME ~ OwnPathUnobserved(i)
        PROVE  p \in PathCalledFor(Entry(o), i, ActiveFailed(o), readings)
    <3> HIDE DEF readings, i
    <3>1. p \in {q.path : q \in SelectPath(i, readings)}
      BY <1>2, <1>3, <2>1, <2>3, SoundIsSelected
    <3> QED
      BY <1>5, <2>3, <3>1 DEF PathCalledFor, TakesFallback, readings, i
  <2>4. p # o.failed
    <3>1. CarriesTraffic(readings[p])
      BY <2>1 DEF SoundAnswer
    <3>2. readings[p] = ReadingUnder(o, p)
      BY <1>1
    <3>3. p = o.failed => readings[p].state = "failed"
      BY <3>2 DEF ReadingUnder
    <3> QED
      BY <3>1, <3>3 DEF CarriesTraffic
  <2> QED
    BY <2>2, <2>3, <2>4
<1> QED
  BY <1>4, <1>5

(* Every line of the log names the path the file calls for under the options *)
(* it quotes, and passes exactly when that is the path expected              *)
(* (run_scenario, append_json_event).                                        *)
THEOREM LogsExplainDecisions == ScenarioSpec => []ExplainsDecision
<1>1. ASSUME ScenarioInv PROVE ExplainsDecision
  <2> SUFFICES ASSUME NEW n \in DOMAIN explain
               PROVE  LET o == explain[n].options
                      IN  /\ AllOverridesFit(o) =>
                               explain[n].selected \in
                                 PathCalledFor(Entry(o), ForcedIntent(o), ActiveFailed(o),
                                               [p \in Paths |-> ReadingUnder(o, p)])
                          /\ explain[n].pass <=> o.expected \in {NoPath, explain[n].selected}
    BY DEF ExplainsDecision
  <2>1. explain[n] \in LogLines
    BY <1>1 DEF ScenarioInv, LogInv
  <2>2. /\ explain[n].options \in HarnessOptions
        /\ Chosen(explain[n].options, explain[n].selected)
        /\ explain[n].pass <=> explain[n].options.expected \in {NoPath, explain[n].selected}
    BY <2>1 DEF LogLines
  <2> QED
    BY <2>2, ChosenIsCalledFor
<1> QED
  BY <1>1, ScenarioAlways, PTL

(* A path reported as failed is not reported as selected, unless as a        *)
(* fallback (run_scenario, en_controller_submit_intent).                     *)
THEOREM NoFailedPathSelected == ScenarioSpec => []FailedNotSelected
<1>1. ASSUME ScenarioInv PROVE FailedNotSelected
  <2> SUFFICES ASSUME NEW n \in DOMAIN explain
               PROVE  LET o == explain[n].options
                      IN  (AllOverridesFit(o) /\ ~ TakesFallback(o)) =>
                            explain[n].selected # o.failed
    BY DEF FailedNotSelected
  <2>1. explain[n] \in LogLines
    BY <1>1 DEF ScenarioInv, LogInv
  <2>2. /\ explain[n].options \in HarnessOptions
        /\ Chosen(explain[n].options, explain[n].selected)
    BY <2>1 DEF LogLines
  <2> QED
    BY <2>2, ChosenIsCalledFor
<1> QED
  BY <1>1, ScenarioAlways, PTL

(* The generated files are about the path asked for (main of netns_plan.c).  *)
THEOREM GenerationsAnswerRequests == ScenarioSpec => []GeneratedAsAsked
<1>1. ASSUME ScenarioInv, planner.at = "writing"
      PROVE  planner.path \in
               IF planner.args.path # NoPath THEN {planner.args.path}
               ELSE PathCalledFor(PlanIntent(planner.args), PlanIntent(planner.args).request,
                                  planner.args.active \in Range(planner.args.failed),
                                  FailedReadings(Range(planner.args.failed)))
  <2> DEFINE args == planner.args
             p == planner.path
             i == PlanIntent(args).request
             readings == FailedReadings(Range(args.failed))
  <2>1. PlanChosen(args, p) /\ args \in GeneratorArguments
    BY <1>1 DEF ScenarioInv, PlannerInv
  <2>2. CASE args.path # NoPath
    BY <2>1, <2>2 DEF PlanChosen
  <2>3. CASE args.path = NoPath /\ PlanTakesFallback(args)
    BY <2>1, <2>3 DEF PlanChosen, PlanTakesFallback, PathCalledFor
  <2>4. CASE args.path = NoPath /\ ~ PlanTakesFallback(args)
    <3>1. SoundAnswer(i, FailedNet(args), p) /\ ~ PlanRefuses(args)
      BY <2>1, <2>4 DEF PlanChosen
    <3>2. args.failed \in Seq(Range(args.failed))
      BY <2>1, FailedAreListed
    <3>3. i \in Intents /\ Len(args.failed) <= MaxPaths
      <4>1. IntentsFound(args.file, args.intent) # {} /\ ~ (Len(args.failed) > MaxPaths)
        BY <3>1 DEF PlanRefuses
      <4>2. Len(args.failed) \in Nat /\ MaxPaths \in Nat
        BY <3>2, ControllerAssumption
      <4>3. i \in Intents
        BY <2>1, <4>1, InvocationAssumption
      <4> QED
        BY <4>1, <4>2, <4>3
    <3>4. FailedNet(args) = readings /\ Readable(readings)
      BY <2>1, <3>2, <3>3, FailedListReadings, NetsAreReadable DEF FailedNet
    <3> HIDE DEF readings, i
    <3>5. CASE OwnPathUnobserved(i)
      BY <2>4, <3>1, <3>4, <3>5 DEF SoundAnswer, PathCalledFor, PlanTakesFallback, i
    <3>6. CASE ~ OwnPathUnobserved(i)
      <4>1. p \in {q.path : q \in SelectPath(i, readings)}
        BY <3>1, <3>3, <3>4, <3>6, SoundIsSelected
      <4> QED
        BY <2>4, <3>6, <4>1 DEF PathCalledFor, PlanTakesFallback, i, readings
    <3> QED
      BY <3>5, <3>6
  <2> QED
    BY <2>2, <2>3, <2>4
<1>2. ScenarioInv => GeneratedAsAsked
  BY <1>1 DEF GeneratedAsAsked, PlanAt
<1> QED
  BY <1>2, ScenarioAlways, PTL

(* Every place in a list of pairs is the first or the second of one.         *)
LEMMA PlacesInPairs ==
  ASSUME NEW pairs \in Nat, NEW k \in 1..(2 * pairs)
  PROVE  \E n \in 1..pairs : k = 2 * n \/ k = 2 * n - 1
<1> DEFINE n == (k + 1) \div 2
<1>1. n \in Int /\ (k + 1 = 2 * n \/ k + 1 = 2 * n + 1)
  OBVIOUS
<1> HIDE DEF n
<1>2. n \in 1..pairs /\ (k = 2 * n \/ k = 2 * n - 1)
  BY <1>1
<1> QED
  BY <1>2

(* The routes of a path, one pair for each of its segments.                  *)
LEMMA RoutesOfSegments ==
  ASSUME NEW c, NEW path, path.segments \in Seq(Range(path.segments)) \ {<<>>},
         Oriented(c, path)
  PROVE  Range(VppRoutes(c, path)) = RoutesAcross(c, path)
<1> DEFINE segments == path.segments
           last == Len(segments)
           From(n) == segments[n].from_node
           To(n) == segments[n].to_node
           tunnel(n) == TunnelAt(c, path, n)
           Onwards(n) == Route(From(n), DestinationPrefix(c, path), tunnel(n).remote_endpoint)
           Back(n) == Route(To(n), SourcePrefix(c, path), tunnel(n).local_endpoint)
           routes_ == VppRoutes(c, path)
<1>1. last \in Nat \ {0} /\ DOMAIN segments = 1..last
  BY EmptySeq
<1>2. /\ From(1) = path.source /\ To(last) = path.destination
      /\ \A n \in 1..last : /\ From(n) # To(n)
                            /\ tunnel(n).local_node = From(n)
  BY <1>1 DEF Oriented
<1>3. RoutesAcross(c, path) = UNION {{Onwards(n), Back(n)} : n \in 1..last}
  <2>1. \A n \in 1..last : /\ AddressAt(tunnel(n), To(n)) = tunnel(n).remote_endpoint
                           /\ AddressAt(tunnel(n), From(n)) = tunnel(n).local_endpoint
    BY <1>2 DEF AddressAt
  <2> QED
    BY <1>1, <2>1 DEF RoutesAcross
<1>4. /\ DOMAIN routes_ = 1..(2 * last)
      /\ routes_[1] = Onwards(1) /\ routes_[2 * last] = Back(last)
      /\ \A k \in 1..(2 * last) : (k # 1 /\ k # 2 * last) =>
           routes_[k] = WaypointRoutes(c, path, k \div 2)[(k % 2) + 1]
  BY <1>1, <1>2 DEF VppRoutes
<1>5. \A n : WaypointRoutes(c, path, n)[1] = Back(n) /\ WaypointRoutes(c, path, n)[2] = Onwards(n + 1)
  BY DEF WaypointRoutes
<1> HIDE DEF segments, last, From, To, tunnel, Onwards, Back, routes_
<1>6. \A n \in 1..last : /\ 2 * n \in 1..(2 * last) /\ routes_[2 * n] = Back(n)
                         /\ 2 * n - 1 \in 1..(2 * last) /\ routes_[2 * n - 1] = Onwards(n)
  <2> TAKE n \in 1..last
  <2>1. 2 * n \in 1..(2 * last) /\ 2 * n - 1 \in 1..(2 * last)
    BY <1>1
  <2>2. routes_[2 * n] = Back(n)
    <3>1. CASE n = last
      BY <1>4, <3>1
    <3>2. CASE n # last
      <4>1. 2 * n # 1 /\ 2 * n # 2 * last /\ (2 * n) \div 2 = n /\ ((2 * n) % 2) + 1 = 1
        BY <1>1, <3>2
      <4> QED
        BY <1>4, <1>5, <2>1, <4>1
    <3> QED
      BY <3>1, <3>2
  <2>3. routes_[2 * n - 1] = Onwards(n)
    <3>1. CASE n = 1
      BY <1>4, <3>1
    <3>2. CASE n # 1
      <4>1. /\ 2 * n - 1 # 1 /\ 2 * n - 1 # 2 * last /\ (n - 1) + 1 = n
            /\ (2 * n - 1) \div 2 = n - 1 /\ ((2 * n - 1) % 2) + 1 = 2
        BY <1>1, <3>2
      <4> QED
        BY <1>4, <1>5, <2>1, <4>1
    <3> QED
      BY <3>1, <3>2
  <2> QED
    BY <2>1, <2>2, <2>3
<1>7. \A k \in 1..(2 * last) : \E n \in 1..last : k = 2 * n \/ k = 2 * n - 1
  <2> HIDE DEF last
  <2> QED
    BY <1>1, PlacesInPairs
<1>8. Range(routes_) = UNION {{Onwards(n), Back(n)} : n \in 1..last}
  <2>1. ASSUME NEW r \in Range(routes_) PROVE \E n \in 1..last : r \in {Onwards(n), Back(n)}
    <3>1. PICK k \in 1..(2 * last) : r = routes_[k]
      BY <1>4 DEF Range
    <3> QED
      BY <1>6, <1>7, <3>1
  <2>2. ASSUME NEW n \in 1..last PROVE Onwards(n) \in Range(routes_) /\ Back(n) \in Range(routes_)
    BY <1>4, <1>6 DEF Range
  <2>3. \A r : (r \in UNION {{Onwards(n), Back(n)} : n \in 1..last})
                <=> \E n \in 1..last : r \in {Onwards(n), Back(n)}
    OBVIOUS
  <2>4. \A r : r \in Range(routes_) <=> r \in UNION {{Onwards(n), Back(n)} : n \in 1..last}
    <3>1. ASSUME NEW r, \E n \in 1..last : r \in {Onwards(n), Back(n)}
          PROVE  r \in Range(routes_)
      BY <2>2, <3>1
    <3> HIDE DEF Onwards, Back
    <3> QED
      BY <2>1, <2>3, <3>1
  <2> QED
    BY <2>4
<1> QED
  BY <1>3, <1>8 DEF routes_

(* The VPP routes written for a path cross each of its segments both ways,   *)
(* and there are no others (write_vpp_route_plan of netns_plan.c).           *)
THEOREM RoutesCrossThePath == ScenarioSpec => []RoutesLeadAcross
<1>1. ASSUME ScenarioInv PROVE RoutesLeadAcross
  <2> DEFINE name == "vpp-route-plan.sh"
             file == files[name]
             p == file.path
  <2> SUFFICES ASSUME p # NoPath, Oriented(Topology, PathRecord(p))
               PROVE  Range(file.routes) = RoutesAcross(Topology, PathRecord(p))
    BY DEF RoutesLeadAcross
  <2>1. FileNames[4] = name
    BY DEF FileNames
  <2>2. name \in Range(FileNames)
    BY <2>1, FileCount
  <2>3. PICK q \in Paths : file = Contents(name, q)
    <3>1. file = NoFile \/ \E q \in Paths : file = Contents(name, q)
      BY <1>1, <2>2 DEF ScenarioInv, FilesInv
    <3>2. NoFile.path = NoPath
      BY DEF NoFile
    <3> QED
      BY <3>1, <3>2
  <2>4. p = q /\ file.routes = VppRoutes(Topology, PathRecord(p))
    BY <2>3 DEF Contents
  <2>5. \E n \in DOMAIN PathList : PathList[n] = p
    BY <2>3, <2>4, TopologyAssumption DEF Range
  <2>6. PICK n \in DOMAIN Topology.paths : PathRecord(p) = Topology.paths[n]
    <3>1. DOMAIN PathList = DOMAIN Topology.paths
      BY TopologyAssumption
    <3> QED
      BY <2>5, <3>1 DEF PathRecord
  <2>7. PathRecord(p).segments \in Seq(Range(PathRecord(p).segments)) \ {<<>>}
    BY <2>6, TopologyAssumption
  <2> QED
    BY <2>4, <2>7, RoutesOfSegments
<1> QED
  BY <1>1, ScenarioAlways, PTL

(* The harness and the generator it hands a failure to decide alike: the     *)
(* reading the harness injects for a failed path differs from the one of the *)
(* generator only where it does not matter.                                  *)
LEMMA BothDecideAlike ==
  ASSUME NEW o \in HarnessOptions, ActiveFailed(o), o.intent = NoId, o.mode = "yaml",
         o.order = NoOrder, o.injected = <<>>, NEW p, Chosen(o, p),
         NEW q, NEW r \in Paths, PlanChosen(ChildArguments(o, r), q)
  PROVE  p = q
<1> DEFINE args == ChildArguments(o, r)
           i == Entry(o).request
<1>1. args = PlanArguments(o.file, NoId, NoPath, o.active, <<o.failed>>)
  BY DEF ChildArguments
<1>2. /\ args.file = o.file /\ args.intent = NoId /\ args.path = NoPath
      /\ args.active = o.active /\ args.failed = <<o.failed>>
  BY <1>1 DEF PlanArguments
<1>3. PlanIntent(args) = Entry(o)
  BY <1>2 DEF PlanIntent, Entry
<1>4. Range(<<o.failed>>) = {o.failed}
  BY DEF Range
<1>5. PlanTakesFallback(args) <=> TakesFallback(o)
  BY <1>2, <1>3, <1>4 DEF PlanTakesFallback, TakesFallback, ActiveFailed
<1>6. o.failed # NoPath
  BY DEF ActiveFailed
<1> HIDE DEF args, i
<1>7. CASE TakesFallback(o)
  BY <1>2, <1>3, <1>5, <1>7 DEF PlanChosen, Chosen, args
<1>8. CASE ~ TakesFallback(o)
  <2>1. SoundAnswer(ForcedIntent(o), NetOf(o), p) /\ SoundAnswer(i, FailedNet(args), q)
    BY <1>2, <1>3, <1>5, <1>8 DEF PlanChosen, Chosen, args, i
  <2>2. ForcedIntent(o) \in Intents
    BY InvocationAssumption DEF Chosen
  <2>3. i \in Intents /\ ForcedIntent(o) = i
    <3>1. ForcedIntent(o) = [i EXCEPT !.mode = @, !.order = @]
      BY DEF ForcedIntent, i
    <3>2. args \in GeneratorArguments /\ IntentsFound(args.file, args.intent) # {}
      BY DEF Chosen, PlanChosen, PlanRefuses, GeneratorArguments, args
    <3>3. i \in Intents
      BY <1>3, <3>2, InvocationAssumption DEF i
    <3>4. i \in IntentRecords
      BY <3>3, ControllerAssumption
    <3> QED
      BY <3>1, <3>3, <3>4 DEF IntentRecords
  <2>4. CASE OwnPathUnobserved(i)
    BY <2>1, <2>3, <2>4 DEF SoundAnswer
  <2>5. CASE ~ OwnPathUnobserved(i)
    <3>1. NetOf(o) = [x \in Paths |-> ReadingUnder(o, x)]
      <4> DEFINE named == ({h.path : h \in Range(o.injected)} \cup {o.failed}) \ {NoPath}
      <4>1. named = {o.failed}
        <5>1. Range(o.injected) = {}
          BY DEF Range
        <5> QED
          BY <1>6, <5>1
      <4>2. Cardinality({o.failed}) = 1 /\ MaxPaths >= 3
        BY FS_Singleton, StepAssumption
      <4>3. MaxPaths \in Nat
        BY ControllerAssumption
      <4>4. AllOverridesFit(o)
        <5>1. AllOverridesFit(o) <=> Cardinality(named) <= MaxPaths
          BY Zenon DEF AllOverridesFit
        <5> HIDE DEF named
        <5> QED
          BY <4>1, <4>2, <4>3, <5>1
      <4> QED
        BY <4>4, HarnessReadings
    <3>2. FailedNet(args) = FailedReadings({o.failed})
      <4>1. <<o.failed>> \in Seq(Range(<<o.failed>>)) /\ Len(<<o.failed>>) = 1
        BY <1>4
      <4>2. Len(<<o.failed>>) <= MaxPaths
        BY <4>1, StepAssumption, ControllerAssumption
      <4> QED
        BY <1>2, <1>4, <4>1, <4>2, FailedListReadings DEF FailedNet
    <3>3. \A x \in Paths : \/ NetOf(o)[x] = FailedNet(args)[x]
                           \/ Down(NetOf(o), x) /\ Down(FailedNet(args), x)
      <4> TAKE x \in Paths
      <4>1. CASE x = o.failed
        <5>1. NetOf(o)[x].state = "failed" /\ FailedNet(args)[x].state = "failed"
          BY <3>1, <3>2, <4>1 DEF ReadingUnder, FailedReadings, FailedReading
        <5>2. /\ NetOf(o)[x] \in [state : {"failed"}, rtt : {0, 10}, loss : {AllLost}]
              /\ FailedNet(args)[x] \in [state : {"failed"}, rtt : {0, 10}, loss : {AllLost}]
          BY <3>1, <3>2, <4>1 DEF ReadingUnder, FailedReadings, FailedReading
        <5>3. NetOf(o)[x] \in HealthRecords /\ FailedNet(args)[x] \in HealthRecords
          BY <5>2 DEF HealthRecords, HealthStates, AllLost
        <5> QED
          BY <5>1, <5>3, AbsenceAssumption DEF Down
      <4>2. CASE x # o.failed
        <5>1. {n \in DOMAIN o.injected : o.injected[n].path = x} = {}
          OBVIOUS
        <5> QED
          BY <3>1, <3>2, <4>2, <5>1 DEF ReadingUnder, FailedReadings
      <4> QED
        BY <4>1, <4>2
    <3>4. SelectPath(i, NetOf(o)) = SelectPath(i, FailedNet(args))
      BY <2>3, <3>3, DownDoesNotMatter
    <3>5. Readable(NetOf(o))
      BY NetsAreReadable
    <3>6. PICK s : SelectPath(i, NetOf(o)) = {s}
      BY <2>3, <3>5, IntentType, AnswerIsUnique
    <3> QED
      BY <2>1, <2>3, <2>5, <3>4, <3>6 DEF SoundAnswer
  <2> QED
    BY <2>4, <2>5
<1> QED
  BY <1>7, <1>8

(* What the scenario reports is what was generated, although on a failure of *)
(* the active path the generator decides again with a controller of its own  *)
(* (generate_runtime of eventnet_scenario.c, main of netns_plan.c).          *)
THEOREM GenerationsAgree == ScenarioSpec => []GeneratedAsDecided
<1>1. ASSUME ScenarioInv PROVE GeneratedAsDecided
  <2> DEFINE o == options
             args == ChildArguments(o, selected)
  <2> SUFFICES ASSUME GeneratedAll,
                      ActiveFailed(o) => /\ o.intent = NoId /\ o.mode = "yaml"
                                         /\ o.order = NoOrder /\ o.injected = <<>>
               PROVE  \A name \in DOMAIN files : files[name].path = selected
    BY DEF GeneratedAsDecided
  <2>1. Chosen(o, selected) /\ Delivered
    BY <1>1 DEF ScenarioInv, RunInv
  <2>2. o.generate /\ o \in HarnessOptions
    <3>1. o.generate
      BY DEF GeneratedAll
    <3>2. ~ NoOptions.generate
      BY DEF NoOptions
    <3> QED
      BY <1>1, <3>1, <3>2 DEF ScenarioInv, ShellInv
  <2>3. planner.at = "exited" /\ planner.code = 0 /\ planner.args = args
    BY <2>1 DEF Delivered
  <2>4. /\ PlanChosen(args, planner.path)
        /\ \A n \in 1..5 : files[FileNames[n]] = Contents(FileNames[n], planner.path)
        /\ DOMAIN files = Range(FileNames)
    BY <1>1, <2>3 DEF ScenarioInv, FilesInv
  <2>5. \A name \in DOMAIN files : files[name].path = planner.path
    BY <2>4, FileCount DEF Contents
  <2>6. planner.path = selected
    <3>1. CASE ActiveFailed(o)
      <4>1. selected \in Paths
        BY <2>1 DEF Chosen
      <4> QED
        BY <2>1, <2>2, <2>4, <3>1, <4>1, BothDecideAlike
    <3>2. CASE ~ ActiveFailed(o)
      <4>1. args.path = selected
        BY <3>2 DEF ChildArguments, PlanArguments
      <4>2. selected # NoPath
        BY <2>1, PathsAssumption DEF Chosen
      <4> QED
        BY <2>4, <4>1, <4>2 DEF PlanChosen
    <3> QED
      BY <3>1, <3>2
  <2> QED
    BY <2>5, <2>6
<1> QED
  BY <1>1, ScenarioAlways, PTL
==============================================================================
