---------------------------- MODULE ReadingProofs ---------------------------
(***************************************************************************)
(* Theorems about what the loader reads, for every set of files and every   *)
(* size of its arrays: after each line of a file written in the order of    *)
(* the samples it holds what the lines so far say, so it loads such a file  *)
(* as written and refuses it only for what the file says.  No induction on  *)
(* the file is needed: the invariant compares, at every line, what is held  *)
(* with what the lines read so far say, and one more line adds the same to  *)
(* both.                                                                    *)
(***************************************************************************)
EXTENDS YamlProofs

------------------------------------------------------------------------------
(* Numbers of lines: the last of them, and their order.                     *)

LEMMA MaxIs ==
  ASSUME NEW S \in SUBSET Nat, NEW x \in S, \A y \in S : y <= x
  PROVE  Max(S) = x
<1>1. \A y \in S : x >= y
  OBVIOUS
<1>2. \A z \in S : (\A y \in S : z >= y) => z = x
  OBVIOUS
<1> QED
  BY <1>1, <1>2, Zenon DEF Max

LEMMA MaxIsThere ==
  ASSUME NEW n \in Nat, NEW S \in SUBSET (0..n), S # {}
  PROVE  Max(S) \in S /\ Max(S) \in 0..n /\ \A y \in S : y <= Max(S)
<1> DEFINE T == {i \in Nat : n - i \in S}
<1>1. T # {} /\ T \in SUBSET Nat
  <2>1. PICK x \in S : TRUE
    OBVIOUS
  <2>2. n - x \in Nat /\ n - (n - x) = x
    BY <2>1
  <2> QED
    BY <2>1, <2>2
<1>2. Min(T) \in T /\ \A j \in T : Min(T) <= j
  <2> HIDE DEF T
  <2> QED
    BY <1>1, MinIsThere
<1> DEFINE x == n - Min(T)
<1>3. x \in S /\ x \in 0..n
  BY <1>2
<1>4. ASSUME NEW y \in S PROVE y <= x
  <2>1. n - y \in Nat /\ n - (n - y) = y
    OBVIOUS
  <2>2. n - y \in T
    BY <2>1
  <2>3. Min(T) <= n - y /\ Min(T) \in Nat
    BY <1>2, <2>2
  <2> HIDE DEF T
  <2> QED
    BY <2>3
<1> HIDE DEF x
<1>5. Max(S) = x
  <2>1. S \in SUBSET Nat
    OBVIOUS
  <2> QED
    BY <1>3, <1>4, <2>1, MaxIs
<1> QED
  BY <1>3, <1>4, <1>5

LEMMA LinesAreFinite ==
  ASSUME NEW n \in Nat, NEW S \in SUBSET (1..n)
  PROVE  IsFiniteSet(S) /\ Cardinality(S) \in Nat /\ S \in SUBSET Nat
<1>1. IsFiniteSet(1..n)
  BY FS_Interval
<1>2. IsFiniteSet(S)
  BY <1>1, FS_Subset
<1> QED
  BY <1>2, FS_CardinalityType

LEMMA SmallerSet ==
  ASSUME NEW S, IsFiniteSet(S), NEW x \in S, NEW T \in SUBSET S, x \notin T
  PROVE  /\ Cardinality(T) < Cardinality(S)
         /\ Cardinality(T) \in Nat /\ Cardinality(S) \in Nat
<1>1. /\ IsFiniteSet(T) /\ Cardinality(T) <= Cardinality(S)
      /\ Cardinality(S) = Cardinality(T) => S = T
  BY FS_Subset
<1>2. Cardinality(T) \in Nat /\ Cardinality(S) \in Nat
  BY <1>1, FS_CardinalityType
<1> QED
  BY <1>1, <1>2

(* A line after all the others is put at the end.                           *)
LEMMA OrderGrows ==
  ASSUME NEW S \in SUBSET Nat, IsFiniteSet(S), NEW n \in Nat, \A m \in S : m < n
  PROVE  /\ Cardinality(S \cup {n}) = Cardinality(S) + 1 /\ Cardinality(S) \in Nat
         /\ DOMAIN InOrder(S) = 1..Cardinality(S)
         /\ DOMAIN InOrder(S \cup {n}) = 1..(Cardinality(S) + 1)
         /\ \A i \in 1..Cardinality(S) : InOrder(S \cup {n})[i] = InOrder(S)[i]
         /\ InOrder(S \cup {n})[Cardinality(S) + 1] = n
<1> DEFINE T == S \cup {n}
           c == Cardinality(S)
<1>1. Cardinality(T) = c + 1 /\ c \in Nat
  <2>1. n \notin S
    OBVIOUS
  <2> QED
    BY <2>1, FS_AddElement, FS_CardinalityType
<1>2. \A x \in S : {m \in T : m < x} = {m \in S : m < x}
  OBVIOUS
<1>3. {m \in T : m < n} = S
  <2>1. n \in Nat /\ ~ (n < n)
    OBVIOUS
  <2> QED
    BY <2>1, Zenon
<1>4. \A i \in 1..c : Ranked(T, i) = Ranked(S, i)
  <2> TAKE i \in 1..c
  <2>1. n \notin Ranked(T, i)
    BY <1>1, <1>3 DEF Ranked
  <2>2. \A x \in S : x \in Ranked(T, i) <=> x \in Ranked(S, i)
    BY <1>2 DEF Ranked
  <2>3. Ranked(T, i) \subseteq T /\ Ranked(S, i) \subseteq S
    BY DEF Ranked
  <2> QED
    BY <2>1, <2>2, <2>3
<1>5. Ranked(T, c + 1) = {n}
  <2>1. ASSUME NEW x \in S PROVE x \notin Ranked(T, c + 1)
    <3> DEFINE U == {m \in S : m < x}
    <3>1. U \in SUBSET S /\ x \notin U
      OBVIOUS
    <3>2. Cardinality(U) < c /\ Cardinality(U) \in Nat /\ c \in Nat
      BY <3>1, SmallerSet
    <3>3. Cardinality({m \in T : m < x}) = Cardinality(U)
      BY <1>2
    <3> HIDE DEF U
    <3> QED
      BY <3>2, <3>3 DEF Ranked
  <2>2. n \in Ranked(T, c + 1)
    <3>1. Cardinality({m \in T : m < n}) = (c + 1) - 1
      <4> HIDE DEF T
      <4> QED
        BY <1>1, <1>3
    <3> HIDE DEF c
    <3> QED
      BY <3>1, Zenon DEF Ranked
  <2>3. Ranked(T, c + 1) \subseteq T
    BY DEF Ranked
  <2> HIDE DEF c
  <2> QED
    BY <2>1, <2>2, <2>3
<1> HIDE DEF T, c
<1>6. InOrder(T)[c + 1] = n
  BY <1>1, <1>5 DEF InOrder
<1>7. \A i \in 1..c : InOrder(T)[i] = InOrder(S)[i]
  BY <1>1, <1>4 DEF InOrder, c
<1> QED
  BY <1>1, <1>6, <1>7 DEF InOrder, T, c

(* Each number has its place, and each place its number.                    *)
LEMMA OrderPlaces ==
  ASSUME NEW S \in SUBSET Nat, IsFiniteSet(S)
  PROVE  /\ Cardinality(S) \in Nat /\ DOMAIN InOrder(S) = 1..Cardinality(S)
         /\ \A i \in 1..Cardinality(S) : InOrder(S)[i] \in S
         /\ \A x \in S : \E i \in 1..Cardinality(S) : InOrder(S)[i] = x
<1> DEFINE c == Cardinality(S)
           Before(x) == {m \in S : m < x}
           rank == [x \in S |-> Cardinality(Before(x)) + 1]
<1>1. c \in Nat /\ DOMAIN InOrder(S) = 1..c
  BY FS_CardinalityType DEF InOrder
<1>2. ASSUME NEW x \in S
      PROVE  Cardinality(Before(x)) < c /\ Cardinality(Before(x)) \in Nat /\ IsFiniteSet(Before(x))
  <2>1. Before(x) \in SUBSET S /\ x \notin Before(x)
    OBVIOUS
  <2> QED
    BY <2>1, SmallerSet, FS_Subset
<1>3. ASSUME NEW x \in S, NEW y \in S, x < y PROVE rank[x] # rank[y]
  <2>1. x \in Before(y) /\ Before(x) \in SUBSET Before(y) /\ x \notin Before(x)
    <3>1. x \in Nat /\ y \in Nat /\ \A m \in S : m \in Nat
      OBVIOUS
    <3>2. (\A m \in S : m < x => m < y) /\ ~ (x < x)
      BY <1>3, <3>1
    <3> QED
      BY <1>3, <3>2, Zenon
  <2>2. IsFiniteSet(Before(y))
    BY <1>2
  <2>3. Cardinality(Before(x)) < Cardinality(Before(y)) /\ Cardinality(Before(x)) \in Nat
        /\ Cardinality(Before(y)) \in Nat
    <3> HIDE DEF Before
    <3> QED
      BY <2>1, <2>2, SmallerSet
  <2>4. rank[x] = Cardinality(Before(x)) + 1 /\ rank[y] = Cardinality(Before(y)) + 1
    OBVIOUS
  <2> HIDE DEF rank, Before
  <2> QED
    BY <2>3, <2>4
<1>4. \A x \in S : \A i \in 1..c : x \in Ranked(S, i) <=> rank[x] = i
  <2> TAKE x \in S
  <2> TAKE i \in 1..c
  <2>1. Cardinality(Before(x)) \in Nat /\ rank[x] = Cardinality(Before(x)) + 1 /\ i \in Nat
    BY <1>1, <1>2
  <2>2. x \in Ranked(S, i) <=> Cardinality(Before(x)) = i - 1
    BY DEF Ranked
  <2> HIDE DEF Before, rank
  <2> QED
    BY <2>1, <2>2
<1>5. rank \in [S -> 1..c]
  BY <1>1, <1>2
<1>6. \A x, y \in S : x # y => rank[x] # rank[y]
  <2> HIDE DEF rank
  <2> QED
    BY <1>3
<1> HIDE DEF rank, Before
<1>7. ASSUME NEW x \in S PROVE \E i \in 1..c : InOrder(S)[i] = x
  <2>1. Ranked(S, rank[x]) \subseteq S
    BY DEF Ranked
  <2>2. rank[x] \in 1..c
    BY <1>5
  <2>3. \A y \in S : y \in Ranked(S, rank[x]) <=> y = x
    BY <1>4, <1>6, <2>2
  <2>4. Ranked(S, rank[x]) = {x}
    BY <2>1, <2>3
  <2> QED
    BY <1>1, <2>2, <2>4 DEF InOrder
<1>8. ASSUME NEW i \in 1..c PROVE InOrder(S)[i] \in S
  <2>1. \E x \in S : rank[x] = i
    <3> SUFFICES ASSUME \A x \in S : rank[x] # i PROVE FALSE
      OBVIOUS
    <3> DEFINE R == (1..c) \ {i}
    <3>1. rank \in [S -> R]
      BY <1>5
    <3>2. IsFiniteSet(R) /\ Cardinality(R) < c
      <4>1. IsFiniteSet(1..c) /\ Cardinality(1..c) = c
        BY <1>1, FS_Interval
      <4>2. R \in SUBSET (1..c) /\ i \notin R
        OBVIOUS
      <4> QED
        BY <4>1, <4>2, SmallerSet, FS_Subset
    <3> HIDE DEF R
    <3>3. \E x, y \in S : x # y /\ rank[x] = rank[y]
      BY <3>1, <3>2, FS_PigeonHole DEF c
    <3> QED
      BY <1>6, <3>3
  <2>2. Ranked(S, i) # {} /\ Ranked(S, i) \subseteq S
    BY <1>4, <2>1 DEF Ranked
  <2> QED
    BY <1>1, <2>2 DEF InOrder
<1> HIDE DEF c
<1> QED
  BY <1>1, <1>7, <1>8 DEF c

(* The last place is the last number's.                                     *)
LEMMA OrderEnds ==
  ASSUME NEW S \in SUBSET Nat, IsFiniteSet(S), NEW x \in S, \A y \in S : y <= x
  PROVE  /\ Cardinality(S) \in Nat \ {0} /\ InOrder(S)[Cardinality(S)] = x
         /\ \A i \in 1..(Cardinality(S) - 1) : InOrder(S)[i] \in S /\ InOrder(S)[i] < x
<1> DEFINE T == S \ {x}
<1>1. T \in SUBSET Nat /\ IsFiniteSet(T) /\ S = T \cup {x} /\ \A y \in T : y < x
  BY FS_Subset
<1> HIDE DEF T
<1>2. /\ Cardinality(T \cup {x}) = Cardinality(T) + 1 /\ Cardinality(T) \in Nat
      /\ \A i \in 1..Cardinality(T) : InOrder(T \cup {x})[i] = InOrder(T)[i]
      /\ InOrder(T \cup {x})[Cardinality(T) + 1] = x
  <2>1. x \in Nat
    OBVIOUS
  <2> QED
    BY <1>1, <2>1, OrderGrows
<1>3. \A i \in 1..Cardinality(T) : InOrder(T)[i] \in T
  BY <1>1, OrderPlaces
<1>4. \A y \in T : y \in S
  BY <1>1
<1> DEFINE c == Cardinality(T)
<1>5. /\ Cardinality(S) = c + 1 /\ c \in Nat /\ InOrder(S)[c + 1] = x
      /\ \A i \in 1..c : InOrder(S)[i] \in S /\ InOrder(S)[i] < x
  BY <1>1, <1>2, <1>3, <1>4
<1> HIDE DEF c
<1>6. Cardinality(S) - 1 = c /\ Cardinality(S) \in Nat \ {0}
  BY <1>5
<1> QED
  BY <1>5, <1>6

LEMMA EmptyOrder == InOrder({}) = <<>>
BY FS_EmptySet DEF InOrder

------------------------------------------------------------------------------
(* The shape of a well-formed file: what stands above a line.               *)

IsFile(d) == d \in Seq(LineRecords) /\ WellFormed(d)
IsElement(d, n) == d[n].kind = "item" /\ d[n].indent > 2

LEMMA LinesSay ==
  ASSUME NEW d, IsFile(d)
  PROVE  /\ Len(d) \in Nat \ {0} /\ d[1].indent = 0
         /\ \A n \in 1..Len(d) : d[n].indent \in Nat /\ WellFormedLine(d, n)
<1>1. /\ d \in Seq(LineRecords) /\ d # <<>> /\ d[1].indent = 0
      /\ \A n \in 1..Len(d) : WellFormedLine(d, n)
  BY DEF IsFile, WellFormed, Lines
<1>2. Len(d) \in Nat \ {0} /\ \A n \in 1..Len(d) : d[n] \in LineRecords
  BY <1>1, EmptySeq
<1>3. \A r \in LineRecords : r.indent \in Nat
  BY DEF LineRecords
<1> QED
  BY <1>1, <1>2, <1>3

LEMMA ParentSays ==
  ASSUME NEW d, IsFile(d), NEW n \in 1..Len(d), d[n].indent > 0
  PROVE  /\ Parent(d, n) \in 1..(n - 1)
         /\ d[Parent(d, n)].indent = d[n].indent - 2
         /\ d[n].kind \in Below(d, Parent(d, n))
         /\ \A j \in 1..(n - 1) : j > Parent(d, n) => d[j].indent >= d[n].indent
<1> DEFINE p == Parent(d, n)
           S == {0} \cup {m \in 1..(n - 1) : d[m].indent < d[n].indent}
<1>1. n - 1 \in Nat /\ S \in SUBSET (0..(n - 1)) /\ S # {}
  BY LinesSay
<1>2. p = Max(S)
  BY DEF Parent
<1> HIDE DEF p
<1>3. p \in S /\ p \in 0..(n - 1) /\ \A y \in S : y <= p
  <2> HIDE DEF S
  <2> QED
    BY <1>1, <1>2, MaxIsThere
<1>4. 1 \in S
  <2>1. d[1].indent = 0 /\ 1 \in 1..Len(d)
    BY LinesSay
  <2>2. n # 1
    BY <2>1
  <2> QED
    BY <2>1, <2>2
<1>5. p \in 1..(n - 1)
  BY <1>3, <1>4
<1>6. \A j \in 1..(n - 1) : j > p => d[j].indent >= d[n].indent
  <2> TAKE j \in 1..(n - 1)
  <2> HAVE j > p
  <2>1. j \notin S
    BY <1>3, <1>5
  <2>2. j \in 1..Len(d)
    BY LinesSay
  <2>3. d[j].indent \in Nat /\ d[n].indent \in Nat
    BY <2>2, LinesSay
  <2> QED
    BY <2>1, <2>3
<1>7. d[p].indent = d[n].indent - 2 /\ d[n].kind \in Below(d, p)
  <2>1. WellFormedLine(d, n) /\ d[n].indent # 0
    BY LinesSay
  <2> QED
    BY <2>1 DEF WellFormedLine, p
<1> QED
  BY <1>5, <1>6, <1>7 DEF p

LEMMA SectionSays ==
  ASSUME NEW d, IsFile(d), NEW n \in 1..Len(d)
  PROVE  /\ SectionOf(d, n) \in Sections
         /\ d[n].indent = 0 => SectionOf(d, n) = d[n].key
<1> DEFINE S == {m \in 1..n : d[m].indent = 0}
<1>1. n \in Nat /\ S \in SUBSET (0..n) /\ 1 \in S
  BY LinesSay
<1>2. Max(S) \in S /\ \A y \in S : y <= Max(S)
  <2> HIDE DEF S
  <2> QED
    BY <1>1, MaxIsThere
<1>3. Max(S) \in 1..Len(d) /\ d[Max(S)].indent = 0
  BY <1>2, LinesSay
<1>4. d[Max(S)].key \in Sections
  <2> HIDE DEF S
  <2>1. WellFormedLine(d, Max(S))
    BY <1>3, LinesSay
  <2> QED
    BY <1>3, <2>1 DEF WellFormedLine
<1>5. d[n].indent = 0 => Max(S) = n
  BY <1>2
<1> QED
  BY <1>4, <1>5 DEF SectionOf

LEMMA SameSection ==
  ASSUME NEW d, IsFile(d), NEW n \in 1..Len(d), NEW p \in 1..n,
         \A j \in 1..n : j > p => d[j].indent > 0
  PROVE  SectionOf(d, p) = SectionOf(d, n)
<1>1. {m \in 1..n : d[m].indent = 0} = {m \in 1..p : d[m].indent = 0}
  <2>1. \A m \in 1..n : d[m].indent = 0 => m \in 1..p
    OBVIOUS
  <2>2. \A m \in 1..p : m \in 1..n
    OBVIOUS
  <2> QED
    BY <2>1, <2>2
<1> QED
  BY <1>1 DEF SectionOf

LEMMA SectionOfParent ==
  ASSUME NEW d, IsFile(d), NEW n \in 1..Len(d), d[n].indent > 0
  PROVE  SectionOf(d, Parent(d, n)) = SectionOf(d, n)
<1> DEFINE p == Parent(d, n)
<1>1. p \in 1..(n - 1) /\ \A j \in 1..(n - 1) : j > p => d[j].indent >= d[n].indent
  BY ParentSays
<1>2. \A j \in 1..n : d[j].indent \in Nat
  BY LinesSay
<1>3. p \in 1..n /\ \A j \in 1..n : j > p => d[j].indent > 0
  <2> HIDE DEF p
  <2> QED
    BY <1>1, <1>2
<1> HIDE DEF p
<1>4. SectionOf(d, p) = SectionOf(d, n)
  BY <1>3, SameSection
<1> QED
  BY <1>4 DEF p

(* Headers stand at the margin, items two spaces in, the rest deeper.       *)
LEMMA Levels ==
  ASSUME NEW d, IsFile(d), NEW n \in 1..Len(d)
  PROVE  /\ d[n].indent = 0 => /\ d[n].kind = "field" /\ d[n].key \in Sections /\ d[n].value = ""
                               /\ ~ Opens(d, n)
         /\ d[n].indent = 0 \/ d[n].indent = 2 \/ d[n].indent >= 4
         /\ d[n].indent = 2 => IsItemLine(d, n)
<1>1. ASSUME NEW m \in 1..Len(d), d[m].indent = 0
      PROVE  d[m].kind = "field" /\ d[m].key \in Sections /\ d[m].value = "" /\ ~ Opens(d, m)
  <2>1. d[m].kind = "field" /\ d[m].key \in Sections /\ d[m].value = ""
    BY <1>1, LinesSay DEF WellFormedLine
  <2>2. d[m].key \notin Blocks(SectionOf(d, m))
    BY <1>1, <2>1, SectionSays DEF Blocks, IntentBlocks, Sections
  <2> QED
    BY <2>1, <2>2 DEF Opens
<1>2. ASSUME NEW m \in 1..Len(d), d[m].indent > 0
      PROVE  Parent(d, m) \in 1..Len(d) /\ d[Parent(d, m)].indent = d[m].indent - 2
             /\ d[m].indent \in Nat /\ d[Parent(d, m)].indent \in Nat
  <2>1. Parent(d, m) \in 1..(m - 1) /\ d[Parent(d, m)].indent = d[m].indent - 2
    BY <1>2, ParentSays
  <2>2. Parent(d, m) \in 1..Len(d)
    BY <2>1, LinesSay
  <2> QED
    BY <2>1, <2>2, LinesSay
<1>3. \A m \in 1..Len(d) : d[m].indent = 0 \/ d[m].indent >= 2
  BY <1>2, LinesSay
<1>4. d[n].indent = 0 \/ d[n].indent = 2 \/ d[n].indent >= 4
  <2>1. CASE d[n].indent > 0
    <3>1. d[Parent(d, n)].indent = 0 \/ d[Parent(d, n)].indent >= 2
      BY <1>2, <1>3, <2>1
    <3> QED
      BY <1>2, <2>1, <3>1
  <2> QED
    BY <2>1, LinesSay
<1>5. ASSUME d[n].indent = 2 PROVE IsItemLine(d, n)
  <2> DEFINE p == Parent(d, n)
  <2>1. p \in 1..Len(d) /\ d[p].indent = 0 /\ d[n].kind \in Below(d, p)
    BY <1>2, <1>5, ParentSays
  <2>2. d[p].kind = "field" /\ ~ Opens(d, p)
    BY <1>1, <2>1
  <2> HIDE DEF p
  <2>3. Below(d, p) = {"item"}
    BY <2>1, <2>2 DEF Below, IsItemLine
  <2> QED
    BY <1>5, <2>1, <2>3 DEF IsItemLine
<1> QED
  BY <1>1, <1>4, <1>5

(* A deeper line is a field of the item, is in a block, or is a field of a  *)
(* segment.                                                                 *)
InItem(d, n) ==
  /\ IsItemLine(d, Parent(d, n)) /\ d[n].kind = "field" /\ d[n].indent = 4
  /\ Block(d, n) = "none"
InBlock(d, n) ==
  LET key == d[Parent(d, n)].key IN
  /\ Opens(d, Parent(d, n)) /\ Block(d, n) = key /\ key \in Blocks(SectionOf(d, n))
  /\ d[n].kind = IF key \in ListKeys THEN "item" ELSE "field"
  /\ d[Parent(d, n)].kind = "field"
InSegment(d, n) ==
  /\ IsElement(d, Parent(d, n)) /\ Block(d, Parent(d, n)) = "segments"
  /\ d[n].kind = "field" /\ Block(d, n) = "segments" /\ SectionOf(d, n) = "paths"

LEMMA DeepSays ==
  ASSUME NEW d, IsFile(d), NEW n \in 1..Len(d), d[n].indent > 2
  PROVE  InItem(d, n) \/ InBlock(d, n) \/ InSegment(d, n)
<1> DEFINE p == Parent(d, n)
<1>1. /\ p \in 1..(n - 1) /\ p \in 1..Len(d) /\ d[p].indent = d[n].indent - 2
      /\ d[n].kind \in Below(d, p) /\ SectionOf(d, p) = SectionOf(d, n)
      /\ d[n].indent \in Nat /\ d[p].indent \in Nat
  BY ParentSays, LinesSay, SectionOfParent
<1>2. Block(d, n) = IF IsItemLine(d, p) THEN "none"
                    ELSE IF d[p].kind = "item" THEN d[Parent(d, p)].key ELSE d[p].key
  BY DEF Block, IsItemLine
<1>3. d[p].indent # 0 /\ (d[p].indent # 2 => d[p].indent >= 4)
  <2>1. d[p].indent = 0 \/ d[p].indent = 2 \/ d[p].indent >= 4
    BY <1>1, Levels
  <2> HIDE DEF p
  <2> QED
    BY <1>1, <2>1
<1>4. CASE IsItemLine(d, p)
  <2>1. d[n].kind = "field" /\ Block(d, n) = "none" /\ d[n].indent = 4
    BY <1>1, <1>2, <1>3, <1>4 DEF Below, IsItemLine
  <2> QED
    BY <1>4, <2>1 DEF InItem
<1>5. CASE Opens(d, p)
  <2>1. d[p].kind = "field" /\ ~ IsItemLine(d, p) /\ d[p].key \in Blocks(SectionOf(d, n))
    BY <1>1, <1>5 DEF Opens, IsItemLine
  <2>2. Below(d, p) = IF d[p].key \in ListKeys THEN {"item"} ELSE {"field"}
    BY <1>3, <1>5, <2>1 DEF Below
  <2> QED
    BY <1>1, <1>2, <1>5, <2>1, <2>2 DEF InBlock
<1>6. CASE ~ IsItemLine(d, p) /\ ~ Opens(d, p)
  <2>1. d[p].kind = "item" /\ Block(d, p) = "segments" /\ d[n].kind = "field"
    BY <1>1, <1>3, <1>6 DEF Below
  <2>2. d[p].indent > 2
    BY <1>1, <1>3, <1>6, <2>1 DEF IsItemLine
  <2> DEFINE q == Parent(d, p)
  <2>3. /\ q \in 1..(p - 1) /\ q \in 1..Len(d) /\ d[p].kind \in Below(d, q)
        /\ SectionOf(d, q) = SectionOf(d, n) /\ d[q].indent = d[p].indent - 2
    <3>1. q \in 1..(p - 1) /\ d[p].kind \in Below(d, q) /\ d[q].indent = d[p].indent - 2
      BY <1>1, <2>2, ParentSays
    <3>2. SectionOf(d, q) = SectionOf(d, n)
      BY <1>1, <2>2, SectionOfParent
    <3> HIDE DEF p, q
    <3> QED
      BY <1>1, <3>1, <3>2, LinesSay
  <2>4. d[q].indent # 0
    BY <1>1, <2>2, <2>3
  <2>5. Opens(d, q)
    BY <2>1, <2>3, <2>4 DEF Below
  <2>6. Block(d, p) = d[q].key
    BY <1>6, <2>5 DEF Block, Opens, IsItemLine
  <2>7. Block(d, n) = "segments" /\ d[q].key = "segments"
    BY <1>2, <1>6, <2>1, <2>6
  <2>8. SectionOf(d, n) = "paths"
    <3>1. "segments" \in Blocks(SectionOf(d, n)) /\ SectionOf(d, n) \in Sections
      BY <2>3, <2>5, <2>7, SectionSays DEF Opens
    <3> QED
      BY <3>1 DEF Blocks, IntentBlocks, Sections
  <2> QED
    BY <2>1, <2>2, <2>7, <2>8 DEF InSegment, IsElement
<1> QED
  BY <1>4, <1>5, <1>6

(* The entries of lists.                                                    *)
LEMMA ElementSays ==
  ASSUME NEW d, IsFile(d), NEW n \in 1..Len(d), IsElement(d, n)
  PROVE  InBlock(d, n) /\ Block(d, n) \in ListKeys /\ ~ IsItemLine(d, n)
BY DeepSays DEF InItem, InBlock, InSegment, IsElement, IsItemLine

(* The blocks of a path are fields of it; no field of a segment opens one.  *)
LEMMA OpenerSays ==
  ASSUME NEW d, IsFile(d), NEW n \in 1..Len(d), Opens(d, n)
  PROVE  /\ d[n].indent > 2 /\ (InItem(d, n) \/ InBlock(d, n))
         /\ Block(d, n) = Home(d[n].key)
         /\ SectionOf(d, n) = "paths" => InItem(d, n)
<1>1. d[n].kind = "field" /\ d[n].key \in Blocks(SectionOf(d, n))
  BY DEF Opens
<1>2. d[n].indent > 2
  <2>1. d[n].indent # 0 /\ d[n].indent # 2
    BY <1>1, Levels DEF IsItemLine
  <2>2. d[n].indent = 0 \/ d[n].indent = 2 \/ d[n].indent >= 4
    BY Levels
  <2>3. d[n].indent \in Nat
    BY LinesSay
  <2> QED
    BY <2>1, <2>2, <2>3
<1>3. Block(d, n) = Home(d[n].key)
  <2>1. WellFormedLine(d, n) /\ d[n].indent # 0
    BY <1>2, LinesSay
  <2> QED
    BY <2>1 DEF WellFormedLine
<1>4. Block(d, n) # "segments"
  BY <1>3 DEF Home
<1>5. InItem(d, n) \/ InBlock(d, n)
  BY <1>2, <1>4, DeepSays DEF InSegment
<1>6. ASSUME SectionOf(d, n) = "paths" PROVE ~ InBlock(d, n)
  BY <1>1, <1>6 DEF InBlock, Blocks, ListKeys, PlainLists
<1> QED
  BY <1>2, <1>3, <1>5, <1>6

(* Nothing inside a list or a segment opens a block.                        *)
LEMMA ListsOpenNothing ==
  ASSUME NEW d, IsFile(d), NEW p \in 1..Len(d), NEW n \in p..Len(d),
         \/ Opens(d, p) /\ d[p].key \in ListKeys
         \/ IsElement(d, p),
         \A j \in 1..n : j > p => d[j].indent > d[p].indent
  PROVE  \A j \in 1..n : j > p => ~ Opens(d, j)
<1> DEFINE T == {j \in 1..n : j > p /\ Opens(d, j)}
<1> SUFFICES ASSUME T # {} PROVE FALSE
  OBVIOUS
<1> DEFINE m == Min(T)
           q == Parent(d, m)
<1>1. m \in T /\ \A j \in T : m <= j
  <2>1. T \in SUBSET Nat
    OBVIOUS
  <2> HIDE DEF T
  <2> QED
    BY <2>1, MinIsThere
<1>2. /\ m \in 1..Len(d) /\ m \in 1..n /\ m > p /\ Opens(d, m) /\ d[m].indent > d[p].indent
      /\ \A j \in 1..n : j > p /\ j < m => ~ Opens(d, j)
  <2> HIDE DEF m
  <2>1. m \in 1..n /\ m > p /\ Opens(d, m)
    BY <1>1
  <2>2. \A j \in 1..n : j > p /\ j < m => ~ Opens(d, j)
    <3> TAKE j \in 1..n
    <3> HAVE j > p /\ j < m
    <3>1. j \in T => m <= j
      BY <1>1
    <3> QED
      BY <2>1, <3>1
  <2> QED
    BY <2>1, <2>2, LinesSay
<1> HIDE DEF m, T
<1>3. /\ d[m].indent > 2 /\ (InItem(d, m) \/ InBlock(d, m)) /\ d[m].kind = "field"
  BY <1>2, OpenerSays DEF Opens
<1>4. /\ q \in 1..(m - 1) /\ \A j \in 1..(m - 1) : j > q => d[j].indent >= d[m].indent
  <2>1. d[m].indent > 0
    BY <1>2, <1>3, LinesSay
  <2> QED
    BY <1>2, <2>1, ParentSays
<1>5. d[p].indent >= 4
  <2>1. d[p].indent > 2
    BY OpenerSays DEF IsElement
  <2>2. d[p].indent = 0 \/ d[p].indent = 2 \/ d[p].indent >= 4
    BY Levels
  <2>3. d[p].indent \in Nat
    BY LinesSay
  <2> QED
    BY <2>1, <2>2, <2>3
<1> HIDE DEF q
<1>6. q >= p
  <2>1. d[p].indent \in Nat /\ d[m].indent \in Nat
    BY <1>2, LinesSay
  <2>2. p \in 1..(m - 1) /\ p \in Nat /\ q \in Nat
    BY <1>2, <1>4
  <2>3. ~ p > q
    BY <1>2, <1>4, <2>1, <2>2
  <2> QED
    BY <2>2, <2>3
<1>7. ~ IsItemLine(d, q)
  <2>1. CASE q = p
    BY <1>5, <2>1 DEF IsItemLine
  <2>2. CASE q > p
    <3>1. q \in 1..n
      BY <1>2, <1>4
    <3>2. d[q].indent > d[p].indent /\ d[q].indent \in Nat /\ d[p].indent \in Nat
      BY <2>2, <3>1, LinesSay
    <3> QED
      BY <1>5, <3>2 DEF IsItemLine
  <2> QED
    BY <1>4, <1>6, <2>1, <2>2
<1>8. InBlock(d, m) /\ Opens(d, q) /\ d[q].key \notin ListKeys /\ d[q].kind = "field"
  BY <1>3, <1>7 DEF InItem, InBlock, q
<1>9. q = p
  BY <1>2, <1>4, <1>6, <1>8
<1> QED
  BY <1>8, <1>9 DEF IsElement

------------------------------------------------------------------------------
(* The context the reader is left in by the lines it has read.              *)

(* The last line that sets the context decides it: one at the margin or of  *)
(* an item resets it, one that opens a block names it.                      *)
SetsContext(d, n) == d[n].indent <= 2 \/ Opens(d, n)
ContextOf(d, n) ==
  IF \/ Opens(d, n)
     \/ IsItemLine(d, n) /\ SectionOf(d, n) = "paths" /\ d[n].key \in {"waypoints", "segments"}
  THEN d[n].key ELSE "none"
ContextAt(d, k) == ContextOf(d, Max({m \in 1..k : SetsContext(d, m)}))

LEMMA ContextIs ==
  ASSUME NEW d, NEW k \in Nat, NEW p \in 1..k, SetsContext(d, p),
         \A j \in 1..k : j > p => ~ SetsContext(d, j)
  PROVE  ContextAt(d, k) = ContextOf(d, p)
<1> DEFINE S == {m \in 1..k : SetsContext(d, m)}
<1>1. S \in SUBSET Nat /\ p \in S /\ \A j \in S : j <= p
  OBVIOUS
<1>2. Max(S) = p
  <2> HIDE DEF S
  <2> QED
    BY <1>1, MaxIs
<1> QED
  BY <1>2 DEF ContextAt

LEMMA ContextGoesOn ==
  ASSUME NEW d, NEW n \in Nat \ {0}
  PROVE  ContextAt(d, n) = IF SetsContext(d, n) THEN ContextOf(d, n) ELSE ContextAt(d, n - 1)
<1>1. CASE SetsContext(d, n)
  <2>1. n \in Nat /\ n \in 1..n /\ \A j \in 1..n : j > n => ~ SetsContext(d, j)
    OBVIOUS
  <2> QED
    BY <1>1, <2>1, ContextIs
<1>2. CASE ~ SetsContext(d, n)
  <2>1. \A m \in 1..n : m = n \/ m \in 1..(n - 1)
    OBVIOUS
  <2>2. \A m \in 1..(n - 1) : m \in 1..n
    OBVIOUS
  <2>3. {m \in 1..n : SetsContext(d, m)} = {m \in 1..(n - 1) : SetsContext(d, m)}
    BY <1>2, <2>1, <2>2
  <2> QED
    BY <1>2, <2>3 DEF ContextAt
<1> QED
  BY <1>1, <1>2

(* Lines deeper than a given one are deep, and their last line is one.      *)
LEMMA Between ==
  ASSUME NEW d, IsFile(d), NEW n \in 1..Len(d), d[n].indent > 2
  PROVE  LET p == Parent(d, n) IN
         /\ p \in 1..(n - 1) /\ p \in 1..Len(d) /\ n - 1 \in p..Len(d) /\ n - 1 \in Nat
         /\ d[p].indent = d[n].indent - 2 /\ d[p].indent >= 2
         /\ \A j \in 1..(n - 1) : j > p => d[j].indent > d[p].indent /\ ~ (d[j].indent <= 2)
<1> DEFINE p == Parent(d, n)
<1>1. /\ p \in 1..(n - 1) /\ d[p].indent = d[n].indent - 2
      /\ \A j \in 1..(n - 1) : j > p => d[j].indent >= d[n].indent
  <2>1. d[n].indent > 0
    BY LinesSay
  <2> QED
    BY <2>1, ParentSays
<1>2. \A j \in 1..(n - 1) : d[j].indent \in Nat
  BY LinesSay
<1>3. d[n].indent \in Nat /\ d[n].indent >= 4
  <2>1. d[n].indent = 0 \/ d[n].indent = 2 \/ d[n].indent >= 4
    BY Levels
  <2>2. d[n].indent \in Nat
    BY LinesSay
  <2> QED
    BY <2>1, <2>2
<1>4. Len(d) \in Nat
  BY LinesSay
<1> HIDE DEF p
<1> QED
  BY <1>1, <1>2, <1>3, <1>4 DEF p

LEMMA ContextOfEntry ==
  ASSUME NEW d, IsFile(d), NEW n \in 1..Len(d), IsElement(d, n)
  PROVE  ContextAt(d, n - 1) = Block(d, n)
<1> DEFINE p == Parent(d, n)
<1>1. Opens(d, p) /\ Block(d, n) = d[p].key /\ d[p].key \in ListKeys
  BY ElementSays DEF InBlock
<1>2. /\ p \in 1..(n - 1) /\ p \in 1..Len(d) /\ n - 1 \in p..Len(d) /\ n - 1 \in Nat
      /\ \A j \in 1..(n - 1) : j > p => d[j].indent > d[p].indent /\ ~ (d[j].indent <= 2)
  BY Between DEF IsElement
<1> HIDE DEF p
<1>3. \A j \in 1..(n - 1) : j > p => ~ Opens(d, j)
  BY <1>1, <1>2, ListsOpenNothing
<1>4. ContextAt(d, n - 1) = ContextOf(d, p)
  BY <1>1, <1>2, <1>3, ContextIs DEF SetsContext
<1> QED
  BY <1>1, <1>4 DEF ContextOf

LEMMA ContextOfSegmentField ==
  ASSUME NEW d, IsFile(d), NEW n \in 1..Len(d), d[n].indent > 2, InSegment(d, n)
  PROVE  ContextAt(d, n - 1) = "segments"
<1> DEFINE q == Parent(d, n)
           p == Parent(d, q)
<1>1. IsElement(d, q) /\ Block(d, q) = "segments" /\ d[q].indent > 2
  BY DEF InSegment, IsElement
<1>2. /\ q \in 1..(n - 1) /\ q \in 1..Len(d) /\ n - 1 \in q..Len(d) /\ n - 1 \in Nat
      /\ \A j \in 1..(n - 1) : j > q => d[j].indent > d[q].indent /\ ~ (d[j].indent <= 2)
  BY Between
<1>3. Opens(d, p) /\ d[p].key = "segments"
  BY <1>1, <1>2, ElementSays DEF InBlock
<1>4. /\ p \in 1..(q - 1) /\ d[p].indent = d[q].indent - 2
      /\ \A j \in 1..(q - 1) : j > p => d[j].indent > d[p].indent /\ ~ (d[j].indent <= 2)
  <2> HIDE DEF q
  <2> QED
    BY <1>1, <1>2, Between
<1> HIDE DEF p, q
<1>5. \A j \in 1..(n - 1) : d[j].indent \in Nat
  BY LinesSay
<1>6. /\ p \in 1..Len(d) /\ n - 1 \in p..Len(d) /\ p \in 1..(n - 1)
  BY <1>2, <1>4
<1>7. \A j \in 1..(n - 1) : j > p => j \in 1..(q - 1) \/ j = q \/ j > q
  BY <1>2
<1>8. \A j \in 1..(n - 1) : j > p => d[j].indent > d[p].indent /\ ~ (d[j].indent <= 2)
  BY <1>1, <1>2, <1>4, <1>5, <1>6, <1>7
<1>9. \A j \in 1..(n - 1) : j > p => ~ Opens(d, j)
  BY <1>3, <1>6, <1>8, ListsOpenNothing DEF ListKeys
<1>10. ContextAt(d, n - 1) = ContextOf(d, p)
  BY <1>2, <1>3, <1>6, <1>8, <1>9, ContextIs DEF SetsContext
<1> QED
  BY <1>3, <1>10 DEF ContextOf

LEMMA ContextOfField ==
  ASSUME NEW d, IsFile(d), ScalarsFirst(d), NEW n \in 1..Len(d), d[n].indent > 2,
         d[n].kind = "field", SectionOf(d, n) = "intents", d[n].key \notin IntentBlocks
  PROVE  ContextAt(d, n - 1) = Block(d, n) /\ Block(d, n) # "segments"
<1> DEFINE p == Parent(d, n)
<1>1. /\ p \in 1..(n - 1) /\ p \in 1..Len(d) /\ n - 1 \in p..Len(d) /\ n - 1 \in Nat
      /\ \A j \in 1..(n - 1) : j > p => d[j].indent > d[p].indent /\ ~ (d[j].indent <= 2)
  BY Between
<1>2. \A j \in 1..(n - 1) : j > p => ~ Opens(d, j)
  <2>1. \A m \in (p + 1)..(n - 1) : ~ Opens(d, m)
    BY DEF ScalarsFirst, Lines
  <2> HIDE DEF p
  <2>2. \A j \in 1..(n - 1) : j > p => j \in (p + 1)..(n - 1)
    BY <1>1
  <2> QED
    BY <2>1, <2>2
<1>3. InItem(d, n) \/ InBlock(d, n)
  BY DeepSays DEF InSegment
<1>4. SectionOf(d, p) = "intents"
  <2>1. d[n].indent > 0
    BY LinesSay
  <2> QED
    BY <2>1, SectionOfParent
<1>5. CASE InItem(d, n)
  <2>1. SetsContext(d, p) /\ d[p].kind = "item" /\ Block(d, n) = "none"
    BY <1>5 DEF InItem, SetsContext, IsItemLine
  <2> HIDE DEF p
  <2>2. ContextAt(d, n - 1) = ContextOf(d, p)
    BY <1>1, <1>2, <2>1, ContextIs DEF SetsContext
  <2> QED
    BY <1>4, <2>1, <2>2 DEF ContextOf, Opens
<1>6. CASE InBlock(d, n)
  <2>1. SetsContext(d, p) /\ Opens(d, p) /\ Block(d, n) = d[p].key /\ d[p].key \in Blocks("intents")
    BY <1>6 DEF InBlock, SetsContext
  <2> HIDE DEF p
  <2>2. ContextAt(d, n - 1) = ContextOf(d, p)
    BY <1>1, <1>2, <2>1, ContextIs DEF SetsContext
  <2>3. Block(d, n) # "segments"
    BY <2>1 DEF Blocks, IntentBlocks
  <2> QED
    BY <2>1, <2>2, <2>3 DEF ContextOf
<1> QED
  BY <1>3, <1>5, <1>6

(* The item a deeper line belongs to is the last one before it.             *)
LEMMA ItemAbove ==
  ASSUME NEW d, IsFile(d), NEW n \in 1..Len(d), d[n].indent > 2
  PROVE  \E i \in 1..(n - 1) :
           /\ IsItemLine(d, i) /\ SectionOf(d, i) = SectionOf(d, n)
           /\ \A j \in 1..n : j > i => d[j].indent > 2
<1> DEFINE S == {m \in 1..n : d[m].indent <= 2}
           i == Max(S)
<1>1. S \in SUBSET (0..n) /\ 1 \in S /\ n \in Nat
  BY LinesSay
<1>2. i \in S /\ \A j \in S : j <= i
  <2> HIDE DEF S
  <2> QED
    BY <1>1, MaxIsThere
<1>3. i \in 1..n /\ d[i].indent <= 2
  BY <1>2
<1>4. \A j \in 1..n : j > i => d[j].indent > 2
  <2> TAKE j \in 1..n
  <2> HAVE j > i
  <2>1. j \notin S /\ d[j].indent \in Nat
    BY <1>2, <1>3, LinesSay
  <2> QED
    BY <2>1
<1> HIDE DEF i, S
<1>5. i \in 1..(n - 1) /\ i \in 1..Len(d) /\ d[i].indent \in Nat /\ Len(d) \in Nat
  BY <1>3, LinesSay
<1>6. d[i].indent # 0
  <2> SUFFICES ASSUME d[i].indent = 0 PROVE FALSE
    OBVIOUS
  <2> DEFINE m == i + 1
             q == Parent(d, m)
  <2>1. m \in 1..Len(d) /\ m \in 1..n /\ m > i
    BY <1>5
  <2>2. d[m].indent > 2
    BY <1>4, <2>1
  <2>3. /\ q \in 1..(m - 1) /\ d[q].indent >= 2
        /\ \A j \in 1..(m - 1) : j > q => ~ (d[j].indent <= 2)
    <3> HIDE DEF m
    <3> QED
      BY <2>1, <2>2, Between
  <2> HIDE DEF q
  <2>4. q = i \/ (i \in 1..(m - 1) /\ i > q)
    BY <1>5, <2>3
  <2> QED
    BY <2>3, <2>4
<1>7. IsItemLine(d, i)
  <2>1. d[i].indent = 0 \/ d[i].indent = 2 \/ d[i].indent >= 4
    BY <1>5, Levels
  <2>2. d[i].indent = 2
    BY <1>3, <1>5, <1>6, <2>1
  <2> QED
    BY <1>5, <2>2, Levels
<1>8. SectionOf(d, i) = SectionOf(d, n)
  <2>1. \A j \in 1..n : j > i => d[j].indent > 0
    BY <1>4, LinesSay
  <2> QED
    BY <1>3, <2>1, SameSection
<1> QED
  BY <1>4, <1>5, <1>7, <1>8

------------------------------------------------------------------------------
(* What one more line adds to what the lines before it say.                 *)

(* Stored, of a given line.                                                 *)
Put(l, item, keys) ==
  IF l.key \in DOMAIN keys
  THEN [item EXCEPT ![keys[l.key]] = Convert(keys[l.key], l.value)] ELSE item

(* What k lines say of a section: one item for each of its item lines, in   *)
(* their order.                                                             *)
SectionRead(d, s, k) ==
  LET S == ItemLines(d, s, k)
      f == Said(d, k)[s]
  IN /\ S \in SUBSET (1..k) /\ S \in SUBSET Nat /\ IsFiniteSet(S) /\ Cardinality(S) \in Nat
     /\ \A x \in 1..Cardinality(S) :
          InOrder(S)[x] \in S /\ f[x] = ItemAt(d, s, InOrder(S)[x], k)
     /\ IsList(f) /\ Len(f) = Cardinality(S) /\ DOMAIN f = 1..Cardinality(S)

LEMMA SectionIsRead ==
  ASSUME NEW d, NEW s \in Sections, NEW k \in Nat
  PROVE  SectionRead(d, s, k)
<1> DEFINE S == ItemLines(d, s, k)
           c == Cardinality(S)
           f == Said(d, k)[s]
<1>1. S \in SUBSET (1..k)
  BY DEF ItemLines
<1>2. S \in SUBSET Nat /\ IsFiniteSet(S) /\ c \in Nat
  <2> HIDE DEF S
  <2> QED
    BY <1>1, LinesAreFinite
<1>3. DOMAIN InOrder(S) = 1..c /\ \A x \in 1..c : InOrder(S)[x] \in S
  <2> HIDE DEF S
  <2> QED
    BY <1>2, OrderPlaces
<1>4. f = [x \in 1..c |-> ItemAt(d, s, InOrder(S)[x], k)]
  BY <1>3 DEF Said
<1>5. IsList(f) /\ Len(f) = c /\ DOMAIN f = 1..c
  <2> HIDE DEF c, S
  <2>1. c \in Nat /\ f = [x \in 1..c |-> f[x]]
    BY <1>2, <1>4
  <2> HIDE DEF f
  <2>2. f \in Seq(Range(f))
    BY <2>1, IsASeq DEF Range
  <2> QED
    BY <2>1, <2>2 DEF IsList
<1> HIDE DEF S, c
<1>6. \A x \in 1..c : f[x] = ItemAt(d, s, InOrder(S)[x], k)
  BY <1>4
<1> HIDE DEF f
<1> QED
  BY <1>1, <1>2, <1>3, <1>5, <1>6 DEF S, c, f, SectionRead

LEMMA SaidIs ==
  ASSUME NEW d, NEW k
  PROVE  Said(d, k) = [s \in Sections |-> Said(d, k)[s]]
BY DEF Said

LEMMA ListedSays ==
  ASSUME NEW n \in Nat, NEW d, NEW e \in SUBSET (1..n), NEW l
  PROVE  /\ Listed(d, e, l) \in SUBSET e /\ Listed(d, e, l) \in SUBSET Nat
         /\ IsFiniteSet(Listed(d, e, l)) /\ Cardinality(Listed(d, e, l)) \in Nat
         /\ DOMAIN InOrder(Listed(d, e, l)) = 1..Cardinality(Listed(d, e, l))
         /\ \A x \in 1..Cardinality(Listed(d, e, l)) :
              InOrder(Listed(d, e, l))[x] \in Listed(d, e, l)
<1> DEFINE S == Listed(d, e, l)
<1>1. S \in SUBSET e /\ S \in SUBSET (1..n)
  BY DEF Listed
<1> HIDE DEF S
<1>2. S \in SUBSET Nat /\ IsFiniteSet(S) /\ Cardinality(S) \in Nat
  BY <1>1, LinesAreFinite
<1>3. DOMAIN InOrder(S) = 1..Cardinality(S) /\ \A x \in 1..Cardinality(S) : InOrder(S)[x] \in S
  BY <1>2, OrderPlaces
<1> QED
  BY <1>1, <1>2, <1>3 DEF S

LEMMA SameEntries ==
  ASSUME NEW f, NEW g, IsList(f), IsList(g), DOMAIN f = DOMAIN g, \A x \in DOMAIN f : f[x] = g[x]
  PROVE  f = g
<1> DEFINE S == Range(f) \cup Range(g)
<1>1. f \in Seq(S) /\ g \in Seq(S)
  BY DEF IsList
<1> HIDE DEF S
<1>2. Len(f) = Len(g) /\ \A x \in 1..Len(f) : f[x] = g[x]
  BY <1>1
<1> QED
  BY <1>1, <1>2, SeqEqual

(* The entries of a list in the order of their lines.                       *)
IsOrdered(d, i, k, l) ==
  LET S == Listed(d, Extent(d, i, k), l)
      f == ListAt(d, i, k, l)
  IN /\ S \in SUBSET Nat /\ S \in SUBSET Extent(d, i, k) /\ IsFiniteSet(S)
     /\ Cardinality(S) \in Nat
     /\ \A x \in 1..Cardinality(S) :
          InOrder(S)[x] \in S /\ f[x] = EntryAt(d, InOrder(S)[x], k, l)
     /\ IsList(f) /\ Len(f) = Cardinality(S) /\ DOMAIN f = 1..Cardinality(S)

LEMMA ListAtIs ==
  ASSUME NEW d, NEW i \in Nat \ {0}, NEW k \in Nat, NEW l
  PROVE  IsOrdered(d, i, k, l)
<1> DEFINE S == Listed(d, Extent(d, i, k), l)
           c == Cardinality(S)
           f == ListAt(d, i, k, l)
<1>1. Extent(d, i, k) \in SUBSET (1..k)
  BY DEF Extent
<1>2. /\ S \in SUBSET Nat /\ S \in SUBSET Extent(d, i, k) /\ IsFiniteSet(S) /\ c \in Nat
      /\ DOMAIN InOrder(S) = 1..c /\ \A x \in 1..c : InOrder(S)[x] \in S
  BY <1>1, ListedSays
<1>3. f = [x \in 1..c |-> EntryAt(d, InOrder(S)[x], k, l)]
  BY <1>2 DEF ListAt
<1>4. IsList(f) /\ Len(f) = c /\ DOMAIN f = 1..c
  <2> HIDE DEF c, S
  <2>1. c \in Nat /\ f = [x \in 1..c |-> f[x]]
    BY <1>2, <1>3
  <2> HIDE DEF f
  <2>2. f \in Seq(Range(f))
    BY <2>1, IsASeq DEF Range
  <2> QED
    BY <2>1, <2>2 DEF IsList
<1> HIDE DEF S, c
<1>5. \A x \in 1..c : f[x] = EntryAt(d, InOrder(S)[x], k, l)
  BY <1>3
<1> HIDE DEF f
<1> QED
  BY <1>2, <1>4, <1>5 DEF S, c, f, IsOrdered

(* Once a line no deeper than an item follows it, nothing is added to it.   *)
LEMMA ExtentEnds ==
  ASSUME NEW d, IsFile(d), NEW n \in 1..Len(d), NEW i \in 1..(n - 1),
         NEW j \in 1..n, j > i, d[j].indent <= d[i].indent
  PROVE  Extent(d, i, n) = Extent(d, i, n - 1)
<1>1. n \notin Extent(d, i, n)
  BY LinesSay DEF Extent
<1>2. \A m \in i..n : m = n \/ m \in i..(n - 1)
  BY LinesSay
<1>3. \A m \in i..(n - 1) : m \in i..n
  BY LinesSay
<1> QED
  BY <1>1, <1>2, <1>3 DEF Extent

LEMMA SameList ==
  ASSUME NEW d, NEW n \in Nat, NEW k \in Nat, NEW i \in Nat \ {0}, NEW l,
         Listed(d, Extent(d, i, n), l) = Listed(d, Extent(d, i, k), l),
         \A m \in Listed(d, Extent(d, i, n), l) : EntryAt(d, m, n, l) = EntryAt(d, m, k, l)
  PROVE  ListAt(d, i, n, l) = ListAt(d, i, k, l)
<1> DEFINE S == Listed(d, Extent(d, i, n), l)
           f == ListAt(d, i, n, l)
           g == ListAt(d, i, k, l)
<1>1. IsOrdered(d, i, n, l) /\ IsOrdered(d, i, k, l)
  BY ListAtIs
<1>2. /\ \A x \in 1..Cardinality(S) :
           InOrder(S)[x] \in S /\ f[x] = EntryAt(d, InOrder(S)[x], n, l)
      /\ IsList(f) /\ DOMAIN f = 1..Cardinality(S)
  BY <1>1 DEF IsOrdered
<1>3. \A m \in S : EntryAt(d, m, n, l) = EntryAt(d, m, k, l)
  OBVIOUS
<1>4. /\ \A x \in 1..Cardinality(S) : g[x] = EntryAt(d, InOrder(S)[x], k, l)
      /\ IsList(g) /\ DOMAIN g = 1..Cardinality(S)
  BY <1>1 DEF IsOrdered
<1> HIDE DEF S, f, g
<1>5. \A x \in DOMAIN f : f[x] = g[x]
  BY <1>2, <1>3, <1>4
<1>6. f = g
  BY <1>2, <1>4, <1>5, SameEntries
<1> QED
  BY <1>6 DEF f, g

LEMMA ItemUntouched ==
  ASSUME NEW d, IsFile(d), NEW n \in 1..Len(d), NEW i \in 1..(n - 1), NEW s,
         NEW j \in 1..n, j > i, d[j].indent <= d[i].indent
  PROVE  ItemAt(d, s, i, n) = ItemAt(d, s, i, n - 1)
<1>1. Extent(d, i, n) = Extent(d, i, n - 1)
  BY ExtentEnds
<1>2. ASSUME NEW m \in Extent(d, i, n) PROVE SegmentAt(d, m, n) = SegmentAt(d, m, n - 1)
  <2>1. m \in i..(n - 1) /\ m \in 1..(n - 1) /\ \A x \in (i + 1)..m : d[x].indent > d[i].indent
    BY <1>1, LinesSay DEF Extent
  <2>2. \A x \in 1..n : d[x].indent \in Nat
    BY LinesSay
  <2>3. j > m
    <3> SUFFICES ASSUME j <= m PROVE FALSE
      BY <2>1
    <3>1. d[j].indent > d[i].indent
      BY <2>1
    <3> QED
      BY <2>1, <2>2, <3>1
  <2>4. d[j].indent <= d[m].indent
    <3>1. m = i \/ d[m].indent > d[i].indent
      BY <2>1
    <3> QED
      BY <2>1, <2>2, <3>1
  <2>5. Extent(d, m, n) = Extent(d, m, n - 1)
    BY <2>1, <2>3, <2>4, ExtentEnds
  <2> QED
    BY <2>5 DEF SegmentAt
<1>3. \A l : ListAt(d, i, n, l) = ListAt(d, i, n - 1, l)
  <2> TAKE l
  <2>1. Listed(d, Extent(d, i, n), l) \subseteq Extent(d, i, n)
    BY DEF Listed
  <2>2. n \in Nat /\ n - 1 \in Nat /\ i \in Nat \ {0}
    BY LinesSay
  <2>3. \A m \in Listed(d, Extent(d, i, n), l) : EntryAt(d, m, n, l) = EntryAt(d, m, n - 1, l)
    BY <1>2, <2>1 DEF EntryAt
  <2> QED
    BY <1>1, <2>2, <2>3, SameList
<1> QED
  BY <1>1, <1>3 DEF ItemAt

------------------------------------------------------------------------------
(* What a header, an item line and a deeper line add.                       *)

LEMMA IsAppended ==
  ASSUME NEW old, IsList(old), NEW new, IsList(new), DOMAIN new = 1..(Len(old) + 1),
         NEW e, new[Len(old) + 1] = e, \A x \in 1..Len(old) : new[x] = old[x]
  PROVE  new = Append(old, e)
<1> DEFINE c == Len(old)
           f == Append(old, e)
<1>1. c \in Nat /\ DOMAIN old = 1..c
  BY DEF IsList
<1>2. /\ IsList(f) /\ Len(f) = c + 1
      /\ \A x \in DOMAIN f : f[x] = IF x \in 1..c THEN old[x] ELSE e
  BY <1>1, ListGrows
<1>3. DOMAIN f = 1..(c + 1)
  BY <1>2 DEF IsList
<1>4. /\ DOMAIN new = 1..(c + 1) /\ new[c + 1] = e
      /\ \A x \in 1..c : new[x] = old[x]
  OBVIOUS
<1>5. \A x \in 1..(c + 1) : x \in 1..c \/ x = c + 1
  BY <1>1
<1>6. c + 1 \notin 1..c
  BY <1>1
<1> HIDE DEF c, f
<1>7. \A x \in DOMAIN new : new[x] = f[x]
  BY <1>2, <1>3, <1>4, <1>5, <1>6
<1>8. new = f
  BY <1>2, <1>3, <1>4, <1>7, SameEntries
<1> QED
  BY <1>8 DEF f

LEMMA IsReplaced ==
  ASSUME NEW old, IsList(old), NEW c \in Nat \ {0}, Len(old) = c,
         NEW new, IsList(new), DOMAIN new = 1..c,
         NEW e, new[c] = e, \A x \in 1..(c - 1) : new[x] = old[x]
  PROVE  c \in DOMAIN old /\ new = [old EXCEPT ![c] = e]
<1> DEFINE f == [old EXCEPT ![c] = e]
<1>1. DOMAIN old = 1..c /\ c \in 1..c
  BY DEF IsList
<1>2. IsList(f) /\ DOMAIN f = 1..c
  BY <1>1, EntryReplaced
<1>3. \A x \in 1..c : f[x] = IF x = c THEN e ELSE old[x]
  BY <1>1
<1>4. \A x \in 1..c : x = c \/ x \in 1..(c - 1)
  OBVIOUS
<1> HIDE DEF f
<1>5. \A x \in DOMAIN new : new[x] = f[x]
  BY <1>3, <1>4
<1>6. new = f
  BY <1>2, <1>5, SameEntries
<1> QED
  BY <1>1, <1>6 DEF f

LEMMA SameSectionSaid ==
  ASSUME NEW d, NEW s \in Sections, NEW n \in Nat, NEW k \in Nat,
         ItemLines(d, s, n) = ItemLines(d, s, k),
         \A i \in ItemLines(d, s, n) : ItemAt(d, s, i, n) = ItemAt(d, s, i, k)
  PROVE  Said(d, n)[s] = Said(d, k)[s]
<1> DEFINE S == ItemLines(d, s, n)
           f == Said(d, n)[s]
           g == Said(d, k)[s]
<1>1. SectionRead(d, s, n) /\ SectionRead(d, s, k)
  BY SectionIsRead
<1>2. /\ \A x \in 1..Cardinality(S) :
           InOrder(S)[x] \in S /\ f[x] = ItemAt(d, s, InOrder(S)[x], n)
      /\ IsList(f) /\ DOMAIN f = 1..Cardinality(S)
  BY <1>1 DEF SectionRead
<1>3. \A i \in S : ItemAt(d, s, i, n) = ItemAt(d, s, i, k)
  OBVIOUS
<1>4. /\ \A x \in 1..Cardinality(S) : g[x] = ItemAt(d, s, InOrder(S)[x], k)
      /\ IsList(g) /\ DOMAIN g = 1..Cardinality(S)
  BY <1>1 DEF SectionRead
<1> HIDE DEF S, f, g
<1>5. \A x \in DOMAIN f : f[x] = g[x]
  BY <1>2, <1>3, <1>4
<1>6. f = g
  BY <1>2, <1>4, <1>5, SameEntries
<1> QED
  BY <1>6 DEF f, g

LEMMA SameItemLines ==
  ASSUME NEW d, NEW s, NEW n \in Nat \ {0}, ~ (IsItemLine(d, n) /\ SectionOf(d, n) = s)
  PROVE  ItemLines(d, s, n) = ItemLines(d, s, n - 1)
<1>1. \A m \in 1..n : m = n \/ m \in 1..(n - 1)
  OBVIOUS
<1>2. \A m \in 1..(n - 1) : m \in 1..n
  OBVIOUS
<1> QED
  BY <1>1, <1>2 DEF ItemLines

(* A line no deeper than the items leaves all before it as they are.        *)
LEMMA ShallowLeaves ==
  ASSUME NEW d, IsFile(d), NEW n \in 1..Len(d), d[n].indent <= 2,
         NEW s, NEW i \in ItemLines(d, s, n - 1)
  PROVE  ItemAt(d, s, i, n) = ItemAt(d, s, i, n - 1)
<1>1. i \in 1..(n - 1) /\ d[i].indent = 2
  BY DEF ItemLines, IsItemLine
<1>2. n \in 1..n /\ n > i /\ d[n].indent <= d[i].indent
  BY <1>1
<1> QED
  BY <1>1, <1>2, ItemUntouched

LEMMA HeaderAddsNothing ==
  ASSUME NEW d, IsFile(d), NEW n \in 1..Len(d), d[n].indent = 0
  PROVE  Said(d, n) = Said(d, n - 1)
<1>1. n \in Nat \ {0} /\ n \in Nat /\ n - 1 \in Nat
  BY LinesSay
<1>2. ASSUME NEW s \in Sections PROVE Said(d, n)[s] = Said(d, n - 1)[s]
  <2>1. ItemLines(d, s, n) = ItemLines(d, s, n - 1)
    BY <1>1, SameItemLines DEF IsItemLine
  <2>2. \A i \in ItemLines(d, s, n) : ItemAt(d, s, i, n) = ItemAt(d, s, i, n - 1)
    BY <2>1, ShallowLeaves
  <2> QED
    BY <1>1, <2>1, <2>2, SameSectionSaid
<1>3. Said(d, n) = [s \in Sections |-> Said(d, n)[s]]
  BY SaidIs
<1>4. Said(d, n - 1) = [s \in Sections |-> Said(d, n - 1)[s]]
  BY SaidIs
<1> QED
  BY <1>2, <1>3, <1>4

LEMMA ItemAdds ==
  ASSUME NEW d, IsFile(d), NEW n \in 1..Len(d), IsItemLine(d, n), NEW t, t = SectionOf(d, n)
  PROVE  /\ Said(d, n) = [Said(d, n - 1) EXCEPT ![t] = Append(@, ItemAt(d, t, n, n))]
         /\ Cardinality(ItemLines(d, t, n)) = Len(Said(d, n - 1)[t]) + 1
<1>1. n \in Nat \ {0} /\ n \in Nat /\ n - 1 \in Nat /\ d[n].indent = 2
  BY LinesSay DEF IsItemLine
<1>2. t \in Sections
  BY SectionSays
<1>3. ASSUME NEW s \in Sections, s # t PROVE Said(d, n)[s] = Said(d, n - 1)[s]
  <2>1. ItemLines(d, s, n) = ItemLines(d, s, n - 1)
    BY <1>1, <1>3, SameItemLines
  <2>2. \A i \in ItemLines(d, s, n) : ItemAt(d, s, i, n) = ItemAt(d, s, i, n - 1)
    BY <1>1, <2>1, ShallowLeaves
  <2> QED
    BY <1>1, <2>1, <2>2, SameSectionSaid
<1> DEFINE S == ItemLines(d, t, n - 1)
           c == Cardinality(S)
           old == Said(d, n - 1)[t]
           new == Said(d, n)[t]
           item == ItemAt(d, t, n, n)
<1>4. /\ \A x \in 1..c : InOrder(S)[x] \in S /\ old[x] = ItemAt(d, t, InOrder(S)[x], n - 1)
      /\ IsList(old) /\ Len(old) = c /\ DOMAIN old = 1..c /\ c \in Nat
      /\ S \in SUBSET (1..(n - 1)) /\ S \in SUBSET Nat /\ IsFiniteSet(S)
  <2>1. SectionRead(d, t, n - 1)
    BY <1>1, <1>2, SectionIsRead
  <2> QED
    BY <2>1 DEF SectionRead
<1>5. ItemLines(d, t, n) = S \cup {n}
  <2>1. \A m \in 1..n : m = n \/ m \in 1..(n - 1)
    BY <1>1
  <2>2. n \in 1..n /\ \A m \in 1..(n - 1) : m \in 1..n
    BY <1>1
  <2> QED
    BY <2>1, <2>2 DEF ItemLines
<1>6. /\ Cardinality(S \cup {n}) = c + 1
      /\ \A x \in 1..c : InOrder(S \cup {n})[x] = InOrder(S)[x]
      /\ InOrder(S \cup {n})[c + 1] = n
  <2>1. \A m \in S : m < n
    BY <1>1, <1>4
  <2> HIDE DEF S
  <2> QED
    BY <1>1, <1>4, <2>1, OrderGrows
<1>7. /\ \A x \in 1..(c + 1) : new[x] = ItemAt(d, t, InOrder(S \cup {n})[x], n)
      /\ IsList(new) /\ DOMAIN new = 1..(c + 1)
  <2>1. SectionRead(d, t, n)
    BY <1>1, <1>2, SectionIsRead
  <2> QED
    BY <1>5, <1>6, <2>1 DEF SectionRead
<1>8. \A m \in S : ItemAt(d, t, m, n) = ItemAt(d, t, m, n - 1)
  BY <1>1, ShallowLeaves
<1> HIDE DEF S, c, old, new, item
<1>9. new = Append(old, item)
  <2>1. new[c + 1] = item
    <3>1. c + 1 \in 1..(c + 1)
      BY <1>4
    <3>2. new[c + 1] = ItemAt(d, t, InOrder(S \cup {n})[c + 1], n)
      BY <1>7, <3>1
    <3> QED
      BY <1>6, <3>2 DEF item
  <2>2. ASSUME NEW x \in 1..c PROVE new[x] = old[x]
    <3>1. x \in 1..(c + 1)
      BY <1>4
    <3>2. new[x] = ItemAt(d, t, InOrder(S)[x], n) /\ InOrder(S)[x] \in S
      BY <1>4, <1>6, <1>7, <3>1
    <3> QED
      BY <1>4, <1>8, <3>2
  <2> QED
    BY <1>4, <1>7, <2>1, <2>2, IsAppended
<1>10. Said(d, n) = [Said(d, n - 1) EXCEPT ![t] = Append(@, item)]
  <2>1. Said(d, n) = [s \in Sections |-> Said(d, n)[s]]
    BY SaidIs
  <2>2. Said(d, n - 1) = [s \in Sections |-> Said(d, n - 1)[s]]
    BY SaidIs
  <2>3. Said(d, n)[t] = Append(Said(d, n - 1)[t], item)
    BY <1>9 DEF new, old
  <2> QED
    BY <1>2, <1>3, <2>1, <2>2, <2>3
<1> QED
  BY <1>4, <1>5, <1>6, <1>10 DEF item, old, c

(* The item a deeper line belongs to, and what is said of it.               *)
IsItemOf(d, i, n) ==
  /\ i \in 1..(n - 1) /\ IsItemLine(d, i) /\ SectionOf(d, i) = SectionOf(d, n)
  /\ \A j \in 1..n : j > i => d[j].indent > 2

LEMMA DeepChangesItem ==
  ASSUME NEW d, IsFile(d), NEW n \in 1..Len(d), d[n].indent > 2,
         NEW i \in 1..(n - 1), IsItemOf(d, i, n),
         NEW t, t = SectionOf(d, n), NEW c, c = Len(Said(d, n - 1)[t])
  PROVE  /\ c \in DOMAIN Said(d, n - 1)[t]
         /\ Said(d, n - 1)[t][c] = ItemAt(d, t, i, n - 1)
         /\ Said(d, n) = [Said(d, n - 1) EXCEPT ![t][c] = ItemAt(d, t, i, n)]
         /\ i \in ItemLines(d, t, n)
<1>1. /\ n \in Nat \ {0} /\ n \in Nat /\ n - 1 \in Nat /\ i \in 1..(n - 1) /\ d[i].indent = 2
      /\ IsItemLine(d, i) /\ SectionOf(d, i) = t /\ \A j \in 1..n : j > i => d[j].indent > 2
  BY LinesSay DEF IsItemOf, IsItemLine
<1>2. t \in Sections
  BY SectionSays
<1>3. \A s : ItemLines(d, s, n) = ItemLines(d, s, n - 1)
  <2>1. ~ IsItemLine(d, n)
    BY DEF IsItemLine
  <2> QED
    BY <1>1, <2>1, SameItemLines
<1>4. ASSUME NEW s, NEW m \in ItemLines(d, s, n - 1), m # i
      PROVE  m < i /\ ItemAt(d, s, m, n) = ItemAt(d, s, m, n - 1)
  <2>1. m \in 1..(n - 1) /\ d[m].indent = 2
    BY DEF ItemLines, IsItemLine
  <2>2. m < i
    <3>1. ~ (m > i)
      BY <1>1, <2>1
    <3> QED
      BY <1>1, <1>4, <2>1, <3>1
  <2>3. i \in 1..n /\ i > m /\ d[i].indent <= d[m].indent
    BY <1>1, <2>1, <2>2
  <2> QED
    BY <2>1, <2>2, <2>3, ItemUntouched
<1>5. ASSUME NEW s \in Sections, s # t PROVE Said(d, n)[s] = Said(d, n - 1)[s]
  <2>1. \A m \in ItemLines(d, s, n) : ItemAt(d, s, m, n) = ItemAt(d, s, m, n - 1)
    <3>1. i \notin ItemLines(d, s, n - 1)
      BY <1>1, <1>5 DEF ItemLines
    <3> QED
      BY <1>3, <1>4, <3>1
  <2>2. ItemLines(d, s, n) = ItemLines(d, s, n - 1)
    BY <1>3
  <2> QED
    BY <1>1, <2>1, <2>2, SameSectionSaid
<1> DEFINE S == ItemLines(d, t, n - 1)
           old == Said(d, n - 1)[t]
           new == Said(d, n)[t]
           item == ItemAt(d, t, i, n)
<1>6. /\ \A x \in 1..Cardinality(S) :
           InOrder(S)[x] \in S /\ old[x] = ItemAt(d, t, InOrder(S)[x], n - 1)
      /\ IsList(old) /\ Len(old) = Cardinality(S)
      /\ S \in SUBSET Nat /\ IsFiniteSet(S)
  <2>1. SectionRead(d, t, n - 1)
    BY <1>1, <1>2, SectionIsRead
  <2> QED
    BY <2>1 DEF SectionRead
<1>7. /\ \A x \in 1..Cardinality(S) : new[x] = ItemAt(d, t, InOrder(S)[x], n)
      /\ IsList(new) /\ DOMAIN new = 1..Cardinality(S)
  <2>1. SectionRead(d, t, n)
    BY <1>1, <1>2, SectionIsRead
  <2> QED
    BY <1>3, <2>1 DEF SectionRead
<1>8. i \in S /\ \A y \in S : y <= i
  <2>1. i \in S
    BY <1>1 DEF ItemLines
  <2>2. \A y \in S : y = i \/ y < i
    BY <1>4
  <2> HIDE DEF S
  <2> QED
    BY <1>1, <1>6, <2>1, <2>2
<1> HIDE DEF S, old, new, item
<1>9. /\ Cardinality(S) \in Nat \ {0} /\ InOrder(S)[Cardinality(S)] = i
      /\ \A x \in 1..(Cardinality(S) - 1) : InOrder(S)[x] \in S /\ InOrder(S)[x] < i
  BY <1>6, <1>8, OrderEnds
<1>10. c = Cardinality(S)
  BY <1>6 DEF old
<1>11. c \in Nat \ {0} /\ new[c] = item /\ old[c] = ItemAt(d, t, i, n - 1) /\ c \in 1..c
  <2>1. c \in 1..c /\ c \in Nat \ {0}
    BY <1>9, <1>10
  <2>2. new[c] = ItemAt(d, t, InOrder(S)[c], n) /\ old[c] = ItemAt(d, t, InOrder(S)[c], n - 1)
    BY <1>6, <1>7, <1>10, <2>1
  <2> QED
    BY <1>9, <1>10, <2>1, <2>2 DEF item
<1>12. ASSUME NEW x \in 1..(c - 1) PROVE new[x] = old[x]
  <2>1. x \in 1..c /\ InOrder(S)[x] \in S /\ InOrder(S)[x] # i
    <3>1. x \in 1..c
      BY <1>11
    <3>2. InOrder(S)[x] \in S /\ InOrder(S)[x] < i
      BY <1>9, <1>10
    <3> QED
      BY <1>1, <3>1, <3>2
  <2>2. ItemAt(d, t, InOrder(S)[x], n) = ItemAt(d, t, InOrder(S)[x], n - 1)
    BY <1>4, <2>1 DEF S
  <2> QED
    BY <1>6, <1>7, <1>10, <2>1, <2>2
<1>13. c \in DOMAIN old /\ new = [old EXCEPT ![c] = item]
  BY <1>6, <1>7, <1>10, <1>11, <1>12, IsReplaced
<1>14. Said(d, n) = [Said(d, n - 1) EXCEPT ![t][c] = item]
  <2>1. Said(d, n) = [s \in Sections |-> Said(d, n)[s]]
    BY SaidIs
  <2>2. Said(d, n - 1) = [s \in Sections |-> Said(d, n - 1)[s]]
    BY SaidIs
  <2>3. Said(d, n)[t] = [Said(d, n - 1)[t] EXCEPT ![c] = item]
    BY <1>13 DEF new, old
  <2> QED
    BY <1>2, <1>5, <2>1, <2>2, <2>3
<1>15. i \in ItemLines(d, t, n)
  BY <1>3, <1>8 DEF S
<1> QED
  BY <1>11, <1>13, <1>14, <1>15 DEF item, old

------------------------------------------------------------------------------
(* Which fields and lists of its item a line leaves alone.                  *)

(* Which keys are told apart.                                               *)
LEMMA KeysApart ==
  ASSUME NEW s \in Sections, NEW block
  PROVE  /\ \A key \in Blocks(s) : key \notin DOMAIN KeysOf(s, block)
         /\ "" \notin DOMAIN KeysOf(s, block) /\ "" \notin DOMAIN SegmentKeys
<1>1. CASE s = "tunnels"
  BY <1>1 DEF KeysOf, TunnelKeys, SegmentKeys, Blocks
<1>2. CASE s = "vpp_edges"
  BY <1>2 DEF KeysOf, EdgeKeys, SegmentKeys, Blocks
<1>3. CASE s = "paths"
  BY <1>3 DEF KeysOf, PathKeys, SegmentKeys, Blocks
<1>4. CASE s = "intents"
  <2>1. KeysOf(s, block) = IntentKeys(block)
    BY <1>4 DEF KeysOf
  <2>2. DOMAIN IntentKeys(block) \subseteq
          {"mode", "path_id", "max_rtt_ms", "max_packet_loss_percent", "strategy", "max_pause_ms",
           "drain_timeout_ms", "timeout_ms", "enabled", "id", "intent_id", "source", "destination"}
    <3>1. CASE block = "path_selection"
      BY <3>1 DEF IntentKeys
    <3>2. CASE block = "constraints"
      BY <3>2 DEF IntentKeys
    <3>3. CASE block = "transition"
      BY <3>3 DEF IntentKeys
    <3>4. CASE block = "fallback"
      BY <3>4 DEF IntentKeys
    <3>5. CASE block \notin {"path_selection", "constraints", "transition", "fallback"}
      BY <3>5 DEF IntentKeys
    <3> QED
      BY <3>1, <3>2, <3>3, <3>4, <3>5
  <2>3. Blocks(s) = {"traffic", "path_selection", "candidates", "constraints", "comparison_order",
                     "transition", "fallback", "forbidden_waypoints", "required_waypoints"}
    BY <1>4 DEF Blocks, IntentBlocks
  <2>4. "" \notin DOMAIN SegmentKeys
    BY DEF SegmentKeys
  <2>5. \A key \in DOMAIN IntentKeys(block) : key # ""
    BY <2>2
  <2>6. ASSUME NEW key \in Blocks(s) PROVE key \notin DOMAIN KeysOf(s, block)
    <3>1. key \notin DOMAIN IntentKeys(block)
      BY <2>2, <2>3, <2>6
    <3> QED
      BY <2>1, <3>1
  <2> QED
    BY <2>1, <2>4, <2>5, <2>6
<1> QED
  BY <1>1, <1>2, <1>3, <1>4 DEF Sections

LEMMA SegmentsApart ==
  ASSUME NEW f \in DOMAIN Default.paths, NEW key \in DOMAIN SegmentKeys
  PROVE  SegmentKeys[key] # f
<1>1. f \in Range(PathKeys) \cup DOMAIN PathDefaults
  BY DEF Default, BlankBut
<1>2. f \in {"path_id", "source", "destination", "prefix", "next_hop", "egress", "priority",
             "waypoints", "segments"}
  BY <1>1, ListsOfDefaults DEF Range, PathKeys
<1>3. SegmentKeys[key] \in {"segment_id", "from_node", "to_node", "tunnel_id"}
  BY DEF SegmentKeys
<1> QED
  BY <1>2, <1>3

LEMMA SegmentLevel ==
  ASSUME NEW d, IsFile(d), NEW m \in 1..Len(d), d[m].kind = "item", Block(d, m) = "segments"
  PROVE  IsElement(d, m) /\ d[m].indent = 6 /\ SectionOf(d, m) = "paths"
<1>1. d[m].indent > 2
  <2>1. d[m].indent # 0
    BY Levels
  <2>2. d[m].indent # 2
    <3>1. ~ IsItemLine(d, m)
      BY DEF Block
    <3> QED
      BY <3>1 DEF IsItemLine
  <2>3. d[m].indent = 0 \/ d[m].indent = 2 \/ d[m].indent >= 4
    BY Levels
  <2>4. d[m].indent \in Nat
    BY LinesSay
  <2> QED
    BY <2>1, <2>2, <2>3, <2>4
<1> DEFINE p == Parent(d, m)
<1>2. /\ Opens(d, p) /\ "segments" \in Blocks(SectionOf(d, m))
  BY <1>1, ElementSays DEF IsElement, InBlock
<1>3. SectionOf(d, m) = "paths"
  BY <1>2, SectionSays DEF Blocks, IntentBlocks, Sections
<1>4. /\ p \in 1..Len(d) /\ SectionOf(d, p) = "paths" /\ d[p].indent = d[m].indent - 2
  <2>1. d[m].indent > 0
    BY <1>1, LinesSay
  <2> QED
    BY <1>1, <1>3, <2>1, SectionOfParent, Between
<1>5. InItem(d, p)
  BY <1>2, <1>4, OpenerSays
<1>6. d[m].indent \in Nat
  BY LinesSay
<1> QED
  BY <1>1, <1>3, <1>4, <1>5, <1>6 DEF InItem, IsElement

(* What one line changes: a field, or the end of a list.                    *)
LEMMA ScalarGrows ==
  ASSUME NEW d, NEW s, NEW n \in Nat, NEW e \in SUBSET Nat, \A m \in e : m < n,
         NEW f, NEW default
  PROVE  Scalar(d, s, e \cup {n}, f, default) =
           IF Says(d, s, n, f) THEN Convert(f, d[n].value) ELSE Scalar(d, s, e, f, default)
<1> DEFINE T == {m \in e \cup {n} : Says(d, s, m, f)}
<1>0. Scalar(d, s, e \cup {n}, f, default) = IF T = {} THEN default ELSE Convert(f, d[Max(T)].value)
  BY DEF Scalar
<1>1. CASE Says(d, s, n, f)
  <2>1. T \in SUBSET Nat /\ n \in T /\ \A m \in T : m <= n
    <3>1. n \in T
      BY <1>1, Zenon
    <3>2. \A m \in e \cup {n} : m \in Nat /\ m <= n
      OBVIOUS
    <3> QED
      BY <3>1, <3>2, Zenon
  <2>2. Max(T) = n
    <3> HIDE DEF T
    <3> QED
      BY <2>1, MaxIs
  <2>3. T # {}
    BY <2>1
  <2> HIDE DEF T
  <2> QED
    BY <1>0, <1>1, <2>2, <2>3
<1>2. CASE ~ Says(d, s, n, f)
  <2>1. T = {m \in e : Says(d, s, m, f)}
    BY <1>2
  <2>2. Scalar(d, s, e, f, default) =
          IF {m \in e : Says(d, s, m, f)} = {} THEN default
          ELSE Convert(f, d[Max({m \in e : Says(d, s, m, f)})].value)
    BY DEF Scalar
  <2> HIDE DEF T
  <2> QED
    BY <1>0, <1>2, <2>1, <2>2
<1> QED
  BY <1>1, <1>2

LEMMA ExtentOf ==
  ASSUME NEW d, NEW i \in Nat, NEW k \in Nat, \A j \in (i + 1)..k : d[j].indent > d[i].indent
  PROVE  Extent(d, i, k) = i..k
<1>1. \A m \in i..k : \A j \in (i + 1)..m : j \in (i + 1)..k
  OBVIOUS
<1> QED
  BY <1>1 DEF Extent

LEMMA ExtentGrows ==
  ASSUME NEW d, IsFile(d), NEW n \in 1..Len(d), NEW i \in 1..(n - 1),
         \A j \in 1..n : j > i => d[j].indent > d[i].indent
  PROVE  /\ Extent(d, i, n) = Extent(d, i, n - 1) \cup {n}
         /\ Extent(d, i, n - 1) = i..(n - 1)
         /\ Extent(d, i, n - 1) \in SUBSET Nat /\ \A m \in Extent(d, i, n - 1) : m < n
<1>1. n \in Nat /\ n - 1 \in Nat /\ i \in Nat
  BY LinesSay
<1>2. \A j \in (i + 1)..n : d[j].indent > d[i].indent
  BY <1>1
<1>3. \A j \in (i + 1)..(n - 1) : d[j].indent > d[i].indent
  BY <1>1
<1>4. Extent(d, i, n) = i..n
  BY <1>1, <1>2, ExtentOf
<1>5. Extent(d, i, n - 1) = i..(n - 1)
  BY <1>1, <1>3, ExtentOf
<1>6. i..n = (i..(n - 1)) \cup {n} /\ i..(n - 1) \in SUBSET Nat /\ \A m \in i..(n - 1) : m < n
  <2>1. \A m \in i..n : m = n \/ m \in i..(n - 1)
    BY <1>1
  <2>2. n \in i..n /\ \A m \in i..(n - 1) : m \in i..n /\ m < n /\ m \in Nat
    BY <1>1
  <2> QED
    BY <2>1, <2>2
<1> QED
  BY <1>4, <1>5, <1>6

LEMMA ListedGrows ==
  ASSUME NEW d, NEW e, NEW n, NEW l, NEW grown, grown = e \cup {n}
  PROVE  /\ d[n].kind = "item" /\ Block(d, n) = l => Listed(d, grown, l) = Listed(d, e, l) \cup {n}
         /\ ~ (d[n].kind = "item" /\ Block(d, n) = l) => Listed(d, grown, l) = Listed(d, e, l)
BY DEF Listed

LEMMA ItemSays ==
  ASSUME NEW d, NEW s, NEW i, NEW k
  PROVE  /\ ItemAt(d, s, i, k) = [f \in DOMAIN Default[s] |-> ItemAt(d, s, i, k)[f]]
         /\ DOMAIN ItemAt(d, s, i, k) = DOMAIN Default[s]
         /\ \A f \in DOMAIN Default[s] :
              /\ f \in Lists => ItemAt(d, s, i, k)[f] = ListAt(d, i, k, f)
              /\ f \notin Lists =>
                   ItemAt(d, s, i, k)[f] = Scalar(d, s, Extent(d, i, k), f, Default[s][f])
<1>1. DOMAIN MaxEntries = Lists
  BY LoaderAssumption DEF Lists
<1> QED
  BY <1>1 DEF ItemAt

LEMMA SameEntry ==
  ASSUME NEW d, IsFile(d), NEW n \in 1..Len(d), NEW m \in 1..(n - 1), NEW l,
         l \in {"segments"} => d[m].kind = "item" /\ Block(d, m) = l /\ d[n].indent <= 6
  PROVE  EntryAt(d, m, n, l) = EntryAt(d, m, n - 1, l)
<1>1. CASE l = "segments"
  <2>1. m \in 1..Len(d) /\ n \in 1..n /\ n > m
    BY LinesSay
  <2>2. d[m].indent = 6
    BY <1>1, <2>1, SegmentLevel
  <2>3. Extent(d, m, n) = Extent(d, m, n - 1)
    BY <1>1, <2>1, <2>2, ExtentEnds
  <2> QED
    BY <1>1, <2>3 DEF EntryAt, SegmentAt
<1>2. CASE l # "segments"
  BY <1>2 DEF EntryAt
<1> QED
  BY <1>1, <1>2

LEMMA ItemOfSays ==
  ASSUME NEW d, IsFile(d), NEW n \in 1..Len(d), NEW i \in 1..(n - 1), IsItemOf(d, i, n)
  PROVE  /\ i \in 1..(n - 1) /\ i \in Nat \ {0} /\ n \in Nat /\ n - 1 \in Nat
         /\ Extent(d, i, n) = Extent(d, i, n - 1) \cup {n}
         /\ Extent(d, i, n - 1) = i..(n - 1)
         /\ Extent(d, i, n - 1) \in SUBSET Nat /\ \A m \in Extent(d, i, n - 1) : m < n
<1>1. /\ i \in 1..(n - 1) /\ \A j \in 1..n : j > i => d[j].indent > d[i].indent
  BY DEF IsItemOf, IsItemLine
<1>2. i \in Nat \ {0} /\ n \in Nat /\ n - 1 \in Nat
  BY <1>1, LinesSay
<1> QED
  BY <1>1, <1>2, ExtentGrows

LEMMA UntouchedList ==
  ASSUME NEW d, IsFile(d), NEW n \in 1..Len(d), NEW i \in 1..(n - 1), IsItemOf(d, i, n), NEW l,
         ~ (d[n].kind = "item" /\ Block(d, n) = l),
         \A m \in 1..(n - 1) :
           d[m].kind = "item" /\ Block(d, m) = l => EntryAt(d, m, n, l) = EntryAt(d, m, n - 1, l)
  PROVE  ListAt(d, i, n, l) = ListAt(d, i, n - 1, l)
<1>1. /\ i \in 1..(n - 1) /\ i \in Nat \ {0} /\ n \in Nat /\ n - 1 \in Nat
      /\ Extent(d, i, n) = Extent(d, i, n - 1) \cup {n}
      /\ Extent(d, i, n - 1) = i..(n - 1)
  BY ItemOfSays
<1>2. Listed(d, Extent(d, i, n), l) = Listed(d, Extent(d, i, n - 1), l)
  BY <1>1, ListedGrows
<1> DEFINE S == Listed(d, Extent(d, i, n - 1), l)
<1>3. ASSUME NEW m \in S PROVE EntryAt(d, m, n, l) = EntryAt(d, m, n - 1, l)
  <2>1. m \in 1..(n - 1) /\ d[m].kind = "item" /\ Block(d, m) = l
    BY <1>1 DEF Listed
  <2> QED
    BY <2>1
<1>4. IsOrdered(d, i, n, l) /\ IsOrdered(d, i, n - 1, l)
  BY <1>1, ListAtIs
<1> DEFINE f == ListAt(d, i, n, l)
           g == ListAt(d, i, n - 1, l)
<1>5. /\ \A x \in 1..Cardinality(S) : /\ InOrder(S)[x] \in S
                                     /\ f[x] = EntryAt(d, InOrder(S)[x], n, l)
                                     /\ g[x] = EntryAt(d, InOrder(S)[x], n - 1, l)
      /\ IsList(f) /\ DOMAIN f = 1..Cardinality(S) /\ IsList(g) /\ DOMAIN g = 1..Cardinality(S)
  BY <1>2, <1>4 DEF IsOrdered
<1> HIDE DEF S, f, g
<1>6. f = g
  <2>1. \A x \in DOMAIN f : f[x] = g[x]
    BY <1>3, <1>5
  <2> QED
    BY <1>5, <2>1, SameEntries
<1> QED
  BY <1>6 DEF f, g

LEMMA OtherList ==
  ASSUME NEW d, IsFile(d), NEW n \in 1..Len(d), NEW i \in 1..(n - 1), IsItemOf(d, i, n), NEW l,
         ~ (d[n].kind = "item" /\ Block(d, n) = l), l \in {"segments"} => d[n].indent <= 6
  PROVE  ListAt(d, i, n, l) = ListAt(d, i, n - 1, l)
<1>1. \A m \in 1..(n - 1) :
        d[m].kind = "item" /\ Block(d, m) = l => EntryAt(d, m, n, l) = EntryAt(d, m, n - 1, l)
  BY SameEntry
<1> QED
  BY <1>1, UntouchedList

LEMMA NewEntry ==
  ASSUME NEW d, IsFile(d), NEW n \in 1..Len(d), NEW i \in 1..(n - 1), IsItemOf(d, i, n), NEW l,
         d[n].kind = "item", Block(d, n) = l
  PROVE  ListAt(d, i, n, l) = Append(ListAt(d, i, n - 1, l), EntryAt(d, n, n, l))
<1>1. /\ i \in 1..(n - 1) /\ i \in Nat \ {0} /\ n \in Nat /\ n - 1 \in Nat
      /\ Extent(d, i, n) = Extent(d, i, n - 1) \cup {n}
      /\ Extent(d, i, n - 1) = i..(n - 1)
      /\ Extent(d, i, n - 1) \in SUBSET Nat /\ \A m \in Extent(d, i, n - 1) : m < n
  BY ItemOfSays
<1> DEFINE S == Listed(d, Extent(d, i, n - 1), l)
           c == Cardinality(S)
           old == ListAt(d, i, n - 1, l)
           new == ListAt(d, i, n, l)
<1>2. Listed(d, Extent(d, i, n), l) = S \cup {n}
  BY <1>1, ListedGrows
<1>3. /\ S \in SUBSET Nat /\ S \in SUBSET Extent(d, i, n - 1) /\ IsFiniteSet(S) /\ c \in Nat
      /\ \A x \in 1..c : InOrder(S)[x] \in S /\ old[x] = EntryAt(d, InOrder(S)[x], n - 1, l)
      /\ IsList(old) /\ Len(old) = c
  <2>1. IsOrdered(d, i, n - 1, l)
    BY <1>1, ListAtIs
  <2> QED
    BY <2>1 DEF IsOrdered
<1>4. /\ Cardinality(S \cup {n}) = c + 1
      /\ \A x \in 1..c : InOrder(S \cup {n})[x] = InOrder(S)[x]
      /\ InOrder(S \cup {n})[c + 1] = n
  <2>1. \A m \in S : m < n
    BY <1>1, <1>3
  <2> HIDE DEF S
  <2> QED
    BY <1>1, <1>3, <2>1, OrderGrows
<1>5. /\ \A x \in 1..(c + 1) : new[x] = EntryAt(d, InOrder(S \cup {n})[x], n, l)
      /\ IsList(new) /\ DOMAIN new = 1..(c + 1)
  <2>1. IsOrdered(d, i, n, l)
    BY <1>1, ListAtIs
  <2> QED
    BY <1>2, <1>4, <2>1 DEF IsOrdered
<1>6. ASSUME NEW m \in S PROVE EntryAt(d, m, n, l) = EntryAt(d, m, n - 1, l)
  <2>1. m \in 1..(n - 1) /\ d[m].kind = "item" /\ Block(d, m) = l
    BY <1>1 DEF Listed
  <2>2. l \in {"segments"} => d[n].indent <= 6
    BY SegmentLevel
  <2> QED
    BY <2>1, <2>2, SameEntry
<1> HIDE DEF S, c, old, new
<1>7. new[c + 1] = EntryAt(d, n, n, l)
  <2>1. c + 1 \in 1..(c + 1)
    BY <1>3
  <2>2. new[c + 1] = EntryAt(d, InOrder(S \cup {n})[c + 1], n, l)
    BY <1>5, <2>1
  <2> QED
    BY <1>4, <2>2
<1>8. ASSUME NEW x \in 1..c PROVE new[x] = old[x]
  <2>1. x \in 1..(c + 1)
    BY <1>3
  <2>2. new[x] = EntryAt(d, InOrder(S)[x], n, l) /\ InOrder(S)[x] \in S
    BY <1>3, <1>4, <1>5, <2>1
  <2> QED
    BY <1>3, <1>6, <2>2
<1>9. new = Append(old, EntryAt(d, n, n, l))
  BY <1>3, <1>5, <1>7, <1>8, IsAppended
<1> QED
  BY <1>9 DEF new, old

(* The fields of a segment.                                                 *)
LEMMA SaidOfSegment ==
  ASSUME NEW d, NEW n, Block(d, n) = "segments", NEW f
  PROVE  Says(d, "paths", n, f) <=> d[n].key \in DOMAIN SegmentKeys /\ SegmentKeys[d[n].key] = f
BY DEF Says, KeysIn

LEMMA PutSays ==
  ASSUME NEW l, NEW item, NEW keys, NEW new,
         new = [f \in DOMAIN item |-> new[f]],
         \A f \in DOMAIN item :
           new[f] = IF l.key \in DOMAIN keys /\ keys[l.key] = f THEN Convert(f, l.value) ELSE item[f],
         item = [f \in DOMAIN item |-> item[f]]
  PROVE  new = Put(l, item, keys)
<1>1. CASE l.key \in DOMAIN keys
  BY <1>1 DEF Put
<1>2. CASE l.key \notin DOMAIN keys
  <2>1. \A f \in DOMAIN item : new[f] = item[f]
    BY <1>2
  <2>2. new = item
    BY <2>1
  <2> QED
    BY <1>2, <2>2 DEF Put
<1> QED
  BY <1>1, <1>2

LEMMA NewSegment ==
  ASSUME NEW d, NEW n \in Nat, Block(d, n) = "segments"
  PROVE  SegmentAt(d, n, n) = Put(d[n], EmptySegment, SegmentKeys)
<1> DEFINE new == SegmentAt(d, n, n)
<1>1. Extent(d, n, n) = {} \cup {n}
  <2>1. \A j \in (n + 1)..n : FALSE
    OBVIOUS
  <2>2. Extent(d, n, n) = n..n
    BY <2>1, ExtentOf
  <2> QED
    BY <2>2
<1>2. \A f \in DOMAIN EmptySegment :
        new[f] = Scalar(d, "paths", {} \cup {n}, f, EmptySegment[f])
  BY <1>1 DEF SegmentAt
<1>3. \A f \in DOMAIN EmptySegment :
        new[f] = IF Says(d, "paths", n, f) THEN Convert(f, d[n].value) ELSE EmptySegment[f]
  <2>1. \A f : Scalar(d, "paths", {}, f, EmptySegment[f]) = EmptySegment[f]
    BY DEF Scalar
  <2>2. {} \in SUBSET Nat /\ \A m \in {} : m < n
    OBVIOUS
  <2>3. \A f : Scalar(d, "paths", {} \cup {n}, f, EmptySegment[f]) =
                 IF Says(d, "paths", n, f) THEN Convert(f, d[n].value) ELSE EmptySegment[f]
    BY <2>1, <2>2, ScalarGrows
  <2> QED
    BY <1>2, <2>3
<1>4. new = [f \in DOMAIN EmptySegment |-> new[f]]
  BY DEF SegmentAt
<1>5. EmptySegment = [f \in DOMAIN EmptySegment |-> EmptySegment[f]]
  BY DEF EmptySegment, Blank
<1> HIDE DEF new
<1>6. \A f \in DOMAIN EmptySegment :
        new[f] = IF d[n].key \in DOMAIN SegmentKeys /\ SegmentKeys[d[n].key] = f
                 THEN Convert(f, d[n].value) ELSE EmptySegment[f]
  BY <1>3, SaidOfSegment
<1>7. new = Put(d[n], EmptySegment, SegmentKeys)
  BY <1>4, <1>5, <1>6, PutSays
<1> QED
  BY <1>7 DEF new

LEMMA SegmentWritten ==
  ASSUME NEW d, IsFile(d), NEW n \in 1..Len(d), NEW q \in 1..(n - 1), Block(d, n) = "segments",
         \A j \in 1..n : j > q => d[j].indent > d[q].indent
  PROVE  SegmentAt(d, q, n) = Put(d[n], SegmentAt(d, q, n - 1), SegmentKeys)
<1> DEFINE new == SegmentAt(d, q, n)
           old == SegmentAt(d, q, n - 1)
           e == Extent(d, q, n - 1)
<1>1. Extent(d, q, n) = e \cup {n} /\ e \in SUBSET Nat /\ (\A m \in e : m < n) /\ n \in Nat
  BY ExtentGrows, LinesSay
<1>2. /\ \A f \in DOMAIN EmptySegment :
           /\ new[f] = Scalar(d, "paths", e \cup {n}, f, EmptySegment[f])
           /\ old[f] = Scalar(d, "paths", e, f, EmptySegment[f])
      /\ new = [f \in DOMAIN EmptySegment |-> new[f]]
      /\ old = [f \in DOMAIN EmptySegment |-> old[f]]
      /\ DOMAIN old = DOMAIN EmptySegment
  BY <1>1 DEF SegmentAt
<1> HIDE DEF new, old, e
<1>3. \A f \in DOMAIN EmptySegment :
        new[f] = IF Says(d, "paths", n, f) THEN Convert(f, d[n].value) ELSE old[f]
  BY <1>1, <1>2, ScalarGrows
<1>4. \A f \in DOMAIN EmptySegment :
        new[f] = IF d[n].key \in DOMAIN SegmentKeys /\ SegmentKeys[d[n].key] = f
                 THEN Convert(f, d[n].value) ELSE old[f]
  BY <1>3, SaidOfSegment
<1>5. new = Put(d[n], old, SegmentKeys)
  BY <1>2, <1>4, PutSays
<1> QED
  BY <1>5 DEF new, old

LEMMA SegmentAbove ==
  ASSUME NEW d, IsFile(d), NEW n \in 1..Len(d), d[n].indent > 2, InSegment(d, n),
         NEW i \in 1..(n - 1), IsItemOf(d, i, n), NEW q, q = Parent(d, n)
  PROVE  /\ q \in 1..(n - 1) /\ q > i /\ d[q].kind = "item" /\ Block(d, q) = "segments"
         /\ d[q].indent = 6
         /\ \A j \in 1..n : j > q => d[j].indent > 6
<1>2. /\ Len(d) \in Nat \ {0} /\ \A j \in 1..Len(d) : d[j].indent \in Nat
  BY LinesSay
<1>1. /\ q \in 1..(n - 1) /\ d[q].indent = d[n].indent - 2
      /\ \A j \in 1..(n - 1) : j > q => d[j].indent >= d[n].indent
  <2>1. d[n].indent > 0
    BY <1>2
  <2> QED
    BY <2>1, ParentSays
<1>3. q \in 1..Len(d) /\ d[q].kind = "item" /\ Block(d, q) = "segments"
  BY <1>1, <1>2 DEF InSegment, IsElement
<1>4. d[q].indent = 6
  BY <1>3, SegmentLevel
<1>5. d[n].indent = 8
  BY <1>1, <1>2, <1>4
<1>6. \A j \in 1..n : j > q => d[j].indent > 6
  BY <1>1, <1>2, <1>5
<1>7. q > i
  <2>1. d[i].indent = 2 /\ i \in 1..n
    BY <1>2 DEF IsItemOf, IsItemLine
  <2>2. q # i
    BY <2>1, <1>4
  <2>3. ~ i > q
    BY <2>1, <1>6
  <2> QED
    BY <1>1, <2>1, <2>2, <2>3
<1> QED
  BY <1>1, <1>3, <1>4, <1>6, <1>7

LastSegmentWritten(d, i, n) ==
  LET old == ListAt(d, i, n - 1, "segments")
      c == Len(old)
  IN  /\ c \in DOMAIN old
      /\ ListAt(d, i, n, "segments") = [old EXCEPT ![c] = Put(d[n], @, SegmentKeys)]

LEMMA WrittenSegment ==
  ASSUME NEW d, IsFile(d), NEW n \in 1..Len(d), d[n].indent > 2, InSegment(d, n),
         NEW i \in 1..(n - 1), IsItemOf(d, i, n)
  PROVE  LastSegmentWritten(d, i, n)
<1> SUFFICES ASSUME NEW old, old = ListAt(d, i, n - 1, "segments"), NEW c, c = Len(old)
             PROVE  /\ c \in DOMAIN old
                    /\ ListAt(d, i, n, "segments") = [old EXCEPT ![c] = Put(d[n], @, SegmentKeys)]
  BY DEF LastSegmentWritten
<1> DEFINE q == Parent(d, n)
           S == Listed(d, Extent(d, i, n - 1), "segments")
           new == ListAt(d, i, n, "segments")
<1>1. /\ q \in 1..(n - 1) /\ q > i /\ d[q].kind = "item" /\ Block(d, q) = "segments"
      /\ d[q].indent = 6
      /\ \A j \in 1..n : j > q => d[j].indent > 6
  BY SegmentAbove
<1>2. /\ i \in 1..(n - 1) /\ i \in Nat \ {0} /\ n \in Nat /\ n - 1 \in Nat
      /\ Extent(d, i, n) = Extent(d, i, n - 1) \cup {n}
      /\ Extent(d, i, n - 1) = i..(n - 1)
  BY ItemOfSays
<1>3. Listed(d, Extent(d, i, n), "segments") = S
  <2>1. ~ (d[n].kind = "item" /\ Block(d, n) = "segments")
    BY DEF InSegment
  <2> QED
    BY <1>2, <2>1, ListedGrows
<1>4. IsOrdered(d, i, n, "segments") /\ IsOrdered(d, i, n - 1, "segments")
  BY <1>2, ListAtIs
<1>5. /\ \A x \in 1..Cardinality(S) :
           /\ InOrder(S)[x] \in S
           /\ new[x] = EntryAt(d, InOrder(S)[x], n, "segments")
           /\ old[x] = EntryAt(d, InOrder(S)[x], n - 1, "segments")
      /\ S \in SUBSET Nat /\ IsFiniteSet(S)
      /\ IsList(new) /\ DOMAIN new = 1..Cardinality(S)
      /\ IsList(old) /\ Len(old) = Cardinality(S)
  BY <1>3, <1>4 DEF IsOrdered
<1>6. \A y \in S : y \in 1..(n - 1) /\ y \in 1..Len(d) /\ d[y].indent = 6
  <2> TAKE y \in S
  <2>1. y \in 1..(n - 1) /\ d[y].kind = "item" /\ Block(d, y) = "segments"
    BY <1>2 DEF Listed
  <2>2. y \in 1..Len(d)
    BY <2>1, <1>2, LinesSay
  <2> QED
    BY <2>1, <2>2, SegmentLevel
<1>7. q \in S /\ \A y \in S : y <= q
  <2>1. q \in S
    BY <1>1, <1>2 DEF Listed
  <2> HIDE DEF S, q
  <2>2. ASSUME NEW y \in S PROVE y <= q
    <3>1. y \in 1..n /\ d[y].indent = 6
      BY <1>2, <1>6
    <3>2. ~ y > q
      BY <1>1, <3>1
    <3> QED
      BY <1>1, <1>2, <3>1, <3>2
  <2> QED
    BY <2>1, <2>2
<1>8. new[c] = Put(d[n], old[c], SegmentKeys)
  <2>1. SegmentAt(d, q, n) = Put(d[n], SegmentAt(d, q, n - 1), SegmentKeys)
    <3>1. Block(d, n) = "segments" /\ \A j \in 1..n : j > q => d[j].indent > d[q].indent
      BY <1>1 DEF InSegment
    <3> QED
      BY <1>1, <3>1, SegmentWritten
  <2> HIDE DEF S, q, new
  <2>2. c = Cardinality(S) /\ c \in 1..Cardinality(S) /\ InOrder(S)[c] = q
    BY <1>5, <1>7, OrderEnds
  <2>3. new[c] = EntryAt(d, q, n, "segments") /\ old[c] = EntryAt(d, q, n - 1, "segments")
    BY <1>5, <2>2
  <2> QED
    BY <2>1, <2>3 DEF EntryAt
<1>9. ASSUME NEW x \in 1..(c - 1) PROVE new[x] = old[x]
  <2> HIDE DEF S, q, new
  <2>1. c = Cardinality(S) /\ c \in Nat \ {0} /\ InOrder(S)[x] \in S /\ InOrder(S)[x] < q
    BY <1>5, <1>7, OrderEnds
  <2> DEFINE m == InOrder(S)[x]
  <2>2. m \in 1..(n - 1) /\ d[m].indent = 6 /\ q \in 1..n /\ q > m /\ d[q].indent <= d[m].indent
    BY <1>1, <1>2, <1>6, <2>1
  <2> HIDE DEF m
  <2>3. Extent(d, m, n) = Extent(d, m, n - 1)
    BY <2>2, ExtentEnds
  <2>4. EntryAt(d, m, n, "segments") = EntryAt(d, m, n - 1, "segments")
    BY <2>3 DEF EntryAt, SegmentAt
  <2>5. x \in 1..Cardinality(S)
    BY <2>1
  <2> QED
    BY <1>5, <2>4, <2>5 DEF m
<1>10. c \in Nat \ {0} /\ c = Cardinality(S)
  <2> HIDE DEF S, q
  <2> QED
    BY <1>5, <1>7, OrderEnds
<1> HIDE DEF S, q, new
<1> DEFINE e == Put(d[n], old[c], SegmentKeys)
<1> HIDE DEF e
<1> DEFINE f == [old EXCEPT ![c] = e]
<1>11. c \in DOMAIN old /\ DOMAIN old = 1..c /\ IsList(old)
  BY <1>5, <1>10 DEF IsList
<1>12. IsList(f) /\ DOMAIN f = 1..c
  BY <1>11, EntryReplaced
<1>13. \A x \in 1..c : f[x] = IF x = c THEN e ELSE old[x]
  BY <1>11
<1>14. \A x \in 1..c : x = c \/ x \in 1..(c - 1)
  BY <1>10
<1> HIDE DEF f
<1>15. \A x \in DOMAIN new : new[x] = f[x]
  BY <1>5, <1>8, <1>9, <1>10, <1>13, <1>14 DEF e
<1>16. new = f
  BY <1>5, <1>10, <1>12, <1>15, SameEntries
<1> QED
  BY <1>11, <1>16 DEF new, f, e

------------------------------------------------------------------------------
(* What a new item, a field and a line that opens a block say.              *)

LEMMA SegmentsInPaths ==
  ASSUME NEW s \in Sections, NEW l \in Lists \cap DOMAIN Default[s], l \in {"segments"}
  PROVE  s = "paths"
BY ListsOfItems DEF Sections

(* Only a segment's own field stands deeper than six in a path.             *)
LEMMA PathLevels ==
  ASSUME NEW d, IsFile(d), NEW n \in 1..Len(d), d[n].indent > 2, SectionOf(d, n) = "paths",
         ~ InSegment(d, n)
  PROVE  d[n].indent <= 6
<1>1. CASE InItem(d, n)
  BY <1>1 DEF InItem
<1>2. CASE InBlock(d, n)
  <2> DEFINE p == Parent(d, n)
  <2>1. d[n].indent \in Nat /\ d[n].indent > 0 /\ Len(d) \in Nat
    BY LinesSay
  <2>2. p \in 1..Len(d) /\ d[p].indent = d[n].indent - 2 /\ SectionOf(d, p) = "paths"
    BY <2>1, ParentSays, SectionOfParent
  <2>3. Opens(d, p)
    BY <1>2 DEF InBlock
  <2> HIDE DEF p
  <2>4. InItem(d, p)
    BY <2>2, <2>3, OpenerSays
  <2>5. d[p].indent = 4
    BY <2>4 DEF InItem
  <2> QED
    BY <2>1, <2>2, <2>5
<1> QED
  BY <1>1, <1>2, DeepSays

(* A field that is no segment's: its block is one of its section's.         *)
LEMMA FieldBlock ==
  ASSUME NEW d, IsFile(d), NEW n \in 1..Len(d), d[n].indent > 2, d[n].kind = "field",
         ~ InSegment(d, n)
  PROVE  KeysIn(SectionOf(d, n), Block(d, n)) = KeysOf(SectionOf(d, n), Block(d, n))
<1>1. Block(d, n) # "segments"
  <2>1. CASE InItem(d, n)
    BY <2>1 DEF InItem
  <2>2. CASE InBlock(d, n)
    BY <2>2 DEF InBlock, ListKeys
  <2> QED
    BY <2>1, <2>2, DeepSays
<1> QED
  BY <1>1 DEF KeysIn

LEMMA DefaultIsFunction ==
  ASSUME NEW s \in Sections
  PROVE  Default[s] = [f \in DOMAIN Default[s] |-> Default[s][f]]
<1>1. \A keys, values : BlankBut(keys, values) =
        [f \in DOMAIN BlankBut(keys, values) |-> BlankBut(keys, values)[f]]
  BY DEF BlankBut
<1>2. \A keys : Blank(keys) = [f \in DOMAIN Blank(keys) |-> Blank(keys)[f]]
  BY DEF Blank
<1>3. CASE s = "tunnels"
  BY <1>1, <1>3 DEF Default
<1>4. CASE s = "paths"
  BY <1>1, <1>4 DEF Default
<1>5. CASE s = "intents"
  BY <1>1, <1>5 DEF Default
<1>6. CASE s = "vpp_edges"
  BY <1>2, <1>6 DEF Default
<1> QED
  BY <1>3, <1>4, <1>5, <1>6 DEF Sections

LEMMA FirstScalar ==
  ASSUME NEW d, NEW s, NEW n \in Nat, NEW f, NEW default
  PROVE  Scalar(d, s, {n}, f, default) =
           IF Says(d, s, n, f) THEN Convert(f, d[n].value) ELSE default
<1>1. Max({n}) = n
  <2> DEFINE S == {n}
  <2>1. S \in SUBSET Nat /\ n \in S /\ \A y \in S : y <= n
    OBVIOUS
  <2> HIDE DEF S
  <2>2. Max(S) = n
    BY <2>1, MaxIs
  <2> QED
    BY <2>2 DEF S
<1>2. CASE Says(d, s, n, f)
  <2>1. {m \in {n} : Says(d, s, m, f)} = {n}
    BY <1>2
  <2> QED
    BY <1>1, <1>2, <2>1 DEF Scalar
<1>3. CASE ~ Says(d, s, n, f)
  <2>1. {m \in {n} : Says(d, s, m, f)} = {}
    BY <1>3
  <2> QED
    BY <1>3, <2>1 DEF Scalar
<1> QED
  BY <1>2, <1>3

LEMMA ScalarOf ==
  ASSUME NEW d, IsFile(d), NEW n \in 1..Len(d), NEW i \in 1..(n - 1), IsItemOf(d, i, n), NEW s,
         NEW f \in DOMAIN Default[s], f \notin Lists
  PROVE  ItemAt(d, s, i, n)[f] =
           IF Says(d, s, n, f) THEN Convert(f, d[n].value) ELSE ItemAt(d, s, i, n - 1)[f]
<1> DEFINE e == Extent(d, i, n - 1)
<1>1. Extent(d, i, n) = e \cup {n} /\ e \in SUBSET Nat /\ (\A m \in e : m < n) /\ n \in Nat
  BY ItemOfSays
<1>2. /\ ItemAt(d, s, i, n)[f] = Scalar(d, s, e \cup {n}, f, Default[s][f])
      /\ ItemAt(d, s, i, n - 1)[f] = Scalar(d, s, e, f, Default[s][f])
  <2>1. \A k : ItemAt(d, s, i, k)[f] = Scalar(d, s, Extent(d, i, k), f, Default[s][f])
    BY ItemSays
  <2> QED
    BY <1>1, <2>1
<1> HIDE DEF e
<1> QED
  BY <1>1, <1>2, ScalarGrows

(* What a new item says is its line and the defaults.                       *)
LEMMA NewItemSays ==
  ASSUME NEW d, IsFile(d), NEW n \in 1..Len(d), IsItemLine(d, n), NEW t, t = SectionOf(d, n)
  PROVE  ItemAt(d, t, n, n) = Put(d[n], Default[t], KeysOf(t, "none"))
<1> DEFINE new == ItemAt(d, t, n, n)
           keys == KeysOf(t, "none")
<1>1. t \in Sections /\ n \in Nat \ {0} /\ n \in Nat
  BY SectionSays, LinesSay
<1>2. Block(d, n) = "none"
  BY DEF Block
<1>3. Extent(d, n, n) = {n}
  <2>1. \A j \in (n + 1)..n : FALSE
    BY <1>1
  <2>2. Extent(d, n, n) = n..n
    BY <1>1, <2>1, ExtentOf
  <2> QED
    BY <1>1, <2>2
<1>4. ASSUME NEW l \in Lists \cap DOMAIN Default[t] PROVE new[l] = <<>>
  <2>1. Block(d, n) # l
    BY <1>2 DEF Lists, PlainLists
  <2>2. Listed(d, Extent(d, n, n), l) = {}
    BY <1>3, <2>1 DEF Listed
  <2>3. IsOrdered(d, n, n, l)
    BY <1>1, ListAtIs
  <2>4. ListAt(d, n, n, l) \in Seq(Range(ListAt(d, n, n, l))) /\ Len(ListAt(d, n, n, l)) = 0
    BY <2>2, <2>3, FS_EmptySet DEF IsOrdered, IsList
  <2>5. ListAt(d, n, n, l) = <<>>
    BY <2>4
  <2> QED
    BY <2>5, ItemSays
<1>5. ASSUME NEW f \in DOMAIN Default[t], f \notin Lists
      PROVE  new[f] = IF Says(d, t, n, f) THEN Convert(f, d[n].value) ELSE Default[t][f]
  <2>1. new[f] = Scalar(d, t, Extent(d, n, n), f, Default[t][f])
    BY <1>5, ItemSays
  <2> QED
    BY <1>1, <1>3, <2>1, FirstScalar
<1>6. \A f : Says(d, t, n, f) <=> d[n].key \in DOMAIN keys /\ keys[d[n].key] = f
  BY <1>2 DEF Says, KeysIn
<1>7. d[n].key \in DOMAIN keys => keys[d[n].key] \notin Lists
  BY <1>1, KeysSpareLists
<1>8. new = [f \in DOMAIN Default[t] |-> new[f]]
  BY ItemSays
<1>9. Default[t] = [f \in DOMAIN Default[t] |-> Default[t][f]]
  BY <1>1, DefaultIsFunction
<1>10. \A f \in Lists \cap DOMAIN Default[t] : Default[t][f] = <<>>
  BY <1>1, DefaultLists
<1> HIDE DEF new, keys
<1>11. \A f \in DOMAIN Default[t] :
         new[f] = IF d[n].key \in DOMAIN keys /\ keys[d[n].key] = f THEN Convert(f, d[n].value)
                  ELSE Default[t][f]
  <2> TAKE f \in DOMAIN Default[t]
  <2>1. CASE f \in Lists
    <3>1. ~ (d[n].key \in DOMAIN keys /\ keys[d[n].key] = f)
      BY <1>7, <2>1
    <3>2. new[f] = <<>> /\ Default[t][f] = <<>>
      BY <1>4, <1>10, <2>1
    <3> QED
      BY <3>1, <3>2
  <2>2. CASE f \notin Lists
    BY <1>5, <1>6, <2>2
  <2> QED
    BY <2>1, <2>2
<1> DEFINE old == Default[t]
<1> HIDE DEF old
<1>12. new = Put(d[n], old, keys)
  <2>1. new = [f \in DOMAIN old |-> new[f]]
    BY <1>8 DEF old
  <2>2. old = [f \in DOMAIN old |-> old[f]]
    BY <1>9 DEF old
  <2>3. \A f \in DOMAIN old :
          new[f] = IF d[n].key \in DOMAIN keys /\ keys[d[n].key] = f THEN Convert(f, d[n].value)
                   ELSE old[f]
    BY <1>11 DEF old
  <2> QED
    BY <2>1, <2>2, <2>3, PutSays
<1> QED
  BY <1>12 DEF new, old, keys

(* A field is put where its key says.                                       *)
LEMMA FieldSays ==
  ASSUME NEW d, IsFile(d), NEW n \in 1..Len(d), d[n].indent > 2, d[n].kind = "field",
         ~ InSegment(d, n), NEW i \in 1..(n - 1), IsItemOf(d, i, n), NEW t, t = SectionOf(d, n)
  PROVE  ItemAt(d, t, i, n) = Put(d[n], ItemAt(d, t, i, n - 1), KeysOf(t, Block(d, n)))
<1> DEFINE new == ItemAt(d, t, i, n)
           old == ItemAt(d, t, i, n - 1)
           keys == KeysOf(t, Block(d, n))
<1>1. t \in Sections
  BY SectionSays
<1>2. ASSUME NEW l \in Lists \cap DOMAIN Default[t] PROVE new[l] = old[l]
  <2>1. l \in {"segments"} => d[n].indent <= 6
    BY <1>1, SegmentsInPaths, PathLevels
  <2>2. ListAt(d, i, n, l) = ListAt(d, i, n - 1, l)
    BY <2>1, OtherList
  <2> QED
    BY <2>2, ItemSays
<1>3. \A f \in DOMAIN Default[t] : f \notin Lists =>
        new[f] = IF Says(d, t, n, f) THEN Convert(f, d[n].value) ELSE old[f]
  BY ScalarOf
<1>4. KeysIn(t, Block(d, n)) = keys
  BY FieldBlock
<1>5. \A f : Says(d, t, n, f) <=> d[n].key \in DOMAIN keys /\ keys[d[n].key] = f
  BY <1>4 DEF Says
<1>6. d[n].key \in DOMAIN keys => keys[d[n].key] \notin Lists
  BY <1>1, KeysSpareLists
<1>7. /\ new = [f \in DOMAIN Default[t] |-> new[f]]
      /\ old = [f \in DOMAIN Default[t] |-> old[f]] /\ DOMAIN old = DOMAIN Default[t]
  BY ItemSays
<1> HIDE DEF new, old, keys
<1>8. \A f \in DOMAIN Default[t] :
        new[f] = IF d[n].key \in DOMAIN keys /\ keys[d[n].key] = f THEN Convert(f, d[n].value)
                 ELSE old[f]
  <2> TAKE f \in DOMAIN Default[t]
  <2>1. CASE f \in Lists
    BY <1>2, <1>6, <2>1
  <2>2. CASE f \notin Lists
    BY <1>3, <1>5, <2>2
  <2> QED
    BY <2>1, <2>2
<1>9. new = Put(d[n], old, keys)
  <2>1. new = [f \in DOMAIN old |-> new[f]] /\ old = [f \in DOMAIN old |-> old[f]]
    BY <1>7
  <2>3. \A f \in DOMAIN old :
          new[f] = IF d[n].key \in DOMAIN keys /\ keys[d[n].key] = f THEN Convert(f, d[n].value)
                   ELSE old[f]
    BY <1>7, <1>8
  <2> QED
    BY <2>1, <2>3, PutSays
<1> QED
  BY <1>9 DEF new, old, keys

(* A line that opens a block says nothing itself.                           *)
LEMMA OpenerAddsNothing ==
  ASSUME NEW d, IsFile(d), NEW n \in 1..Len(d), Opens(d, n),
         NEW i \in 1..(n - 1), IsItemOf(d, i, n), NEW t, t = SectionOf(d, n)
  PROVE  ItemAt(d, t, i, n) = ItemAt(d, t, i, n - 1) /\ ~ InSegment(d, n)
<1>1. t \in Sections
  BY SectionSays
<1>2. d[n].kind = "field" /\ d[n].key \in Blocks(t)
  BY DEF Opens
<1>3. d[n].indent > 2 /\ (t = "paths" => InItem(d, n))
  BY OpenerSays
<1>4. ~ InSegment(d, n)
  BY <1>3 DEF InSegment, InItem
<1>5. ItemAt(d, t, i, n) = Put(d[n], ItemAt(d, t, i, n - 1), KeysOf(t, Block(d, n)))
  BY <1>2, <1>3, <1>4, FieldSays
<1>6. d[n].key \notin DOMAIN KeysOf(t, Block(d, n))
  BY <1>1, <1>2, KeysApart
<1> QED
  BY <1>4, <1>5, <1>6 DEF Put

------------------------------------------------------------------------------
(* What a line of a list says: a plain entry, a segment, a segment's field. *)

OnlyListChanges(d, s, i, n, l) ==
  ItemAt(d, s, i, n) = [ItemAt(d, s, i, n - 1) EXCEPT ![l] = ListAt(d, i, n, l)]

(* When a line only changes one list of an item.                            *)
LEMMA OneListChanges ==
  ASSUME NEW d, IsFile(d), NEW n \in 1..Len(d), NEW i \in 1..(n - 1), IsItemOf(d, i, n), NEW s,
         NEW l \in Lists \cap DOMAIN Default[s],
         \A f \in DOMAIN Default[s] : f \notin Lists => ~ Says(d, s, n, f),
         \A m \in Lists \cap DOMAIN Default[s] :
           m # l => ListAt(d, i, n, m) = ListAt(d, i, n - 1, m)
  PROVE  OnlyListChanges(d, s, i, n, l)
<1> DEFINE new == ItemAt(d, s, i, n)
           old == ItemAt(d, s, i, n - 1)
           e == ListAt(d, i, n, l)
<1>1. /\ new = [f \in DOMAIN Default[s] |-> new[f]]
      /\ old = [f \in DOMAIN Default[s] |-> old[f]] /\ DOMAIN old = DOMAIN Default[s]
  BY ItemSays
<1>2. new[l] = e
  BY ItemSays
<1>3. ASSUME NEW f \in DOMAIN Default[s], f # l PROVE new[f] = old[f]
  <2>1. CASE f \in Lists
    <3>1. ListAt(d, i, n, f) = ListAt(d, i, n - 1, f)
      BY <1>3, <2>1
    <3> QED
      BY <2>1, <3>1, ItemSays
  <2>2. CASE f \notin Lists
    <3>1. ~ Says(d, s, n, f)
      BY <2>2
    <3> QED
      BY <2>2, <3>1, ScalarOf
  <2> QED
    BY <2>1, <2>2
<1> HIDE DEF new, old, e
<1>4. \A f \in DOMAIN Default[s] : new[f] = IF f = l THEN e ELSE old[f]
  BY <1>2, <1>3
<1>5. new = [old EXCEPT ![l] = e]
  BY <1>1, <1>4
<1> QED
  BY <1>5 DEF new, old, e, OnlyListChanges

LEMMA ListOfBlock ==
  ASSUME NEW s \in Sections, NEW l \in Blocks(s), l \in ListKeys
  PROVE  l \in Lists \cap DOMAIN Default[s]
<1>1. CASE s = "paths"
  BY <1>1, ListsOfItems DEF Blocks
<1>2. CASE s = "intents"
  BY <1>2, ListsOfItems DEF Blocks, IntentBlocks, ListKeys, PlainLists
<1> QED
  BY <1>1, <1>2 DEF Blocks

(* A plain entry is the next of its list.                                   *)
LEMMA EntrySays ==
  ASSUME NEW d, IsFile(d), NEW n \in 1..Len(d), IsElement(d, n),
         NEW l, Block(d, n) = l, l \in PlainLists,
         NEW i \in 1..(n - 1), IsItemOf(d, i, n), NEW t, t = SectionOf(d, n)
  PROVE  /\ l \in Lists \cap DOMAIN Default[t] /\ d[n].key = ""
         /\ OnlyListChanges(d, t, i, n, l)
         /\ ListAt(d, i, n, l) = Append(ListAt(d, i, n - 1, l), Convert(l, d[n].value))
<1>1. t \in Sections /\ d[n].kind = "item" /\ d[n].indent > 2 /\ d[n].indent \in Nat
  BY SectionSays, LinesSay DEF IsElement
<1>2. InBlock(d, n)
  BY ElementSays
<1>3. l # "segments" /\ l \in ListKeys
  BY DEF PlainLists, ListKeys
<1>4. l \in Lists \cap DOMAIN Default[t]
  <2>1. l \in Blocks(t)
    BY <1>2 DEF InBlock
  <2> QED
    BY <1>1, <1>3, <2>1, ListOfBlock
<1>5. d[n].key = ""
  <2>1. WellFormedLine(d, n) /\ d[n].indent # 0
    BY <1>1, LinesSay
  <2> QED
    BY <1>1, <2>1 DEF WellFormedLine
<1>6. \A f \in DOMAIN Default[t] : f \notin Lists => ~ Says(d, t, n, f)
  <2>1. "" \notin DOMAIN KeysOf(t, l)
    BY <1>1, KeysApart
  <2>2. KeysIn(t, Block(d, n)) = KeysOf(t, l)
    BY <1>3 DEF KeysIn
  <2> QED
    BY <1>5, <2>1, <2>2 DEF Says
<1>7. ASSUME NEW m \in Lists \cap DOMAIN Default[t], m # l
      PROVE  ListAt(d, i, n, m) = ListAt(d, i, n - 1, m)
  <2>1. ~ InSegment(d, n)
    BY <1>1 DEF InSegment
  <2>2. m \in {"segments"} => d[n].indent <= 6
    BY <1>1, <2>1, SegmentsInPaths, PathLevels
  <2>3. ~ (d[n].kind = "item" /\ Block(d, n) = m)
    BY <1>7
  <2> QED
    BY <2>2, <2>3, OtherList
<1>8. ListAt(d, i, n, l) = Append(ListAt(d, i, n - 1, l), Convert(l, d[n].value))
  <2>1. ListAt(d, i, n, l) = Append(ListAt(d, i, n - 1, l), EntryAt(d, n, n, l))
    BY <1>1, NewEntry
  <2> QED
    BY <1>3, <2>1 DEF EntryAt
<1>9. OnlyListChanges(d, t, i, n, l)
  BY <1>4, <1>6, <1>7, OneListChanges
<1> QED
  BY <1>4, <1>5, <1>8, <1>9

LEMMA SegmentSpares ==
  ASSUME NEW d, NEW n, Block(d, n) = "segments",
         NEW f \in DOMAIN Default.paths
  PROVE  ~ Says(d, "paths", n, f)
BY SaidOfSegment, SegmentsApart

LEMMA SegmentsIsList == "segments" \in Lists \cap DOMAIN Default["paths"]
BY ListsOfItems

(* A new segment is the next of its path.                                   *)
LEMMA SegmentSays ==
  ASSUME NEW d, IsFile(d), NEW n \in 1..Len(d), d[n].kind = "item", Block(d, n) = "segments",
         NEW i \in 1..(n - 1), IsItemOf(d, i, n)
  PROVE  /\ SectionOf(d, n) = "paths" /\ OnlyListChanges(d, "paths", i, n, "segments")
         /\ ListAt(d, i, n, "segments") =
              Append(ListAt(d, i, n - 1, "segments"), Put(d[n], EmptySegment, SegmentKeys))
<1> DEFINE l == "segments"
           s == "paths"
<1>1. SectionOf(d, n) = "paths" /\ d[n].indent = 6 /\ n \in Nat
  BY SegmentLevel, LinesSay
<1>2. l \in Lists \cap DOMAIN Default[s]
  BY SegmentsIsList
<1>3. \A f \in DOMAIN Default[s] : f \notin Lists => ~ Says(d, s, n, f)
  BY SegmentSpares
<1>4. ListAt(d, i, n, l) =
        Append(ListAt(d, i, n - 1, l), Put(d[n], EmptySegment, SegmentKeys))
  <2>1. ListAt(d, i, n, l) = Append(ListAt(d, i, n - 1, l), EntryAt(d, n, n, l))
    BY NewEntry
  <2>2. SegmentAt(d, n, n) = Put(d[n], EmptySegment, SegmentKeys)
    BY <1>1, NewSegment
  <2> QED
    BY <2>1, <2>2 DEF EntryAt
<1>5. ASSUME NEW m \in Lists \cap DOMAIN Default[s], m # l
      PROVE  ListAt(d, i, n, m) = ListAt(d, i, n - 1, m)
  <2>1. ~ (d[n].kind = "item" /\ Block(d, n) = m) /\ (m \in {"segments"} => d[n].indent <= 6)
    BY <1>5
  <2> QED
    BY <2>1, OtherList
<1> HIDE DEF l, s
<1>6. OnlyListChanges(d, s, i, n, l)
  BY <1>2, <1>3, <1>5, OneListChanges
<1> QED
  BY <1>1, <1>4, <1>6 DEF l, s

(* A field of a segment is put in the last segment of its path.             *)
LEMMA SegmentFieldSays ==
  ASSUME NEW d, IsFile(d), NEW n \in 1..Len(d), d[n].indent > 2, InSegment(d, n),
         NEW i \in 1..(n - 1), IsItemOf(d, i, n)
  PROVE  /\ SectionOf(d, n) = "paths" /\ OnlyListChanges(d, "paths", i, n, "segments")
         /\ LastSegmentWritten(d, i, n)
<1> DEFINE l == "segments"
           s == "paths"
<1>1. SectionOf(d, n) = "paths" /\ d[n].kind = "field" /\ Block(d, n) = "segments"
  BY DEF InSegment
<1>2. l \in Lists \cap DOMAIN Default[s]
  BY SegmentsIsList
<1>3. \A f \in DOMAIN Default[s] : f \notin Lists => ~ Says(d, s, n, f)
  BY <1>1, SegmentSpares
<1>4. LastSegmentWritten(d, i, n)
  BY WrittenSegment
<1>5. ASSUME NEW m \in Lists \cap DOMAIN Default[s], m # l
      PROVE  ListAt(d, i, n, m) = ListAt(d, i, n - 1, m)
  <2>1. ~ (d[n].kind = "item" /\ Block(d, n) = m) /\ (m \in {"segments"} => d[n].indent <= 6)
    BY <1>1, <1>5
  <2> QED
    BY <2>1, OtherList
<1> HIDE DEF l, s
<1>6. OnlyListChanges(d, s, i, n, l)
  BY <1>2, <1>3, <1>5, OneListChanges
<1> QED
  BY <1>1, <1>4, <1>6 DEF l, s

------------------------------------------------------------------------------
(* Arrays that are too small.                                               *)

(* What overruns an array at some line overruns it in the whole file.       *)
LEMMA MoreLines ==
  ASSUME NEW k \in Nat, NEW T \in SUBSET (1..k), NEW S \in SUBSET T
  PROVE  Cardinality(S) <= Cardinality(T) /\ Cardinality(S) \in Nat /\ Cardinality(T) \in Nat
<1>1. IsFiniteSet(T) /\ Cardinality(T) \in Nat
  BY LinesAreFinite
<1>2. IsFiniteSet(S) /\ Cardinality(S) <= Cardinality(T)
  BY <1>1, FS_Subset
<1> QED
  BY <1>1, <1>2, FS_CardinalityType

LEMMA TooManyItemsSaid ==
  ASSUME NEW d, IsFile(d), NEW n \in 1..Len(d), IsItemLine(d, n), NEW t, t = SectionOf(d, n),
         Len(Said(d, n - 1)[t]) >= MaxItems[t]
  PROVE  ~ Fits(Document(d))
<1> DEFINE k == Len(d)
           S == ItemLines(d, t, n)
           T == ItemLines(d, t, k)
           c == Len(Said(d, n - 1)[t])
<1>1. t \in Sections /\ k \in Nat /\ n \in Nat /\ n - 1 \in Nat
  BY SectionSays, LinesSay
<1>2. Cardinality(S) = c + 1
  BY ItemAdds
<1>3. T \in SUBSET (1..k) /\ S \in SUBSET T
  BY <1>1 DEF ItemLines
<1>4. Len(Said(d, k)[t]) = Cardinality(T)
  <2>1. SectionRead(d, t, k)
    BY <1>1, SectionIsRead
  <2> QED
    BY <2>1 DEF SectionRead
<1>5. c \in Nat
  <2>1. SectionRead(d, t, n - 1)
    BY <1>1, SectionIsRead
  <2> QED
    BY <2>1 DEF SectionRead
<1>6. MaxItems[t] \in Nat
  BY <1>1, LoaderAssumption
<1>7. c >= MaxItems[t]
  OBVIOUS
<1> HIDE DEF k, S, T, c
<1>8. Cardinality(S) <= Cardinality(T) /\ Cardinality(T) \in Nat
  BY <1>1, <1>3, MoreLines
<1>9. ~ (Len(Said(d, k)[t]) <= MaxItems[t])
  BY <1>2, <1>4, <1>5, <1>6, <1>7, <1>8
<1> QED
  BY <1>1, <1>9 DEF Fits, Document, k

LEMMA TooManyEntriesSaid ==
  ASSUME NEW d, IsFile(d), NEW n \in 1..Len(d), d[n].indent > 2, d[n].kind = "item",
         NEW i \in 1..(n - 1), IsItemOf(d, i, n), NEW t, t = SectionOf(d, n),
         NEW l \in Lists \cap DOMAIN Default[t], Block(d, n) = l,
         Len(ListAt(d, i, n - 1, l)) >= MaxEntries[l]
  PROVE  ~ Fits(Document(d))
<1> DEFINE k == Len(d)
           S == Listed(d, Extent(d, i, n), l)
           T == Listed(d, Extent(d, i, k), l)
           c == Len(ListAt(d, i, n - 1, l))
<1>1. t \in Sections /\ k \in Nat /\ n \in Nat /\ n - 1 \in Nat /\ i \in Nat \ {0} /\ n <= k
  BY SectionSays, LinesSay
<1>2. /\ ListAt(d, i, n, l) = Append(ListAt(d, i, n - 1, l), EntryAt(d, n, n, l))
      /\ IsList(ListAt(d, i, n - 1, l)) /\ Len(ListAt(d, i, n, l)) = Cardinality(S)
      /\ Len(ListAt(d, i, k, l)) = Cardinality(T)
  <2>1. IsOrdered(d, i, n, l) /\ IsOrdered(d, i, n - 1, l) /\ IsOrdered(d, i, k, l)
    BY <1>1, ListAtIs
  <2> QED
    BY <2>1, NewEntry DEF IsOrdered
<1>3. Cardinality(S) = c + 1 /\ c \in Nat
  BY <1>2, ListGrows
<1>4. T \in SUBSET (1..k) /\ S \in SUBSET T
  BY <1>1 DEF Listed, Extent
<1>5. MaxEntries[l] \in Nat /\ l \in DOMAIN MaxEntries
  BY LoaderAssumption DEF Lists
<1>6. c >= MaxEntries[l]
  OBVIOUS
<1>7. i \in ItemLines(d, t, k)
  BY <1>1 DEF IsItemOf, ItemLines
<1>8. SectionRead(d, t, k)
  BY <1>1, SectionIsRead
<1>9. PICK x \in 1..Cardinality(ItemLines(d, t, k)) : InOrder(ItemLines(d, t, k))[x] = i
  BY <1>7, <1>8, OrderPlaces DEF SectionRead
<1>10. x \in DOMAIN Said(d, k)[t] /\ Said(d, k)[t][x] = ItemAt(d, t, i, k)
  BY <1>8, <1>9 DEF SectionRead
<1>11. l \in DOMAIN ItemAt(d, t, i, k) /\ ItemAt(d, t, i, k)[l] = ListAt(d, i, k, l)
  BY ItemSays
<1> HIDE DEF k, S, T, c
<1>12. Cardinality(S) <= Cardinality(T) /\ Cardinality(T) \in Nat
  BY <1>1, <1>4, MoreLines
<1>13. ~ (Len(Said(d, k)[t][x][l]) <= MaxEntries[l])
  BY <1>2, <1>3, <1>5, <1>6, <1>10, <1>11, <1>12
<1> QED
  BY <1>1, <1>5, <1>10, <1>11, <1>13 DEF Fits, Document, k

------------------------------------------------------------------------------
(* The reader, line by line: what it holds is what the lines it has read say. *)

(* The files the invariant speaks of, and what the reader holds after k of  *)
(* their lines: the items they say, their section and context, and the      *)
(* last segment of the last path.                                           *)
Orderly(d) == WellFormed(d) /\ Known(d) /\ ScalarsFirst(d)

Held(d, k, c, t, ctx, cur, seg) ==
  /\ c = Said(d, k)
  /\ k = 0 => t = "none"
  /\ k > 0 => /\ t = SectionOf(d, k) /\ ctx = ContextAt(d, k)
              /\ d[k].indent > 0 => t \in cur
  /\ t = "paths" /\ t \in cur =>
       LET segments == c[t][Len(c[t])].segments
       IN  segments # <<>> => seg = <<Len(c[t]), Len(segments)>>

LinesRead == IF at = 0 THEN 0 ELSE at - 1
HeldNow == Held(doc, LinesRead, cfg, top, context, current, segment)
(* At every line the reader holds what the lines before it say; it stops    *)
(* early only where an array is too small; at the end what it holds is      *)
(* normalised and judged.                                                   *)
ReadInv ==
  Orderly(doc) =>
    /\ result = "loading" => HeldNow
    /\ result # "loading" /\ at \in Lines(doc) => result # "none" /\ ~ Fits(Document(doc))
    /\ result # "loading" /\ at = Len(doc) + 1 =>
         /\ cfg = Normalize(Document(doc)) /\ Fits(Document(doc))
         /\ result = Validate(cfg)

(* Between two lines of such a file, before the reader takes the next.      *)
AtLine == LoaderInv /\ ReadInv /\ Orderly(doc) /\ Reading

LEMMA ReadingSays ==
  ASSUME AtLine
  PROVE  /\ IsFile(doc) /\ at \in 1..Len(doc) /\ at \in Nat \ {0} /\ at - 1 \in Nat
         /\ Len(doc) \in Nat /\ Line = doc[at] /\ doc[at].indent \in Nat
         /\ Held(doc, at - 1, cfg, top, context, current, segment)
         /\ cfg = Said(doc, at - 1)
         /\ ScalarsFirst(doc) /\ Known(doc)
<1>1. doc \in Seq(LineRecords) /\ WellFormed(doc) /\ at \in 1..Len(doc)
  BY LoaderAssumption DEF AtLine, LoaderInv, CursorInv, Orderly, Reading
<1>2. Len(doc) \in Nat /\ at \in Nat \ {0} /\ at - 1 \in Nat
  BY <1>1
<1>3. IsFile(doc)
  BY <1>1 DEF IsFile
<1>4. HeldNow
  BY DEF AtLine, ReadInv, Reading
<1>5. LinesRead = at - 1
  BY <1>2 DEF LinesRead
<1>6. doc[at].indent \in Nat
  BY <1>1, <1>3, LinesSay
<1> QED
  BY <1>1, <1>2, <1>3, <1>4, <1>5, <1>6 DEF HeldNow, Held, Line, AtLine, Orderly

LEMMA GoesOn ==
  ASSUME AtLine, Consume, Held(doc, at, cfg', top', context', current', segment')
  PROVE  ReadInv'
<1>1. doc' = doc /\ at' = at + 1 /\ result' = "loading" /\ at \in Nat
  BY ReadingSays DEF Consume, AtLine, Reading
<1>2. LinesRead' = at
  BY <1>1 DEF LinesRead
<1>3. HeldNow'
  BY <1>1, <1>2 DEF HeldNow
<1> QED
  BY <1>1, <1>3 DEF ReadInv

LEMMA StopsOverrun ==
  ASSUME AtLine, NEW e \in ErrorCodes, e # "none", Reject(e), ~ Fits(Document(doc))
  PROVE  ReadInv'
<1>1. doc' = doc /\ at' = at /\ result' = e /\ at \in 1..Len(doc)
  BY ReadingSays DEF Reject
<1>2. result' # "loading"
  BY <1>1 DEF ErrorCodes
<1>3. at \in Nat /\ Len(doc) \in Nat
  BY ReadingSays
<1>4. at' # Len(doc') + 1
  BY <1>1, <1>3
<1> QED
  BY <1>1, <1>2, <1>4 DEF ReadInv

(* A line inside a section.                                                 *)
LEMMA LineSays ==
  ASSUME AtLine, doc[at].indent > 0
  PROVE  top = SectionOf(doc, at) /\ top \in Sections /\ ~ IsHeader /\ at - 1 \in 1..Len(doc)
<1>1. /\ IsFile(doc) /\ at \in 1..Len(doc) /\ at \in Nat \ {0} /\ Len(doc) \in Nat
      /\ Line = doc[at] /\ Held(doc, at - 1, cfg, top, context, current, segment)
  BY ReadingSays
<1>2. at # 1
  BY <1>1, LinesSay
<1>3. at - 1 \in 1..Len(doc) /\ at - 1 \in 1..at /\ at - 1 > 0
  BY <1>1, <1>2
<1>4. \A j \in 1..at : j > at - 1 => doc[j].indent > 0
  <2> TAKE j \in 1..at
  <2>1. j > at - 1 => j = at
    BY <1>1
  <2> QED
    BY <2>1
<1>5. SectionOf(doc, at - 1) = SectionOf(doc, at)
  <2> DEFINE p == at - 1
  <2>1. p \in 1..at /\ \A j \in 1..at : j > p => doc[j].indent > 0
    BY <1>3, <1>4
  <2> HIDE DEF p
  <2>2. SectionOf(doc, p) = SectionOf(doc, at)
    BY <1>1, <2>1, SameSection
  <2> QED
    BY <2>2 DEF p
<1>6. top = SectionOf(doc, at)
  BY <1>1, <1>3, <1>5 DEF Held
<1>7. ~ IsHeader
  <2>1. doc[at].indent # 0
    BY ReadingSays
  <2> QED
    BY <2>1 DEF IsHeader, Line
<1> QED
  BY <1>1, <1>3, <1>6, <1>7, SectionSays

(* A line inside an item, i.                                                *)
DeepAt(i) ==
  /\ i \in 1..(at - 1) /\ IsItemOf(doc, i, at) /\ HasItem
  /\ context = ContextAt(doc, at - 1)
  /\ Item = ItemAt(doc, top, i, at - 1)
  /\ Said(doc, at) = LastItem(ItemAt(doc, top, i, at))
  /\ Len(cfg[top]) \in DOMAIN cfg[top]

LEMMA DeepLineSays ==
  ASSUME AtLine, doc[at].indent > 2
  PROVE  \E i : DeepAt(i)
<1>1. /\ IsFile(doc) /\ at \in 1..Len(doc) /\ at \in Nat \ {0} /\ Len(doc) \in Nat
      /\ Held(doc, at - 1, cfg, top, context, current, segment) /\ cfg = Said(doc, at - 1)
      /\ doc[at].indent \in Nat
  BY ReadingSays
<1>2. top = SectionOf(doc, at) /\ at - 1 \in 1..Len(doc) /\ at - 1 > 0
  BY <1>1, LineSays
<1>3. PICK i \in 1..(at - 1) : /\ IsItemLine(doc, i) /\ SectionOf(doc, i) = SectionOf(doc, at)
                               /\ \A j \in 1..at : j > i => doc[j].indent > 2
  BY <1>1, ItemAbove
<1>4. IsItemOf(doc, i, at)
  BY <1>3 DEF IsItemOf
<1>5. HasItem
  <2>1. doc[at - 1].indent > 0
    <3>1. CASE at - 1 = i
      BY <1>3, <3>1 DEF IsItemLine
    <3>2. CASE at - 1 # i
      <4>1. at - 1 \in 1..at /\ at - 1 > i
        BY <1>1, <1>3, <3>2
      <4>2. doc[at - 1].indent > 2 /\ doc[at - 1].indent \in Nat
        BY <1>1, <1>2, <1>3, <4>1, LinesSay
      <4> QED
        BY <4>2
    <3> QED
      BY <3>1, <3>2
  <2> QED
    BY <1>1, <1>2, <2>1 DEF Held, HasItem
<1> DEFINE c == Len(Said(doc, at - 1)[top])
<1>6. /\ c \in DOMAIN Said(doc, at - 1)[top]
      /\ Said(doc, at - 1)[top][c] = ItemAt(doc, top, i, at - 1)
      /\ Said(doc, at) = [Said(doc, at - 1) EXCEPT ![top][c] = ItemAt(doc, top, i, at)]
  <2>1. c = Len(Said(doc, at - 1)[top])
    OBVIOUS
  <2> HIDE DEF c
  <2>2. \A t, x : t = SectionOf(doc, at) /\ x = Len(Said(doc, at - 1)[t]) =>
          /\ x \in DOMAIN Said(doc, at - 1)[t]
          /\ Said(doc, at - 1)[t][x] = ItemAt(doc, t, i, at - 1)
          /\ Said(doc, at) = [Said(doc, at - 1) EXCEPT ![t][x] = ItemAt(doc, t, i, at)]
    BY <1>1, <1>4, DeepChangesItem
  <2> QED
    BY <1>2, <2>1, <2>2
<1>7. DeepAt(i)
  BY <1>1, <1>2, <1>4, <1>5, <1>6 DEF DeepAt, Item, LastItem, Held
<1> QED
  BY <1>7

LEMMA DeepGoesOn ==
  ASSUME AtLine, doc[at].indent > 2, Consume, NEW i, DeepAt(i),
         cfg' = LastItem(ItemAt(doc, top, i, at)), top' = top, current' = current,
         context' = ContextAt(doc, at),
         top = "paths" =>
           LET segments == ItemAt(doc, top, i, at).segments
           IN  segments # <<>> => segment' = <<Len(cfg[top]), Len(segments)>>
  PROVE  ReadInv'
<1>1. /\ IsFile(doc) /\ at \in 1..Len(doc) /\ at \in Nat \ {0} /\ doc[at].indent \in Nat
      /\ cfg = Said(doc, at - 1) /\ at - 1 \in Nat
  BY ReadingSays
<1>2. top = SectionOf(doc, at) /\ top \in Sections
  BY <1>1, LineSays
<1>3. cfg' = Said(doc, at) /\ HasItem /\ Len(cfg[top]) \in DOMAIN cfg[top]
  BY DEF DeepAt
<1>4. cfg'[top][Len(cfg'[top])] = ItemAt(doc, top, i, at) /\ Len(cfg'[top]) = Len(cfg[top])
  <2> DEFINE e == ItemAt(doc, top, i, at)
             c == Len(cfg[top])
  <2>1. IsList(cfg[top])
    BY <1>2 DEF AtLine, LoaderInv, Configured, AreItems
  <2>2. top \in DOMAIN cfg
    BY <1>2 DEF AtLine, LoaderInv, Configured
  <2> HIDE DEF e
  <2>3. cfg' = [cfg EXCEPT ![top][c] = e]
    BY DEF LastItem, e
  <2>4. cfg'[top] = [cfg[top] EXCEPT ![c] = e]
    BY <2>2, <2>3
  <2>5. Len([cfg[top] EXCEPT ![c] = e]) = c
    BY <1>3, <2>1, EntryReplaced
  <2> QED
    BY <1>3, <2>4, <2>5 DEF e
<1>5. Held(doc, at, cfg', top', context', current', segment')
  BY <1>1, <1>2, <1>3, <1>4 DEF Held, HasItem
<1> QED
  BY <1>5, GoesOn

LEMMA QuietGoesOn ==
  ASSUME AtLine, doc[at].indent > 2, Consume, NEW i, DeepAt(i),
         cfg' = LastItem(ItemAt(doc, top, i, at)), top' = top, current' = current,
         context' = ContextAt(doc, at), segment' = segment,
         top = "paths" => ItemAt(doc, top, i, at).segments = Item.segments
  PROVE  ReadInv'
<1>1. Held(doc, at - 1, cfg, top, context, current, segment)
  BY ReadingSays
<1>2. HasItem
  BY DEF DeepAt
<1>3. top = "paths" =>
        LET segments == ItemAt(doc, top, i, at).segments
        IN  segments # <<>> => segment' = <<Len(cfg[top]), Len(segments)>>
  BY <1>1, <1>2 DEF Held, Item, HasItem
<1> QED
  BY <1>3, DeepGoesOn

LEMMA SameContext ==
  ASSUME AtLine, doc[at].indent > 2, ~ Opens(doc, at)
  PROVE  ContextAt(doc, at) = ContextAt(doc, at - 1)
<1>1. at \in Nat \ {0} /\ doc[at].indent \in Nat
  BY ReadingSays
<1>2. ~ SetsContext(doc, at)
  BY <1>1 DEF SetsContext
<1> QED
  BY <1>1, <1>2, ContextGoesOn

------------------------------------------------------------------------------
(* Headers and items.                                                       *)

LEMMA StoredIsPut ==
  ASSUME NEW item, NEW keys
  PROVE  Stored(item, keys) = Put(doc[at], item, keys)
BY DEF Stored, Put, Line

LEMMA HeaderReads ==
  ASSUME AtLine, Header
  PROVE  ReadInv'
<1>1. /\ IsFile(doc) /\ at \in 1..Len(doc) /\ at \in Nat \ {0} /\ cfg = Said(doc, at - 1)
  BY ReadingSays
<1>2. /\ Consume /\ doc[at].indent = 0 /\ doc[at].key \in Sections
      /\ top' = doc[at].key /\ context' = "none" /\ current' = current \ {doc[at].key} /\ cfg' = cfg
  BY DEF Header, IsHeader, Line
<1>3. cfg' = Said(doc, at) /\ top' = SectionOf(doc, at)
  BY <1>1, <1>2, HeaderAddsNothing, SectionSays
<1>4. context' = ContextAt(doc, at)
  <2>1. SetsContext(doc, at) /\ ~ Opens(doc, at) /\ ~ IsItemLine(doc, at)
    <3>1. ~ Opens(doc, at)
      BY <1>1, <1>2, Levels
    <3>2. doc[at].indent <= 2 /\ doc[at].indent # 2
      BY <1>2
    <3> QED
      BY <3>1, <3>2 DEF SetsContext, IsItemLine
  <2>2. ContextAt(doc, at) = ContextOf(doc, at)
    BY <1>1, <2>1, ContextGoesOn
  <2> QED
    BY <1>2, <2>1, <2>2 DEF ContextOf
<1>5. Held(doc, at, cfg', top', context', current', segment')
  BY <1>1, <1>2, <1>3, <1>4 DEF Held
<1> QED
  BY <1>2, <1>5, GoesOn

LEMMA ItemLineSays ==
  ASSUME AtLine, InSection("item")
  PROVE  /\ doc[at].kind = "item" /\ doc[at].indent > 0 /\ top = SectionOf(doc, at)
         /\ top \in Sections
         /\ Line.indent = 2 => IsItemLine(doc, at)
         /\ Line.indent # 2 => doc[at].indent > 2 /\ IsElement(doc, at) /\ HasItem
                               /\ context = Block(doc, at) /\ context \in ListKeys
<1>1. /\ IsFile(doc) /\ at \in 1..Len(doc) /\ doc[at].indent \in Nat
  BY ReadingSays
<1>2. doc[at].kind = "item"
  BY DEF InSection, Line
<1>3. doc[at].indent # 0 /\ (doc[at].indent = 2 \/ doc[at].indent >= 4)
  BY <1>1, <1>2, Levels
<1>4. doc[at].indent > 0
  BY <1>1, <1>3
<1>5. top = SectionOf(doc, at) /\ top \in Sections
  BY <1>4, LineSays
<1>6. ASSUME Line.indent # 2
      PROVE  doc[at].indent > 2 /\ IsElement(doc, at) /\ HasItem
             /\ context = Block(doc, at) /\ context \in ListKeys
  <2>1. doc[at].indent > 2
    BY <1>1, <1>3, <1>6 DEF Line
  <2>2. IsElement(doc, at)
    BY <1>2, <2>1 DEF IsElement
  <2>3. PICK i : DeepAt(i)
    BY <2>1, DeepLineSays
  <2>4. HasItem /\ context = ContextAt(doc, at - 1)
    BY <2>3 DEF DeepAt
  <2> QED
    BY <1>1, <2>1, <2>2, <2>4, ContextOfEntry, ElementSays
<1>7. Line.indent = 2 => IsItemLine(doc, at)
  BY <1>2 DEF Line, IsItemLine
<1> QED
  BY <1>2, <1>4, <1>5, <1>6, <1>7

LEMMA NewItemReads ==
  ASSUME AtLine, NewItem
  PROVE  ReadInv'
<1> DEFINE item == Put(doc[at], Default[top], KeysOf(top, "none"))
<1>1. /\ IsFile(doc) /\ at \in 1..Len(doc) /\ at \in Nat \ {0} /\ cfg = Said(doc, at - 1)
  BY ReadingSays
<1>2. /\ InSection("item") /\ Line.indent = 2 /\ Consume
      /\ cfg' = [cfg EXCEPT ![top] = Append(@, item)]
      /\ context' = IF top = "paths" /\ doc[at].key \in {"waypoints", "segments"}
                    THEN doc[at].key ELSE "none"
      /\ current' = current \cup {top} /\ top' = top
  BY StoredIsPut DEF NewItem, Line
<1>3. top = SectionOf(doc, at) /\ top \in Sections /\ IsItemLine(doc, at)
  BY <1>2, ItemLineSays
<1>4. item = ItemAt(doc, top, at, at)
  BY <1>1, <1>3, NewItemSays
<1>5. cfg' = Said(doc, at)
  <2>1. \A t : t = SectionOf(doc, at) =>
          Said(doc, at) = [Said(doc, at - 1) EXCEPT ![t] = Append(@, ItemAt(doc, t, at, at))]
    BY <1>1, <1>3, ItemAdds
  <2> QED
    BY <1>1, <1>2, <1>3, <1>4, <2>1
<1>6. context' = ContextAt(doc, at)
  <2>1. SetsContext(doc, at) /\ ~ Opens(doc, at)
    BY <1>3 DEF SetsContext, IsItemLine, Opens
  <2>2. ContextAt(doc, at) = ContextOf(doc, at)
    BY <1>1, <2>1, ContextGoesOn
  <2> QED
    BY <1>2, <1>3, <2>1, <2>2 DEF ContextOf
<1>7. ASSUME top = "paths" PROVE cfg'[top][Len(cfg'[top])].segments = <<>>
  <2>1. IsItem(top, Default[top]) /\ "segments" \in Lists \cap DOMAIN Default[top]
    BY <1>3, <1>7, DefaultIsItem, SegmentsIsList
  <2>2. item.segments = Default[top].segments
    <3>1. \A l \in Lists \cap DOMAIN Default[top] :
            Stored(Default[top], KeysOf(top, "none"))[l] = Default[top][l]
      BY <1>3, <2>1, StoredKeeps
    <3> QED
      BY <2>1, <3>1, StoredIsPut
  <2>3. Default[top].segments = <<>>
    BY <1>3, <2>1, DefaultLists
  <2> HIDE DEF item
  <2>4. IsList(cfg[top]) /\ top \in DOMAIN cfg
    BY <1>3 DEF AtLine, LoaderInv, Configured, AreItems
  <2>5. cfg'[top] = Append(cfg[top], item)
    BY <1>2, <2>4
  <2>6. Append(cfg[top], item)[Len(Append(cfg[top], item))] = item
    <3>1. /\ Len(Append(cfg[top], item)) = Len(cfg[top]) + 1 /\ Len(cfg[top]) \in Nat
          /\ IsList(Append(cfg[top], item))
          /\ \A i \in DOMAIN Append(cfg[top], item) :
               Append(cfg[top], item)[i] = IF i \in DOMAIN cfg[top] THEN cfg[top][i] ELSE item
      BY <2>4, ListGrows
    <3>2. DOMAIN cfg[top] = 1..Len(cfg[top])
      BY <2>4 DEF IsList
    <3>3. DOMAIN Append(cfg[top], item) = 1..(Len(cfg[top]) + 1)
      BY <3>1 DEF IsList
    <3>4. Len(cfg[top]) + 1 \in DOMAIN Append(cfg[top], item)
          /\ Len(cfg[top]) + 1 \notin DOMAIN cfg[top]
      BY <3>1, <3>2, <3>3
    <3> QED
      BY <3>1, <3>4
  <2> QED
    BY <2>2, <2>3, <2>5, <2>6
<1>8. Held(doc, at, cfg', top', context', current', segment')
  <2>1. at # 0 /\ top' = top /\ top' \in current'
    BY <1>1, <1>2
  <2>2. top' = "paths" => cfg'[top'][Len(cfg'[top'])].segments = <<>>
    BY <1>7, <2>1
  <2> QED
    BY <1>3, <1>5, <1>6, <2>1, <2>2 DEF Held
<1> QED
  BY <1>2, <1>8, GoesOn

LEMMA TooManyItemsReads ==
  ASSUME AtLine, TooManyItems
  PROVE  ReadInv'
<1>1. /\ IsFile(doc) /\ at \in 1..Len(doc) /\ cfg = Said(doc, at - 1)
  BY ReadingSays
<1>2. /\ InSection("item") /\ Line.indent = 2 /\ Len(cfg[top]) >= MaxItems[top]
      /\ Reject("invalid_argument")
  BY DEF TooManyItems
<1>3. top = SectionOf(doc, at) /\ IsItemLine(doc, at)
  BY <1>2, ItemLineSays
<1>4. ~ Fits(Document(doc))
  BY <1>1, <1>2, <1>3, TooManyItemsSaid
<1> QED
  BY <1>2, <1>4, StopsOverrun DEF ErrorCodes

(* Entries of lists.                                                        *)
LEMMA EntryLineSays ==
  ASSUME AtLine, InList(PlainLists)
  PROVE  /\ doc[at].indent > 2 /\ doc[at].kind = "item" /\ ~ Opens(doc, at)
         /\ HasItem /\ context \in PlainLists
         /\ Entry = doc[at].value
         /\ ~ Refused(context, Entry)
         /\ \E i : /\ DeepAt(i)
                  /\ Item[context] = ListAt(doc, i, at - 1, context)
                  /\ context \in Lists \cap DOMAIN Default[top]
                  /\ ItemAt(doc, top, i, at) =
                       [Item EXCEPT ![context] = Append(Item[context], Convert(context, Entry))]
<1>1. /\ IsFile(doc) /\ at \in 1..Len(doc) /\ Known(doc)
  BY ReadingSays
<1>2. InSection("item") /\ Line.indent # 2 /\ context \in PlainLists
  BY DEF InList
<1>3. /\ doc[at].kind = "item" /\ top = SectionOf(doc, at) /\ top \in Sections
      /\ doc[at].indent > 2 /\ doc[at].indent > 0 /\ IsElement(doc, at) /\ HasItem
      /\ context = Block(doc, at)
  BY <1>2, ItemLineSays
<1>4. PICK i : DeepAt(i)
  BY <1>3, DeepLineSays
<1>5. i \in 1..(at - 1) /\ IsItemOf(doc, i, at) /\ Item = ItemAt(doc, top, i, at - 1)
  BY <1>4 DEF DeepAt
<1>7. /\ context \in Lists \cap DOMAIN Default[top] /\ doc[at].key = ""
      /\ ItemAt(doc, top, i, at) =
           [Item EXCEPT ![context] =
              Append(ListAt(doc, i, at - 1, context), Convert(context, doc[at].value))]
  <2> DEFINE l == context
             t == top
             n == at
             d == doc
  <2>1. /\ IsFile(d) /\ n \in 1..Len(d) /\ IsElement(d, n) /\ Block(d, n) = l /\ l \in PlainLists
        /\ i \in 1..(n - 1) /\ IsItemOf(d, i, n) /\ t = SectionOf(d, n)
    BY <1>1, <1>2, <1>3, <1>5
  <2> HIDE DEF l, t, n, d
  <2>2. /\ l \in Lists \cap DOMAIN Default[t] /\ d[n].key = ""
        /\ OnlyListChanges(d, t, i, n, l)
        /\ ListAt(d, i, n, l) = Append(ListAt(d, i, n - 1, l), Convert(l, d[n].value))
    BY <2>1, EntrySays
  <2> QED
    BY <1>5, <2>2 DEF l, t, n, d, OnlyListChanges
<1>8. Item[context] = ListAt(doc, i, at - 1, context)
  <2>0. context \in Lists /\ context \in DOMAIN Default[top]
    BY <1>7
  <2>1. \A k : ItemAt(doc, top, i, k)[context] = ListAt(doc, i, k, context)
    BY <2>0, ItemSays
  <2> QED
    BY <1>5, <2>1
<1>9. Entry = doc[at].value
  BY <1>7 DEF Entry, Line
<1>10. ~ Refused(context, Entry)
  <2>1. CASE context = "comparison_order"
    BY <1>1, <1>3, <1>9, <2>1 DEF Known, Lines
  <2>2. CASE context # "comparison_order"
    BY <1>2, <2>2 DEF Refused, PlainLists
  <2> QED
    BY <2>1, <2>2
<1>11. ~ Opens(doc, at)
  BY <1>3 DEF Opens
<1> QED
  BY <1>2, <1>3, <1>4, <1>7, <1>8, <1>9, <1>10, <1>11

LEMMA AddEntryReads ==
  ASSUME AtLine, AddEntry
  PROVE  ReadInv'
<1>1. /\ InList(PlainLists) /\ Consume
      /\ cfg' = LastItem([Item EXCEPT ![context] = Append(@, Convert(context, Entry))])
      /\ top' = top /\ context' = context /\ current' = current /\ segment' = segment
  BY DEF AddEntry, position
<1>2. /\ doc[at].indent > 2 /\ ~ Opens(doc, at) /\ context \in PlainLists
  BY <1>1, EntryLineSays
<1>3. PICK i : /\ DeepAt(i)
               /\ ItemAt(doc, top, i, at) =
                    [Item EXCEPT ![context] = Append(Item[context], Convert(context, Entry))]
  BY <1>1, EntryLineSays
<1>4. context' = ContextAt(doc, at)
  BY <1>1, <1>2, <1>3, SameContext DEF DeepAt
<1>5. ItemAt(doc, top, i, at).segments = Item.segments
  <2>1. context # "segments"
    BY <1>2 DEF PlainLists
  <2> QED
    BY <1>3, <2>1
<1>6. cfg' = LastItem(ItemAt(doc, top, i, at))
  BY <1>1, <1>3
<1> QED
  BY <1>1, <1>2, <1>3, <1>4, <1>5, <1>6, QuietGoesOn

LEMMA EntryRefusedReads ==
  ASSUME AtLine, EntryRefused
  PROVE  ReadInv'
<1>1. /\ InList(PlainLists) /\ Reject("invalid_argument")
      /\ Len(Item[context]) >= MaxEntries[context] \/ Refused(context, Entry)
  BY DEF EntryRefused
<1>2. /\ doc[at].indent > 2 /\ doc[at].kind = "item" /\ ~ Refused(context, Entry)
      /\ context \in PlainLists
  BY <1>1, EntryLineSays
<1>3. PICK i : /\ DeepAt(i) /\ Item[context] = ListAt(doc, i, at - 1, context)
               /\ context \in Lists \cap DOMAIN Default[top]
  BY <1>1, EntryLineSays
<1>4. /\ IsFile(doc) /\ at \in 1..Len(doc)
  BY ReadingSays
<1>5. i \in 1..(at - 1) /\ IsItemOf(doc, i, at)
  BY <1>3 DEF DeepAt
<1>6. top = SectionOf(doc, at) /\ context = Block(doc, at)
  BY <1>1, ItemLineSays DEF InList
<1>7. ~ Fits(Document(doc))
  <2>1. \A l, t : /\ t = SectionOf(doc, at) /\ l \in Lists \cap DOMAIN Default[t]
                  /\ Block(doc, at) = l /\ Len(ListAt(doc, i, at - 1, l)) >= MaxEntries[l]
                  => ~ Fits(Document(doc))
    BY <1>2, <1>4, <1>5, TooManyEntriesSaid
  <2> QED
    BY <1>1, <1>2, <1>3, <1>6, <2>1
<1> QED
  BY <1>1, <1>7, StopsOverrun DEF ErrorCodes

(* Segments.                                                                *)
LEMMA SegmentLineSays ==
  ASSUME AtLine, InList({"segments"})
  PROVE  /\ doc[at].indent > 2 /\ doc[at].kind = "item" /\ ~ Opens(doc, at)
         /\ HasItem /\ context = "segments" /\ Block(doc, at) = "segments" /\ top = "paths"
         /\ SectionOf(doc, at) = "paths"
         /\ \E i : /\ DeepAt(i)
                  /\ Item.segments = ListAt(doc, i, at - 1, "segments")
                  /\ OnlyListChanges(doc, "paths", i, at, "segments")
                  /\ ListAt(doc, i, at, "segments") =
                       Append(Item.segments, Put(doc[at], EmptySegment, SegmentKeys))
<1>1. /\ IsFile(doc) /\ at \in 1..Len(doc)
  BY ReadingSays
<1>2. InSection("item") /\ Line.indent # 2 /\ context = "segments"
  BY DEF InList
<1>3. /\ doc[at].kind = "item" /\ top = SectionOf(doc, at) /\ doc[at].indent > 2 /\ HasItem
      /\ Block(doc, at) = "segments"
  BY <1>2, ItemLineSays
<1>4. PICK i : DeepAt(i)
  BY <1>3, DeepLineSays
<1>5. i \in 1..(at - 1) /\ IsItemOf(doc, i, at) /\ Item = ItemAt(doc, top, i, at - 1)
  BY <1>4 DEF DeepAt
<1>6. /\ SectionOf(doc, at) = "paths" /\ OnlyListChanges(doc, "paths", i, at, "segments")
      /\ ListAt(doc, i, at, "segments") =
           Append(ListAt(doc, i, at - 1, "segments"), Put(doc[at], EmptySegment, SegmentKeys))
  BY <1>1, <1>3, <1>5, SegmentSays
<1>7. Item.segments = ListAt(doc, i, at - 1, "segments")
  <2>1. "segments" \in Lists /\ "segments" \in DOMAIN Default["paths"]
    BY SegmentsIsList
  <2>2. \A k : ItemAt(doc, "paths", i, k)["segments"] = ListAt(doc, i, k, "segments")
    BY <2>1, ItemSays
  <2> QED
    BY <1>3, <1>5, <1>6, <2>2
<1>8. ~ Opens(doc, at)
  BY <1>3 DEF Opens
<1> QED
  BY <1>2, <1>3, <1>4, <1>6, <1>7, <1>8

LEMMA AddSegmentReads ==
  ASSUME AtLine, AddSegment
  PROVE  ReadInv'
<1> DEFINE new == Put(doc[at], EmptySegment, SegmentKeys)
<1>1. /\ InList({"segments"}) /\ Consume
      /\ cfg' = LastItem([Item EXCEPT !.segments = Append(@, new)])
      /\ segment' = <<Len(cfg.paths), Len(Item.segments) + 1>>
      /\ top' = top /\ context' = context /\ current' = current
  BY StoredIsPut DEF AddSegment
<1>2. /\ doc[at].indent > 2 /\ ~ Opens(doc, at) /\ HasItem /\ top = "paths"
  BY <1>1, SegmentLineSays
<1>3. PICK i : /\ DeepAt(i)
               /\ OnlyListChanges(doc, "paths", i, at, "segments")
               /\ ListAt(doc, i, at, "segments") = Append(Item.segments, new)
  BY <1>1, SegmentLineSays
<1>4. context' = ContextAt(doc, at)
  BY <1>1, <1>2, <1>3, SameContext DEF DeepAt
<1>5. IsItem(top, Item) /\ "segments" \in DOMAIN Item /\ IsList(Item.segments)
  <2>1. IsItem(top, Item) /\ DOMAIN Item = DOMAIN Default[top]
    BY <1>2, ItemIsThere DEF AtLine
  <2> QED
    BY <1>2, <2>1, SegmentsIsList DEF IsItem
<1>6. Item = ItemAt(doc, top, i, at - 1)
  BY <1>3 DEF DeepAt
<1> HIDE DEF new
<1>7. ItemAt(doc, top, i, at) = [Item EXCEPT !.segments = Append(Item.segments, new)]
  BY <1>2, <1>3, <1>6 DEF OnlyListChanges
<1>8. /\ cfg' = LastItem(ItemAt(doc, top, i, at))
      /\ ItemAt(doc, top, i, at).segments = Append(Item.segments, new)
  BY <1>1, <1>5, <1>7
<1>9. Len(Append(Item.segments, new)) = Len(Item.segments) + 1
  BY <1>5, ListGrows
<1>10. segment' = <<Len(cfg[top]), Len(ItemAt(doc, top, i, at).segments)>>
  BY <1>1, <1>2, <1>8, <1>9
<1> QED
  BY <1>1, <1>2, <1>3, <1>4, <1>8, <1>10, DeepGoesOn

LEMMA TooManySegmentsReads ==
  ASSUME AtLine, TooManySegments
  PROVE  ReadInv'
<1>1. /\ InList({"segments"}) /\ Reject("invalid_argument")
      /\ Len(Item.segments) >= MaxEntries.segments
  BY DEF TooManySegments
<1>2. /\ doc[at].indent > 2 /\ doc[at].kind = "item" /\ SectionOf(doc, at) = "paths"
      /\ Block(doc, at) = "segments"
  BY <1>1, SegmentLineSays
<1>3. PICK i : DeepAt(i) /\ Item.segments = ListAt(doc, i, at - 1, "segments")
  BY <1>1, SegmentLineSays
<1>4. /\ IsFile(doc) /\ at \in 1..Len(doc)
  BY ReadingSays
<1>5. i \in 1..(at - 1) /\ IsItemOf(doc, i, at)
  BY <1>3 DEF DeepAt
<1>6. ~ Fits(Document(doc))
  <2>1. \A l, t : /\ t = SectionOf(doc, at) /\ l \in Lists \cap DOMAIN Default[t]
                  /\ Block(doc, at) = l /\ Len(ListAt(doc, i, at - 1, l)) >= MaxEntries[l]
                  => ~ Fits(Document(doc))
    BY <1>2, <1>4, <1>5, TooManyEntriesSaid
  <2> QED
    BY <1>1, <1>2, <1>3, <2>1, SegmentsIsList
<1> QED
  BY <1>1, <1>6, StopsOverrun DEF ErrorCodes

(* Fields.                                                                  *)
LEMMA FieldLineSays ==
  ASSUME AtLine, InSection("field")
  PROVE  /\ doc[at].kind = "field" /\ doc[at].indent > 2
         /\ top = SectionOf(doc, at) /\ top \in Sections /\ HasItem
         /\ \E i : DeepAt(i)
<1>1. /\ IsFile(doc) /\ at \in 1..Len(doc) /\ doc[at].indent \in Nat
  BY ReadingSays
<1>2. doc[at].kind = "field" /\ ~ IsHeader
  BY DEF InSection, Line
<1>3. doc[at].indent # 0
  BY <1>1, <1>2, Levels DEF IsHeader, Line
<1>4. doc[at].indent # 2
  BY <1>1, <1>2, Levels DEF IsItemLine
<1>5. doc[at].indent > 2 /\ doc[at].indent > 0
  <2>1. doc[at].indent = 0 \/ doc[at].indent = 2 \/ doc[at].indent >= 4
    BY <1>1, Levels
  <2> QED
    BY <1>1, <1>3, <1>4, <2>1
<1>6. PICK i : DeepAt(i)
  BY <1>5, DeepLineSays
<1> QED
  BY <1>2, <1>5, <1>6, LineSays DEF DeepAt

(* The reader takes a line for a field of a segment when it is one.         *)
LEMMA SegmentFieldsAreSeen ==
  ASSUME AtLine, InSection("field")
  PROVE  IsSegmentField <=> InSegment(doc, at)
<1>1. /\ IsFile(doc) /\ at \in 1..Len(doc) /\ doc[at].indent \in Nat
      /\ Held(doc, at - 1, cfg, top, context, current, segment)
  BY ReadingSays
<1>2. /\ doc[at].kind = "field" /\ doc[at].indent > 2
      /\ top = SectionOf(doc, at) /\ top \in Sections /\ HasItem
  BY FieldLineSays
<1>3. ASSUME IsSegmentField PROVE InSegment(doc, at)
  <2>1. top = "paths" /\ doc[at].indent >= 6
    BY <1>3 DEF IsSegmentField, Line
  <2>2. ~ InItem(doc, at)
    BY <2>1 DEF InItem
  <2>3. ~ InBlock(doc, at)
    BY <1>2, <2>1 DEF InBlock, Blocks, ListKeys, PlainLists
  <2> QED
    BY <1>1, <1>2, <2>2, <2>3, DeepSays
<1>4. ASSUME InSegment(doc, at) PROVE IsSegmentField
  <2>1. PICK i : DeepAt(i)
    BY FieldLineSays
  <2>2. /\ i \in 1..(at - 1) /\ IsItemOf(doc, i, at) /\ Item = ItemAt(doc, top, i, at - 1)
        /\ context = ContextAt(doc, at - 1)
    BY <2>1 DEF DeepAt
  <2>3. context = "segments"
    BY <1>1, <1>2, <1>4, <2>2, ContextOfSegmentField
  <2>4. top = "paths"
    BY <1>2, <1>4 DEF InSegment
  <2>5. /\ \A j \in 1..at : j > Parent(doc, at) => doc[j].indent > 6
        /\ Parent(doc, at) \in 1..(at - 1)
    BY <1>1, <1>2, <1>4, <2>2, SegmentAbove
  <2>6. doc[at].indent >= 6
    <3>1. at \in 1..at /\ at > Parent(doc, at)
      BY <1>1, <2>5, ReadingSays
    <3> QED
      BY <1>1, <2>5, <3>1
  <2>7. segment # None
    <3>1. Item.segments # <<>>
      <4>1. Len(ListAt(doc, i, at - 1, "segments")) \in DOMAIN ListAt(doc, i, at - 1, "segments")
        BY <1>1, <1>2, <1>4, <2>2, SegmentFieldSays DEF LastSegmentWritten
      <4>2. "segments" \in Lists /\ "segments" \in DOMAIN Default["paths"]
        BY SegmentsIsList
      <4>3. \A k : ItemAt(doc, "paths", i, k)["segments"] = ListAt(doc, i, k, "segments")
        BY <4>2, ItemSays
      <4>4. Item.segments = ListAt(doc, i, at - 1, "segments")
        BY <2>2, <2>4, <4>3
      <4> QED
        BY <4>1, <4>4, EmptyIsList
    <3>2. segment = <<Len(cfg[top]), Len(Item.segments)>>
      BY <1>1, <1>2, <2>4, <3>1 DEF Held, Item, HasItem
    <3> QED
      BY <3>2 DEF None
  <2> QED
    BY <2>3, <2>4, <2>6, <2>7 DEF IsSegmentField, Line
<1> QED
  BY <1>3, <1>4

LEMMA SegmentFieldReads ==
  ASSUME AtLine, SegmentField
  PROVE  ReadInv'
<1>1. /\ InSection("field") /\ IsSegmentField /\ Consume
      /\ cfg' = [cfg EXCEPT !.paths[segment[1]].segments[segment[2]] = Put(doc[at], @, SegmentKeys)]
      /\ top' = top /\ context' = context /\ current' = current /\ segment' = segment
  BY StoredIsPut DEF SegmentField, position
<1>2. /\ IsFile(doc) /\ at \in 1..Len(doc)
      /\ Held(doc, at - 1, cfg, top, context, current, segment)
  BY ReadingSays
<1>3. /\ doc[at].indent > 2 /\ HasItem /\ InSegment(doc, at) /\ top = "paths"
  BY <1>1, FieldLineSays, SegmentFieldsAreSeen DEF IsSegmentField
<1>4. PICK i : DeepAt(i)
  BY <1>1, FieldLineSays
<1>5. /\ i \in 1..(at - 1) /\ IsItemOf(doc, i, at) /\ Item = ItemAt(doc, top, i, at - 1)
      /\ context = ContextAt(doc, at - 1)
  BY <1>4 DEF DeepAt
<1>6. Item.segments = ListAt(doc, i, at - 1, "segments")
  <2>1. "segments" \in Lists /\ "segments" \in DOMAIN Default["paths"]
    BY SegmentsIsList
  <2>2. \A k : ItemAt(doc, "paths", i, k)["segments"] = ListAt(doc, i, k, "segments")
    BY <2>1, ItemSays
  <2> QED
    BY <1>3, <1>5, <2>2
<1> DEFINE c == Len(Item.segments)
           list == [Item.segments EXCEPT ![c] = Put(doc[at], @, SegmentKeys)]
<1>7. /\ OnlyListChanges(doc, "paths", i, at, "segments")
      /\ c \in DOMAIN Item.segments
      /\ ListAt(doc, i, at, "segments") = list
  <2>1. OnlyListChanges(doc, "paths", i, at, "segments") /\ LastSegmentWritten(doc, i, at)
    BY <1>2, <1>3, <1>5, SegmentFieldSays
  <2> QED
    BY <1>6, <2>1 DEF LastSegmentWritten
<1>8. IsItem(top, Item) /\ "segments" \in DOMAIN Item /\ IsList(Item.segments)
      /\ Len(cfg[top]) \in DOMAIN cfg[top] /\ top \in DOMAIN cfg
  <2>1. IsItem(top, Item) /\ DOMAIN Item = DOMAIN Default[top] /\ Len(cfg[top]) \in DOMAIN cfg[top]
    BY <1>3, ItemIsThere DEF AtLine
  <2>2. top \in DOMAIN cfg
    BY <1>3 DEF AtLine, LoaderInv, Configured, Sections
  <2> QED
    BY <1>3, <2>1, <2>2, SegmentsIsList DEF IsItem
<1>9. segment = <<Len(cfg[top]), c>>
  <2>1. Item.segments # <<>>
    BY <1>7, EmptyIsList
  <2> QED
    BY <1>2, <1>3, <2>1 DEF Held, Item, HasItem
<1>10. ItemAt(doc, top, i, at) = [Item EXCEPT !.segments = list]
  <2> HIDE DEF list
  <2> QED
    BY <1>3, <1>5, <1>7 DEF OnlyListChanges
<1>11. cfg' = LastItem([Item EXCEPT !.segments = list])
  <2>1. segment[1] = Len(cfg.paths) /\ segment[2] = c
    BY <1>3, <1>9
  <2>2. cfg' = [cfg EXCEPT !.paths[Len(cfg.paths)].segments[c] = Put(doc[at], @, SegmentKeys)]
    BY <1>1, <2>1
  <2> QED
    BY <1>3, <2>2 DEF LastItem, Item
<1>12. ItemAt(doc, top, i, at).segments = list /\ Len(list) = c
  <2>1. ItemAt(doc, top, i, at).segments = list
    BY <1>8, <1>10
  <2>2. \A e : Len([Item.segments EXCEPT ![c] = e]) = Len(Item.segments)
    BY <1>7, <1>8, EntryReplaced
  <2> QED
    BY <2>1, <2>2
<1>13. context' = ContextAt(doc, at)
  <2>1. ~ Opens(doc, at)
    <3>1. Opens(doc, at) => InItem(doc, at)
      BY <1>2, <1>3, OpenerSays DEF InSegment
    <3> QED
      BY <1>3, <3>1 DEF InSegment, InItem
  <2> QED
    BY <1>1, <1>3, <1>5, <2>1, SameContext
<1> HIDE DEF c, list
<1>14. /\ cfg' = LastItem(ItemAt(doc, top, i, at))
       /\ segment' = <<Len(cfg[top]), Len(ItemAt(doc, top, i, at).segments)>>
  BY <1>1, <1>9, <1>10, <1>11, <1>12
<1> QED
  BY <1>1, <1>3, <1>4, <1>13, <1>14, DeepGoesOn

(* The reader opens a block where the file does.                            *)
LEMMA OpenersAreSeen ==
  ASSUME AtLine, InSection("field"), ~ IsSegmentField
  PROVE  OpensBlock <=> Opens(doc, at)
<1>1. /\ IsFile(doc) /\ at \in 1..Len(doc) /\ ScalarsFirst(doc)
  BY ReadingSays
<1>2. /\ doc[at].kind = "field" /\ doc[at].indent > 2
      /\ top = SectionOf(doc, at) /\ top \in Sections /\ HasItem
  BY FieldLineSays
<1>3. ASSUME OpensBlock PROVE Opens(doc, at)
  BY <1>2, <1>3 DEF OpensBlock, Opens, Blocks, Line
<1>4. ASSUME Opens(doc, at) PROVE OpensBlock
  <2>1. doc[at].key \in Blocks(top)
    BY <1>2, <1>4 DEF Opens
  <2>2. CASE top = "paths"
    BY <1>2, <2>1, <2>2 DEF OpensBlock, Blocks, Line
  <2>3. CASE top = "intents"
    <3>1. CASE doc[at].key \in IntentBlocks
      BY <2>3, <3>1 DEF OpensBlock, Line
    <3>2. CASE doc[at].key \notin IntentBlocks
      <4>1. doc[at].key \in {"forbidden_waypoints", "required_waypoints"}
        BY <2>1, <2>3, <3>2 DEF Blocks
      <4>2. Block(doc, at) = "constraints"
        BY <1>1, <1>4, <4>1, OpenerSays DEF Home
      <4>3. ContextAt(doc, at - 1) = Block(doc, at)
        BY <1>1, <1>2, <2>3, <3>2, ContextOfField
      <4>4. PICK i : DeepAt(i)
        BY FieldLineSays
      <4>5. context = "constraints"
        BY <4>2, <4>3, <4>4 DEF DeepAt
      <4> QED
        BY <2>3, <4>1, <4>5 DEF OpensBlock, Line
    <3> QED
      BY <3>1, <3>2
  <2>4. top \in {"paths", "intents"}
    BY <2>1 DEF Blocks
  <2> QED
    BY <2>2, <2>3, <2>4
<1> QED
  BY <1>3, <1>4

LEMMA UnchangedItem ==
  ASSUME LoaderInv, HasItem
  PROVE  LastItem(Item) = cfg
<1>1. /\ top \in Sections /\ Len(cfg[top]) \in DOMAIN cfg[top]
  BY ItemIsThere
<1>2. cfg = [s \in Sections |-> cfg[s]] /\ IsList(cfg[top])
  BY <1>1 DEF LoaderInv, Configured, AreItems
<1> DEFINE c == Len(cfg[top])
           list == [cfg[top] EXCEPT ![c] = cfg[top][c]]
<1>3. list = cfg[top]
  <2>1. IsList(list) /\ DOMAIN list = DOMAIN cfg[top]
    <3>1. \A e : IsList([cfg[top] EXCEPT ![c] = e])
                 /\ DOMAIN [cfg[top] EXCEPT ![c] = e] = DOMAIN cfg[top]
      BY <1>1, <1>2, EntryReplaced
    <3> QED
      BY <3>1
  <2>2. \A x \in DOMAIN list : list[x] = cfg[top][x]
    OBVIOUS
  <2> HIDE DEF list
  <2> QED
    BY <1>2, <2>1, <2>2, SameEntries
<1>4. LastItem(Item) = [cfg EXCEPT ![top] = list]
  BY DEF LastItem, Item
<1> HIDE DEF list
<1> QED
  BY <1>1, <1>2, <1>3, <1>4

LEMMA OpenBlockReads ==
  ASSUME AtLine, OpenBlock
  PROVE  ReadInv'
<1>1. /\ InSection("field") /\ ~ IsSegmentField /\ OpensBlock /\ Consume
      /\ context' = doc[at].key /\ top' = top /\ current' = current /\ segment' = segment
      /\ cfg' = cfg
  BY DEF OpenBlock, Line
<1>2. /\ IsFile(doc) /\ at \in 1..Len(doc) /\ at \in Nat \ {0}
  BY ReadingSays
<1>3. /\ doc[at].indent > 2 /\ top = SectionOf(doc, at) /\ HasItem /\ Opens(doc, at)
  BY <1>1, FieldLineSays, OpenersAreSeen
<1>4. PICK i : DeepAt(i)
  BY <1>1, FieldLineSays
<1>5. i \in 1..(at - 1) /\ IsItemOf(doc, i, at) /\ Item = ItemAt(doc, top, i, at - 1)
  BY <1>4 DEF DeepAt
<1>6. ItemAt(doc, top, i, at) = Item
  BY <1>2, <1>3, <1>5, OpenerAddsNothing
<1>7. cfg' = LastItem(ItemAt(doc, top, i, at))
  BY <1>1, <1>3, <1>6, UnchangedItem DEF AtLine
<1>8. context' = ContextAt(doc, at)
  <2>1. SetsContext(doc, at)
    BY <1>3 DEF SetsContext
  <2>2. ContextAt(doc, at) = ContextOf(doc, at)
    BY <1>2, <2>1, ContextGoesOn
  <2> QED
    BY <1>1, <1>3, <2>2 DEF ContextOf
<1> QED
  BY <1>1, <1>3, <1>4, <1>6, <1>7, <1>8, QuietGoesOn

(* A field is stored as the keys of its block say.                          *)
LEMMA FieldKeys ==
  ASSUME AtLine, IsItemField
  PROVE  /\ InSection("field") /\ ~ Opens(doc, at) /\ ~ InSegment(doc, at)
         /\ Keys = KeysOf(top, Block(doc, at))
         /\ KeysIn(top, Block(doc, at)) = Keys
<1>1. /\ InSection("field") /\ ~ IsSegmentField /\ ~ OpensBlock
  BY DEF IsItemField
<1>2. ~ Opens(doc, at) /\ ~ InSegment(doc, at)
  BY <1>1, OpenersAreSeen, SegmentFieldsAreSeen
<1>3. /\ doc[at].kind = "field" /\ doc[at].indent > 2
      /\ top = SectionOf(doc, at) /\ top \in Sections
  BY <1>1, FieldLineSays
<1>4. /\ IsFile(doc) /\ at \in 1..Len(doc) /\ ScalarsFirst(doc)
  BY ReadingSays
<1>5. KeysOf(top, context) = KeysOf(top, Block(doc, at))
  <2>1. CASE top = "intents"
    <3>1. doc[at].key \notin IntentBlocks
      BY <1>2, <1>3, <2>1 DEF Opens, Blocks
    <3>2. ContextAt(doc, at - 1) = Block(doc, at)
      BY <1>3, <1>4, <2>1, <3>1, ContextOfField
    <3>3. PICK i : DeepAt(i)
      BY <1>1, FieldLineSays
    <3> QED
      BY <3>2, <3>3 DEF DeepAt
  <2>2. CASE top # "intents"
    BY <1>3, <2>2 DEF KeysOf, Sections
  <2> QED
    BY <2>1, <2>2
<1>6. KeysIn(top, Block(doc, at)) = KeysOf(top, Block(doc, at))
  BY <1>2, <1>3, <1>4, FieldBlock
<1> QED
  BY <1>1, <1>2, <1>5, <1>6 DEF Keys

LEMMA FieldReads ==
  ASSUME AtLine, Field
  PROVE  ReadInv'
<1>1. /\ IsItemField /\ HasItem /\ Consume /\ cfg' = LastItem(Stored(Item, Keys))
      /\ top' = top /\ context' = context /\ current' = current /\ segment' = segment
  BY DEF Field, position
<1>2. /\ InSection("field") /\ ~ Opens(doc, at) /\ ~ InSegment(doc, at)
      /\ Keys = KeysOf(top, Block(doc, at))
  BY <1>1, FieldKeys
<1>3. /\ doc[at].kind = "field" /\ doc[at].indent > 2
      /\ top = SectionOf(doc, at) /\ top \in Sections
  BY <1>2, FieldLineSays
<1>4. /\ IsFile(doc) /\ at \in 1..Len(doc)
  BY ReadingSays
<1>5. PICK i : DeepAt(i)
  BY <1>2, FieldLineSays
<1>6. /\ i \in 1..(at - 1) /\ IsItemOf(doc, i, at) /\ Item = ItemAt(doc, top, i, at - 1)
      /\ context = ContextAt(doc, at - 1)
  BY <1>5 DEF DeepAt
<1>7. ItemAt(doc, top, i, at) = Stored(Item, Keys)
  <2>1. \A t : t = SectionOf(doc, at) =>
          ItemAt(doc, t, i, at) = Put(doc[at], ItemAt(doc, t, i, at - 1), KeysOf(t, Block(doc, at)))
    BY <1>2, <1>3, <1>4, <1>6, FieldSays
  <2> QED
    BY <1>2, <1>3, <1>6, <2>1, StoredIsPut
<1>8. ASSUME top = "paths" PROVE ItemAt(doc, top, i, at).segments = Item.segments
  <2>1. IsItem(top, Item) /\ DOMAIN Item = DOMAIN Default[top]
    BY <1>1, ItemIsThere DEF AtLine
  <2>2. \A l \in Lists \cap DOMAIN Item : Stored(Item, KeysOf(top, context))[l] = Item[l]
    BY <1>3, <2>1, StoredKeeps
  <2>3. "segments" \in Lists \cap DOMAIN Item
    BY <1>8, <2>1, SegmentsIsList
  <2> QED
    BY <1>7, <2>2, <2>3 DEF Keys
<1>9. cfg' = LastItem(ItemAt(doc, top, i, at)) /\ context' = ContextAt(doc, at)
  BY <1>1, <1>2, <1>3, <1>6, <1>7, SameContext
<1> QED
  BY <1>1, <1>3, <1>5, <1>8, <1>9, QuietGoesOn

(* The spellings a conversion refuses stand in an intent only.              *)
LEMMA RefusedKeys ==
  ASSUME NEW s \in Sections, NEW block, NEW key \in DOMAIN KeysOf(s, block), NEW v,
         Refused(KeysOf(s, block)[key], v)
  PROVE  s = "intents" /\ KeysOf(s, block)[key] \in {"mode", "strategy"}
<1>1. KeysOf(s, block)[key] \in {"mode", "strategy"}
  BY KeysSpareLists DEF Refused, Lists, PlainLists
<1>2. CASE s = "tunnels"
  BY <1>1, <1>2 DEF KeysOf, TunnelKeys
<1>3. CASE s = "vpp_edges"
  BY <1>1, <1>3 DEF KeysOf, EdgeKeys
<1>4. CASE s = "paths"
  BY <1>1, <1>4 DEF KeysOf, PathKeys
<1> QED
  BY <1>1, <1>2, <1>3, <1>4 DEF Sections

LEMMA FieldIsKnown ==
  ASSUME AtLine, IsItemField, Line.key \in DOMAIN Keys
  PROVE  ~ Refused(Keys[Line.key], Line.value)
<1>1. /\ InSection("field") /\ Keys = KeysOf(top, Block(doc, at))
      /\ KeysIn(top, Block(doc, at)) = Keys
  BY FieldKeys
<1>2. /\ doc[at].indent > 2 /\ top = SectionOf(doc, at) /\ top \in Sections
  BY <1>1, FieldLineSays
<1>3. at \in 1..Len(doc) /\ Known(doc) /\ doc[at].indent \in Nat
  BY ReadingSays
<1> SUFFICES ASSUME Refused(Keys[Line.key], Line.value) PROVE FALSE
  OBVIOUS
<1>4. top = "intents" /\ Keys[Line.key] \in {"mode", "strategy"}
  BY <1>1, <1>2, RefusedKeys
<1>5. Says(doc, "intents", at, Keys[Line.key])
  BY <1>1, <1>4 DEF Says, Line
<1>6. doc[at].indent > 0 /\ at \in Lines(doc)
  BY <1>2, <1>3 DEF Lines
<1>7. ~ Refused(Keys[Line.key], doc[at].value)
  BY <1>2, <1>3, <1>4, <1>5, <1>6 DEF Known
<1> QED
  BY <1>7 DEF Line

(* What an orderly file never comes to.                                     *)
LEMMA NeverOrphan == AtLine => ~ Orphan
<1> SUFFICES ASSUME AtLine, Orphan PROVE FALSE
  OBVIOUS
<1>1. ~ IsHeader /\ top = "none"
  BY DEF Orphan
<1>2. /\ IsFile(doc) /\ at \in 1..Len(doc) /\ doc[at].indent \in Nat
  BY ReadingSays
<1>3. CASE doc[at].indent = 0
  BY <1>1, <1>2, <1>3, Levels DEF IsHeader, Line
<1>4. CASE doc[at].indent > 0
  BY <1>1, <1>4, LineSays DEF Sections
<1> QED
  BY <1>2, <1>3, <1>4

LEMMA NeverMisplaced == AtLine => ~ Misplaced
<1> SUFFICES ASSUME AtLine, Misplaced PROVE FALSE
  OBVIOUS
<1>1. CASE InSection("item") /\ Line.indent # 2 /\ context \notin PlainLists \cup {"segments"}
  BY <1>1, ItemLineSays DEF ListKeys
<1>2. CASE InSection("text")
  <2>1. /\ IsFile(doc) /\ at \in 1..Len(doc) /\ doc[at].indent \in Nat /\ doc[at].kind = "text"
    BY <1>2, ReadingSays DEF InSection, Line
  <2>2. doc[at].indent = 0 \/ doc[at].indent = 2 \/ doc[at].indent >= 4
    BY <2>1, Levels
  <2>3. doc[at].indent # 0 /\ doc[at].indent # 2
    BY <2>1, Levels DEF IsItemLine
  <2>4. doc[at].indent > 2
    BY <2>1, <2>2, <2>3
  <2>5. doc[at].kind \in {"item", "field"}
    BY <2>1, <2>4, DeepSays DEF InItem, InBlock, InSegment
  <2> QED
    BY <2>1, <2>5
<1> QED
  BY <1>1, <1>2 DEF Misplaced

LEMMA NeverWithoutItem == AtLine => ~ EntryWithoutItem /\ ~ FieldWithoutItem /\ ~ FieldRefused
<1>1. ASSUME AtLine, EntryWithoutItem PROVE FALSE
  BY <1>1, EntryLineSays DEF EntryWithoutItem
<1>2. ASSUME AtLine, FieldWithoutItem PROVE FALSE
  BY <1>2, FieldLineSays DEF FieldWithoutItem, IsItemField
<1>3. ASSUME AtLine, FieldRefused PROVE FALSE
  BY <1>3, FieldIsKnown DEF FieldRefused
<1> QED
  BY <1>1, <1>2, <1>3

------------------------------------------------------------------------------
(* Every line, and the whole file.                                          *)

LEMMA NothingSaid ==
  ASSUME NEW d
  PROVE  Said(d, 0) = [s \in Sections |-> <<>>]
<1>1. ASSUME NEW s \in Sections PROVE Said(d, 0)[s] = <<>>
  <2>1. ItemLines(d, s, 0) = {}
    BY DEF ItemLines
  <2>2. SectionRead(d, s, 0)
    BY SectionIsRead
  <2>3. IsList(Said(d, 0)[s]) /\ Len(Said(d, 0)[s]) = 0
    BY <2>1, <2>2, FS_EmptySet DEF SectionRead
  <2> QED
    BY <2>3 DEF IsList
<1>2. Said(d, 0) = [s \in Sections |-> Said(d, 0)[s]]
  BY SaidIs
<1> QED
  BY <1>1, <1>2

LEMMA ReadStarts == Init => ReadInv
<1> SUFFICES ASSUME Init PROVE ReadInv
  OBVIOUS
<1>1. result = "loading" /\ at = 0 /\ top = "none" /\ cfg = [s \in Sections |-> <<>>]
  BY DEF Init
<1>2. HeldNow
  BY <1>1, NothingSaid DEF HeldNow, Held, LinesRead
<1> QED
  BY <1>1, <1>2 DEF ReadInv

LEMMA EndOfFileReads ==
  ASSUME LoaderInv, ReadInv, Orderly(doc), EndOfFile
  PROVE  ReadInv'
<1>1. /\ at = Len(doc) + 1 /\ result = "loading" /\ doc' = doc /\ at' = at
      /\ cfg' = Normalize(cfg) /\ result' = Validate(cfg')
  BY DEF EndOfFile
<1>2. Len(doc) \in Nat
  BY LoaderAssumption DEF LoaderInv, CursorInv
<1>3. LinesRead = Len(doc)
  BY <1>1, <1>2 DEF LinesRead
<1>4. cfg = Document(doc)
  BY <1>1, <1>3 DEF ReadInv, HeldNow, Held, Document
<1>5. Fits(cfg)
  BY ConfiguredFits DEF LoaderInv
<1>6. result' # "loading"
  <2>1. Configured(cfg')
    BY <1>1, Normalized DEF LoaderInv
  <2> QED
    BY <1>1, <2>1, ValidateSays DEF Verdicts
<1>7. at' \notin Lines(doc')
  BY <1>1, <1>2 DEF Lines
<1> QED
  BY <1>1, <1>4, <1>5, <1>6, <1>7 DEF ReadInv

LEMMA OpenReads ==
  ASSUME LoaderInv, ReadInv, Orderly(doc), Open \/ OpenFails
  PROVE  ReadInv'
<1>1. /\ at = 0 /\ result = "loading" /\ doc' = doc /\ cfg' = cfg /\ Len(doc) \in Nat
      /\ top' = top /\ context' = context /\ current' = current /\ segment' = segment
  BY LoaderAssumption DEF Open, OpenFails, Reject, position, LoaderInv, CursorInv
<1>2. CASE Open
  <2>1. at' = 1 /\ result' = "loading"
    BY <1>1, <1>2 DEF Open
  <2>2. HeldNow
    BY <1>1 DEF ReadInv
  <2>3. LinesRead = 0 /\ LinesRead' = 0
    BY <1>1, <2>1 DEF LinesRead
  <2>4. HeldNow'
    BY <1>1, <2>2, <2>3 DEF HeldNow
  <2> QED
    BY <2>1, <2>4 DEF ReadInv
<1>3. CASE OpenFails
  <2>1. at' = 0 /\ result' = "not_found"
    BY <1>1, <1>3 DEF OpenFails, Reject
  <2>2. at' \notin Lines(doc') /\ at' # Len(doc') + 1
    BY <1>1, <2>1 DEF Lines
  <2> QED
    BY <2>1, <2>2 DEF ReadInv
<1> QED
  BY <1>2, <1>3

LEMMA EveryLineReads ==
  ASSUME AtLine,
         \/ Header \/ Orphan \/ NewItem \/ TooManyItems
         \/ AddEntry \/ EntryRefused \/ EntryWithoutItem \/ AddSegment \/ TooManySegments
         \/ Misplaced \/ SegmentField \/ OpenBlock \/ Field \/ FieldRefused \/ FieldWithoutItem
  PROVE  ReadInv'
BY HeaderReads, NewItemReads, TooManyItemsReads, AddEntryReads, EntryRefusedReads,
   AddSegmentReads, TooManySegmentsReads, SegmentFieldReads, OpenBlockReads, FieldReads,
   NeverOrphan, NeverMisplaced, NeverWithoutItem

LEMMA ReadMoves == LoaderInv /\ ReadInv /\ [Next]_vars => ReadInv'
<1> SUFFICES ASSUME LoaderInv, ReadInv, [Next]_vars PROVE ReadInv'
  OBVIOUS
<1>1. CASE UNCHANGED vars
  <2>1. /\ doc' = doc /\ at' = at /\ top' = top /\ context' = context /\ current' = current
        /\ segment' = segment /\ cfg' = cfg /\ result' = result
    BY <1>1 DEF vars
  <2> QED
    BY <2>1 DEF ReadInv, HeldNow, LinesRead
<1>2. CASE Next
  <2>1. doc' = doc
    BY <1>2 DEF Next, Open, OpenFails, Header, Orphan, NewItem, TooManyItems, AddEntry,
         EntryRefused, EntryWithoutItem, AddSegment, TooManySegments, Misplaced, SegmentField,
         OpenBlock, Field, FieldRefused, FieldWithoutItem, EndOfFile, Consume, Reject
  <2>2. CASE ~ Orderly(doc)
    BY <2>1, <2>2 DEF ReadInv
  <2>3. CASE Orderly(doc)
    <3>1. CASE Open \/ OpenFails
      BY <2>3, <3>1, OpenReads
    <3>2. CASE EndOfFile
      BY <2>3, <3>2, EndOfFileReads
    <3>3. CASE \/ Header \/ Orphan \/ NewItem \/ TooManyItems
               \/ AddEntry \/ EntryRefused \/ EntryWithoutItem \/ AddSegment \/ TooManySegments
               \/ Misplaced \/ SegmentField \/ OpenBlock \/ Field \/ FieldRefused \/ FieldWithoutItem
      <4>1. Reading
        BY <3>3 DEF Header, Orphan, NewItem, TooManyItems, AddEntry,
             EntryRefused, EntryWithoutItem, AddSegment, TooManySegments, Misplaced, SegmentField,
             OpenBlock, Field, FieldRefused, FieldWithoutItem, IsItemField, InList, InSection
      <4>2. AtLine
        BY <2>3, <4>1 DEF AtLine
      <4> QED
        BY <3>3, <4>2, EveryLineReads
    <3> QED
      BY <1>2, <3>1, <3>2, <3>3 DEF Next
  <2> QED
    BY <2>2, <2>3
<1> QED
  BY <1>1, <1>2

LEMMA ReadAlways == Spec => [](LoaderInv /\ ReadInv)
<1>1. Init => LoaderInv /\ ReadInv
  BY LoaderStarts, ReadStarts
<1>2. LoaderInv /\ ReadInv /\ [Next]_vars => (LoaderInv /\ ReadInv)'
  BY LoaderMoves, ReadMoves
<1> QED
  BY <1>1, <1>2, PTL DEF Spec

LEMMA ReadToTheEnd ==
  ASSUME LoaderInv, ReadInv, Readable, ScalarsFirst(doc)
  PROVE  \/ result # "none" /\ ~ Fits(Document(doc))
         \/ /\ cfg = Normalize(Document(doc)) /\ Fits(Document(doc))
            /\ result = Validate(cfg)
<1>1. Orderly(doc) /\ at > 0 /\ result # "loading"
  BY DEF Readable, Finished, Orderly
<1>2. at \in 0..(Len(doc) + 1) /\ Len(doc) \in Nat
  BY LoaderAssumption DEF LoaderInv, CursorInv
<1>3. at \in Lines(doc) \/ at = Len(doc) + 1
  BY <1>1, <1>2 DEF Lines
<1> QED
  BY <1>1, <1>3 DEF ReadInv

(* A file written in the order of the samples that loads without an error   *)
(* is held as it is written: what the one pass of parse_document stored     *)
(* under its running item, context and segment is what the indentation of   *)
(* the file says, item by item, field by field and entry by entry, and      *)
(* normalize_config alone adds to it.                                       *)
THEOREM FilesAreLoadedAsWritten == Spec => []LoadedAsWritten
<1>1. LoaderInv /\ ReadInv => LoadedAsWritten
  BY ReadToTheEnd DEF LoadedAsWritten
<1> QED
  BY <1>1, ReadAlways, PTL

LEMMA DistinctSays ==
  ASSUME NEW list, IsList(list), NEW f, Distinct(list, f)
  PROVE  \A i \in DOMAIN list : ~ Repeated(list, i, f)
<1> DEFINE S == 1..Len(list)
           g == [x \in S |-> list[x][f]]
<1>1. Len(list) \in Nat /\ DOMAIN list = S
  BY DEF IsList
<1>2. IsFiniteSet(S) /\ Cardinality(S) = Len(list)
  <2>1. \A n \in Nat : IsFiniteSet(1..n) /\ Cardinality(1..n) = n
    BY FS_Interval
  <2> QED
    BY <1>1, <2>1
<1>3. g \in Surjection(S, Ids(list, f))
  <2>1. Ids(list, f) = {list[x][f] : x \in S}
    BY <1>1 DEF Ids
  <2>2. g \in [S -> Ids(list, f)]
    BY <2>1
  <2>3. \A y \in Ids(list, f) : \E x \in S : g[x] = y
    BY <2>1
  <2> HIDE DEF g, S
  <2> QED
    BY <2>2, <2>3 DEF Surjection
<1>4. Cardinality(Ids(list, f)) = Cardinality(S)
  BY <1>2 DEF Distinct
<1>5. g \in Injection(S, Ids(list, f))
  <2> HIDE DEF S, g
  <2> QED
    BY <1>2, <1>3, <1>4, FS_Surjection
<1>6. \A x, y \in S : list[x][f] = list[y][f] => x = y
  <2>1. \A x, y \in S : g[x] = g[y] => x = y
    BY <1>5 DEF Injection, IsInjective
  <2> QED
    BY <2>1
<1>7. ASSUME NEW i \in S, NEW j \in (i + 1)..Len(list) PROVE list[j][f] # list[i][f]
  <2>1. j \in S /\ j # i
    BY <1>1
  <2> QED
    BY <1>6, <2>1
<1> QED
  BY <1>1, <1>7 DEF Repeated

LEMMA SoundIsPassed ==
  ASSUME NEW c, Configured(c), Sound(c)
  PROVE  Passed(c)
<1>1. \A s \in Sections : \A i \in DOMAIN c[s] :
        ~ Unnamed(c[s][i], Required[s]) /\ ~ Repeated(c[s], i, IdOf[s])
  <2> SUFFICES ASSUME NEW s \in Sections, NEW i \in DOMAIN c[s]
               PROVE  ~ Unnamed(c[s][i], Required[s]) /\ ~ Repeated(c[s], i, IdOf[s])
    OBVIOUS
  <2>1. Distinct(c[s], IdOf[s]) /\ IsList(c[s])
    BY DEF Sound, Configured, AreItems
  <2>2. \A f \in Required[s] : "" \notin Ids(c[s], f)
    BY DEF Sound
  <2>3. ~ Unnamed(c[s][i], Required[s])
    BY <2>2 DEF Unnamed, Ids
  <2> QED
    BY <2>1, <2>3, DistinctSays
<1>2. ASSUME NEW i \in DOMAIN c.tunnels PROVE TunnelVerdict(c, i) = "none"
  <2>1. /\ ~ Unnamed(c.tunnels[i], {"tunnel_id", "local_node", "remote_node"})
        /\ ~ Repeated(c.tunnels, i, "tunnel_id")
    BY <1>1 DEF Sections, Required, IdOf
  <2> QED
    BY <2>1 DEF TunnelVerdict, Judge
<1>3. ASSUME NEW i \in DOMAIN c.vpp_edges PROVE EdgeVerdict(c, i) = "none"
  <2>1. /\ ~ Unnamed(c.vpp_edges[i], {"node_id", "vpp_interface", "next_hop"})
        /\ ~ Repeated(c.vpp_edges, i, "node_id")
    BY <1>1 DEF Sections, Required, IdOf
  <2> QED
    BY <2>1 DEF EdgeVerdict, Judge
<1>4. ASSUME NEW i \in DOMAIN c.paths PROVE PathVerdict(c, i) = "none"
  <2> DEFINE p == c.paths[i]
  <2>1. /\ ~ Unnamed(p, {"path_id", "source", "destination"})
        /\ ~ Repeated(c.paths, i, "path_id")
    BY <1>1 DEF Sections, Required, IdOf
  <2>2. /\ p.segments # <<>>
        /\ Ids(p.segments, "tunnel_id") \cup {p.egress} \subseteq Ids(c.tunnels, "tunnel_id")
    BY DEF Sound
  <2>3. p.egress \in Ids(c.tunnels, "tunnel_id")
    BY <2>2
  <2>4. \A j \in DOMAIN p.segments : p.segments[j].tunnel_id \in Ids(c.tunnels, "tunnel_id")
    BY <2>2 DEF Ids
  <2> QED
    BY <2>1, <2>2, <2>3, <2>4 DEF PathVerdict, Judge, HasTunnel
<1>5. ASSUME NEW i \in DOMAIN c.intents PROVE IntentVerdict(c, i) = "none"
  <2> DEFINE n == c.intents[i]
  <2>1. /\ n.intent_id # "" /\ ~ Repeated(c.intents, i, "intent_id")
    BY <1>1 DEF Sections, Required, IdOf, Unnamed
  <2>2. ToSet(n.candidates) \cup (IF n.mode = "explicit" THEN {n.selected} ELSE {})
          \subseteq Ids(c.paths, "path_id")
    BY DEF Sound
  <2>3. \A j \in DOMAIN n.candidates : n.candidates[j] \in Ids(c.paths, "path_id")
    BY <2>2 DEF ToSet
  <2>4. n.mode = "explicit" => n.selected \in Ids(c.paths, "path_id")
    BY <2>2
  <2> QED
    BY <2>1, <2>3, <2>4 DEF IntentVerdict, Judge, HasPath
<1>6. c.paths # <<>>
  BY DEF Sound
<1> QED
  BY <1>2, <1>3, <1>4, <1>5, <1>6 DEF Passed

(* Such a file is accepted exactly when it fits the arrays of en_config_t   *)
(* and validate finds its identifiers apart and its references resolved:    *)
(* parse_document refuses no line of it for its place, its key or its       *)
(* value, stops only where an array of the file itself is too long, and     *)
(* never writes through a missing item.                                     *)
THEOREM SoundFilesAreAccepted == Spec => []AcceptedIffSound
<1>1. ASSUME LoaderInv, ReadInv, AcceptedInv PROVE AcceptedIffSound
  <2> SUFFICES ASSUME Readable, ScalarsFirst(doc)
               PROVE  result = "none" <=> Fits(Document(doc)) /\ Sound(Normalize(Document(doc)))
    BY DEF AcceptedIffSound
  <2>1. CASE result # "none" /\ ~ Fits(Document(doc))
    BY <2>1
  <2>2. CASE /\ cfg = Normalize(Document(doc)) /\ Fits(Document(doc))
             /\ result = Validate(cfg)
    <3>1. Configured(cfg)
      BY <1>1 DEF LoaderInv
    <3>2. result = "none" => Sound(cfg)
      BY <1>1, <3>1, PassedIsSound DEF AcceptedInv
    <3>3. Sound(cfg) => result = "none"
      BY <2>2, <3>1, SoundIsPassed, ValidateSays
    <3> QED
      BY <2>2, <3>2, <3>3
  <2> QED
    BY <1>1, <2>1, <2>2, ReadToTheEnd
<1> QED
  BY <1>1, ReadAlways, AcceptedAlways, PTL

==============================================================================
