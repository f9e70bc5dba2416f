---------------------------- MODULE Heap_proofs -----------------------------
(***************************************************************************)
(* Proofs about Heap for any regions and requests.                         *)
(***************************************************************************)
EXTENDS Heap, Extrema

-----------------------------------------------------------------------------
(* Lists of chunks and tables of blocks: functions from the units where    *)
(* they begin to their sizes.                                              *)

Ordered(f) ==
    /\ DOMAIN f \in SUBSET Nat /\ \A x \in DOMAIN f : f[x] \in Nat
    /\ \A x, y \in DOMAIN f : x < y => x + f[x] <= y

(* A unit is in one chunk at most. *)
LEMMA InChunk ==
    ASSUME NEW f, Ordered(f), NEW u
    PROVE  u \in Covered(f) <=> \E x \in DOMAIN f : u \in Nat /\ x <= u /\ u < x + f[x]
BY DEF Ordered, Covered

-----------------------------------------------------------------------------
(* The sum of the sizes of an ordered list is the number of units that it  *)
(* covers: the recursion of MapThenSumSet has one solution, the one that   *)
(* counts units.                                                           *)
Part(f, s) == UNION {x .. x + f[x] - 1 : x \in s}
Pick(s) == CHOOSE x \in s : TRUE
Adds(f, g) ==
    g = [s \in SUBSET DOMAIN f |-> IF s = {} THEN 0 ELSE f[Pick(s)] + g[s \ {Pick(s)}]]

(* The sum of MapThenSumSet, by the recursion that defines it. *)
LEMMA SizesIs ==
    ASSUME NEW f PROVE Sizes(f) = (CHOOSE g : Adds(f, g))[DOMAIN f]
BY DEF Sizes, MapThenSumSet, MapThenFoldSet, Adds, Pick

(* A chunk more covers its units more. *)
LEMMA PartGrows ==
    ASSUME NEW f, Ordered(f), NEW n \in Nat, \A x \in DOMAIN f : x + f[x] <= n,
           NEW s \in SUBSET DOMAIN f, NEW p \in s
    PROVE  /\ IsFiniteSet(Part(f, s))
           /\ Cardinality(Part(f, s)) = f[p] + Cardinality(Part(f, s \ {p}))
<1>1. p \in Nat /\ f[p] \in Nat
  BY DEF Ordered
<1>2. /\ IsFiniteSet(p .. p + f[p] - 1)
      /\ Cardinality(p .. p + f[p] - 1) = f[p]
  <2>1. PICK b \in Int : b = p + f[p] - 1
    BY <1>1
  <2>2. IsFiniteSet(p .. b) /\ Cardinality(p .. b) = IF p > b THEN 0 ELSE b - p + 1
    <3>1. p \in Int
      BY <1>1
    <3> QED
      BY <3>1, FS_Interval, Zenon
  <2> QED
    BY <1>1, <2>1, <2>2
<1>3. ASSUME NEW t \in SUBSET DOMAIN f PROVE IsFiniteSet(Part(f, t))
  <2>1. Part(f, t) \in SUBSET Nat /\ \A u \in Part(f, t) : u <= n
    BY DEF Ordered, Part
  <2> QED
    BY <2>1, FS_BoundedSetOfNaturals
<1>4. Part(f, s) = (p .. p + f[p] - 1) \cup Part(f, s \ {p})
  BY DEF Part
<1>5. (p .. p + f[p] - 1) \cap Part(f, s \ {p}) = {}
  <2> SUFFICES ASSUME NEW x \in s \ {p}, NEW u, u \in p .. p + f[p] - 1, u \in x .. x + f[x] - 1
               PROVE  FALSE
    BY DEF Part
  <2>1. x \in Nat /\ f[x] \in Nat /\ (x < p => x + f[x] <= p) /\ (p < x => p + f[p] <= x)
    BY DEF Ordered
  <2> QED
    BY <1>1, <2>1
<1>6. Cardinality(Part(f, s)) = f[p] + Cardinality(Part(f, s \ {p})) - Cardinality({})
  <2> DEFINE X == p .. p + f[p] - 1
             Y == Part(f, s \ {p})
  <2>1. IsFiniteSet(X) /\ IsFiniteSet(Y) /\ X \cap Y = {} /\ Part(f, s) = X \cup Y
        /\ Cardinality(X) = f[p]
    BY <1>2, <1>3, <1>4, <1>5
  <2> HIDE DEF X, Y
  <2>2. Cardinality(X \cup Y) = Cardinality(X) + Cardinality(Y) - Cardinality(X \cap Y)
    BY <2>1, FS_Union, Zenon
  <2> QED
    BY <2>1, <2>2 DEF Y
<1>7. Cardinality(Part(f, s \ {p})) \in Nat
  BY <1>3, FS_CardinalityType
<1> QED
  BY <1>1, <1>3, <1>6, <1>7, FS_EmptySet

(* The sum of the sizes of an ordered list that ends is the number of the  *)
(* units that it covers.                                                   *)
LEMMA SizesAreUnits ==
    ASSUME NEW f, Ordered(f), NEW n \in Nat, \A x \in DOMAIN f : x + f[x] <= n
    PROVE  Sizes(f) = Cardinality(Covered(f))
<1> DEFINE h == [s \in SUBSET DOMAIN f |-> Cardinality(Part(f, s))]
           g == CHOOSE k : Adds(f, k)
           Differs == {s \in SUBSET DOMAIN f : g[s] # h[s]}
           Counts == {Cardinality(s) : s \in Differs}
<1>1. ASSUME NEW s \in SUBSET DOMAIN f, s # {} PROVE Pick(s) \in s
  BY <1>1, Zenon DEF Pick
<1>2. h[{}] = 0
  <2>1. Part(f, {}) = {}
    BY DEF Part
  <2> QED
    BY <2>1, FS_EmptySet
<1>3. ASSUME NEW s \in SUBSET DOMAIN f, s # {} PROVE h[s] = f[Pick(s)] + h[s \ {Pick(s)}]
  <2>1. Pick(s) \in s
    BY <1>1, <1>3
  <2> QED
    BY <2>1, PartGrows
<1>4. Adds(f, h)
  <2> HIDE DEF h
  <2>1. h = [s \in SUBSET DOMAIN f |-> h[s]]
    BY DEF h
  <2>2. \A s \in SUBSET DOMAIN f : h[s] = IF s = {} THEN 0 ELSE f[Pick(s)] + h[s \ {Pick(s)}]
    BY <1>2, <1>3
  <2> QED
    BY <2>1, <2>2, Zenon DEF Adds
<1> HIDE DEF h
<1>5. Adds(f, g)
  BY <1>4, Zenon
<1> HIDE DEF g
<1>6. Differs = {}
  <2> SUFFICES ASSUME Differs # {} PROVE FALSE
    OBVIOUS
  <2>1. ASSUME NEW s \in SUBSET DOMAIN f PROVE IsFiniteSet(s) /\ Cardinality(s) \in Nat
    <3>1. s \in SUBSET Nat /\ \A u \in s : u <= n
      BY DEF Ordered
    <3> QED
      BY <3>1, FS_BoundedSetOfNaturals, FS_CardinalityType
  <2>2. Counts \in SUBSET Nat /\ Counts # {}
    BY <2>1
  <2> HIDE DEF Counts
  <2>3. PICK c \in Counts : \A d \in Counts : c <= d
    BY <2>2, LeastNatural
  <2>4. PICK s \in Differs : c = Cardinality(s)
    BY <2>3 DEF Counts
  <2>5. g[s] = IF s = {} THEN 0 ELSE f[Pick(s)] + g[s \ {Pick(s)}]
    BY <1>5, <2>4 DEF Adds
  <2>6. s # {}
    BY <2>5, <2>4, <1>2
  <2>7. Cardinality(s \ {Pick(s)}) = Cardinality(s) - 1
    BY <2>1, <2>6, <1>1, FS_RemoveElement
  <2>8. s \ {Pick(s)} \notin Differs
    <3>1. Cardinality(s \ {Pick(s)}) \notin Counts
      BY <2>1, <2>3, <2>4, <2>7
    <3> QED
      BY <3>1 DEF Counts
  <2> QED
    BY <2>4, <2>5, <2>6, <2>8, <1>3
<1>7. g[DOMAIN f] = h[DOMAIN f]
  BY <1>6
<1> QED
  BY <1>7, SizesIs, Zenon DEF g, h, Part, Covered

-----------------------------------------------------------------------------
(* prvInsertBlockIntoFreeList and tcm_heap_freemem: what Insert returns.   *)

(* The chunks end before top, where the heap does. *)
Within(f, top) == \A x \in DOMAIN f : x < top /\ x + f[x] <= top

(* Chunks that are not empty do not touch. *)
Apart(f) == \A x, y \in DOMAIN f : x < y /\ f[x] > 0 /\ f[y] > 0 => x + f[x] < y

(* The n units from a are outside every chunk. *)
Outside(f, a, n) ==
    a \notin DOMAIN f /\ \A x \in DOMAIN f : (x < a => x + f[x] <= a) /\ (a < x => a + n <= x)

(* list is f with the n units from a in the chunk at first. *)
Merged(f, a, n, list, first) ==
    /\ \/ first = a /\ \A x \in DOMAIN f : x < a => x + f[x] < a
       \/ first \in DOMAIN f /\ first < a /\ first + f[first] = a
    /\ DOMAIN list = (DOMAIN f \ {a + n}) \cup {first}
    /\ \A x \in DOMAIN f \ {a + n, first} : list[x] = f[x]
    /\ list[first] = (a + n - first) + (IF a + n \in DOMAIN f THEN f[a + n] ELSE 0)

(* The block is merged with the chunk before it and the one after it, when *)
(* they touch it and are not the end.                                      *)
LEMMA InsertMerges ==
    ASSUME NEW f, Ordered(f), NEW top \in Nat, Within(f, top), NEW last \in {top, Null},
           NEW a \in Nat, NEW n \in Nat \ {0}, a + n <= top, Outside(f, a, n)
    PROVE  \E first \in Nat : Merged(f, a, n, Insert(f, last, a, n), first)
<1> DEFINE lower == {x \in DOMAIN f : x < a}
           upper == {x \in DOMAIN f : x > a} \cup ({last} \ {Null})
           joins == lower # {} /\ Max(lower) + f[Max(lower)] = a
           first == IF joins THEN Max(lower) ELSE a
           size  == IF joins THEN f[first] + n ELSE n
           meets == upper # {} /\ first + size = Min(upper) /\ Min(upper) # last
<1>1. Insert(f, last, a, n) =
         IF meets THEN With(Without(f, {Min(upper)}), first, size + f[Min(upper)])
                  ELSE With(f, first, size)
  BY DEF Insert
<1>2. \A x \in DOMAIN f : x \in Nat /\ f[x] \in Nat
  BY DEF Ordered
<1>3. lower # {} => Max(lower) \in lower /\ \A x \in lower : x <= Max(lower)
  <2>1. lower \in SUBSET Nat /\ \A x \in lower : x <= a
    BY <1>2
  <2> HIDE DEF lower
  <2> QED
    BY <2>1, MaxIs
<1>4. upper # {} => Min(upper) \in upper /\ \A x \in upper : Min(upper) <= x
  <2>1. upper \in SUBSET Nat
    BY <1>2
  <2> HIDE DEF upper
  <2> QED
    BY <2>1, MinIs
<1> HIDE DEF lower, upper
<1>5. /\ first \in Nat /\ size \in Nat /\ first + size = a + n
      /\ \/ first = a /\ ~joins
         \/ first \in DOMAIN f /\ first < a /\ first + f[first] = a
  BY <1>2, <1>3 DEF lower
<1>6. ~joins => \A x \in DOMAIN f : x < a => x + f[x] < a
  <2> SUFFICES ASSUME ~joins, NEW x \in DOMAIN f, x < a PROVE x + f[x] < a
    OBVIOUS
  <2>1. x \in lower /\ lower # {}
    BY DEF lower
  <2>2. /\ Max(lower) \in DOMAIN f /\ Max(lower) < a /\ x <= Max(lower)
        /\ Max(lower) + f[Max(lower)] # a
    BY <2>1, <1>3 DEF lower
  <2> HIDE DEF joins
  <2> QED
    BY <2>2, <1>2 DEF Ordered, Outside
<1>7. meets <=> a + n \in DOMAIN f
  <2>1. ASSUME meets PROVE a + n \in DOMAIN f
    BY <2>1, <1>4, <1>5 DEF upper
  <2>2. ASSUME a + n \in DOMAIN f PROVE meets
    <3>1. a + n \in upper /\ a + n # last
      <4>1. a + n # last
        BY <2>2, HeapAssumption DEF Within
      <4> QED
        BY <2>2, <4>1 DEF upper
    <3>2. \A x \in upper : a + n <= x
      BY <1>2 DEF upper, Outside
    <3>3. Min(upper) = a + n
      <4>1. Min(upper) \in upper /\ Min(upper) <= a + n
        BY <3>1, <1>4
      <4>2. Min(upper) \in Nat
        BY <4>1, <1>2 DEF upper
      <4> QED
        BY <3>2, <4>1, <4>2
    <3> QED
      BY <3>1, <3>3, <1>5
  <2> QED
    BY <2>1, <2>2
<1>8. meets => Min(upper) = a + n
  BY <1>5
<1> HIDE DEF first, size, meets, joins
<1>9. Merged(f, a, n, Insert(f, last, a, n), first)
  <2>1. CASE meets
    <3>1. Insert(f, last, a, n) = With(Without(f, {a + n}), first, size + f[a + n])
      BY <1>1, <1>8, <2>1
    <3>2. a + n \in DOMAIN f
      BY <1>7, <2>1
    <3> QED
      BY <1>2, <1>5, <1>6, <3>1, <3>2 DEF Merged, With, Without
  <2>2. CASE ~meets
    BY <1>1, <1>2, <1>5, <1>6, <1>7, <2>2 DEF Merged, With
  <2> QED
    BY <2>1, <2>2
<1> QED
  BY <1>5, <1>9

(* The list after the insertion is as orderly as before, and covers what   *)
(* it covered and the new units.                                           *)
LEMMA InsertKeeps ==
    ASSUME NEW f, Ordered(f), NEW top \in Nat, Within(f, top), NEW last \in {top, Null},
           NEW a \in Nat, NEW n \in Nat \ {0}, a + n <= top, Outside(f, a, n), Apart(f),
           NEW list, list = Insert(f, last, a, n)
    PROVE  /\ Ordered(list) /\ Within(list, top) /\ Apart(list)
           /\ Covered(list) = Covered(f) \cup a .. a + n - 1
           /\ \A x \in DOMAIN list : list[x] = 0 => x \in DOMAIN f /\ f[x] = 0
<1>1. PICK first \in Nat : Merged(f, a, n, list, first)
  BY InsertMerges
<1>2. \A x \in DOMAIN f : x \in Nat /\ f[x] \in Nat
  BY DEF Ordered
<1>3. PICK past \in Nat :
         /\ past = IF a + n \in DOMAIN f THEN (a + n) + f[a + n] ELSE a + n
         /\ list[first] = past - first /\ first <= a /\ a + n <= past /\ past <= top
  BY <1>1, <1>2 DEF Merged, Within
<1>4. ASSUME NEW x \in DOMAIN list, x # first
      PROVE  /\ x \in DOMAIN f /\ list[x] = f[x] /\ x # a + n
             /\ x < first => x + f[x] <= first /\ (f[x] > 0 => x + f[x] < first)
             /\ first < x => past <= x /\ (f[x] > 0 => past < x)
  <2>1. x \in DOMAIN f /\ list[x] = f[x] /\ x # a + n
    BY <1>1, <1>4 DEF Merged
  <2>2. ASSUME x < first PROVE x + f[x] <= first /\ (f[x] > 0 => x + f[x] < first)
    BY <1>1, <1>2, <2>1, <2>2 DEF Merged, Ordered, Apart
  <2>3. ASSUME first < x PROVE past <= x /\ (f[x] > 0 => past < x)
    <3>1. a < x
      BY <1>1, <1>2, <2>1, <2>3 DEF Merged, Ordered, Outside
    <3>2. a + n < x
      BY <1>2, <2>1, <3>1 DEF Outside
    <3> QED
      BY <1>2, <1>3, <2>1, <3>2 DEF Ordered, Apart
  <2> QED
    BY <2>1, <2>2, <2>3
<1>5. DOMAIN list \in SUBSET Nat /\ \A x \in DOMAIN list : list[x] \in Nat
  BY <1>1, <1>2, <1>3, <1>4 DEF Merged
<1>6. first \in DOMAIN list
  BY <1>1 DEF Merged
<1>7. Ordered(list)
  BY <1>3, <1>4, <1>5, <1>2 DEF Ordered
<1>8. Within(list, top)
  BY <1>3, <1>4, <1>5 DEF Within
<1>9. Apart(list)
  BY <1>3, <1>4, <1>5, <1>2 DEF Apart
<1>10. Covered(list) = Covered(f) \cup a .. a + n - 1
  <2>1. ASSUME NEW u \in Covered(list) PROVE u \in Covered(f) \cup a .. a + n - 1
    <3>1. PICK x \in DOMAIN list : u \in Nat /\ x <= u /\ u < x + list[x]
      BY <1>7, InChunk
    <3>2. CASE x # first
      BY <1>4, <3>1, <3>2, InChunk
    <3>3. CASE x = first
      <4>1. CASE a <= u /\ u < a + n
        BY <3>1, <4>1
      <4>2. CASE u < a
        <5>1. first \in DOMAIN f /\ first + f[first] = a
          BY <1>1, <3>1, <3>3, <4>2 DEF Merged
        <5> QED
          BY <3>1, <3>3, <4>2, <5>1, InChunk
      <4>3. CASE a + n <= u
        <5>1. a + n \in DOMAIN f /\ u < (a + n) + f[a + n]
          BY <1>3, <3>1, <3>3, <4>3
        <5> QED
          BY <3>1, <4>3, <5>1, InChunk
      <4> QED
        BY <3>1, <4>1, <4>2, <4>3
    <3> QED
      BY <3>2, <3>3
  <2>2. ASSUME NEW u \in a .. a + n - 1 PROVE u \in Covered(list)
    BY <1>3, <1>6, <1>7, InChunk
  <2>3. ASSUME NEW u \in Covered(f) PROVE u \in Covered(list)
    <3>1. PICK x \in DOMAIN f : u \in Nat /\ x <= u /\ u < x + f[x]
      BY InChunk
    <3>2. CASE x # first /\ x # a + n
      <4>1. x \in DOMAIN list /\ list[x] = f[x]
        BY <1>1, <3>2 DEF Merged
      <4> QED
        BY <3>1, <4>1, <1>7, InChunk
    <3>3. CASE x = first
      <4>1. u < a
        BY <1>1, <3>1, <3>3 DEF Merged, Outside
      <4> QED
        BY <1>3, <1>6, <1>7, <3>1, <3>3, <4>1, InChunk
    <3>4. CASE x = a + n
      BY <1>3, <1>6, <1>7, <3>1, <3>4, InChunk
    <3> QED
      BY <3>2, <3>3, <3>4
  <2> QED
    BY <2>1, <2>2, <2>3
<1>11. \A x \in DOMAIN list : list[x] = 0 => x \in DOMAIN f /\ f[x] = 0
  BY <1>3, <1>4
<1> QED
  BY <1>7, <1>8, <1>9, <1>10, <1>11

-----------------------------------------------------------------------------
(* Taking units out of a list and putting them into the table of blocks,   *)
(* and back.                                                               *)

(* A list without one of its chunks is ordered, and covers what is left. *)
LEMMA RemoveKeeps ==
    ASSUME NEW f, Ordered(f), NEW top \in Nat, Within(f, top), NEW a \in DOMAIN f,
           NEW rest, rest = Without(f, {a})
    PROVE  /\ Ordered(rest) /\ Within(rest, top) /\ (Apart(f) => Apart(rest))
           /\ Covered(rest) = Covered(f) \ (a .. a + f[a] - 1)
           /\ \A x \in DOMAIN rest : x \in DOMAIN f /\ rest[x] = f[x] /\ x # a
<1>1. DOMAIN rest = DOMAIN f \ {a} /\ \A x \in DOMAIN rest : rest[x] = f[x]
  BY DEF Without
<1>2. \A x \in DOMAIN f : x \in Nat /\ f[x] \in Nat
  BY DEF Ordered
<1>3. Ordered(rest) /\ Within(rest, top) /\ (Apart(f) => Apart(rest))
  BY <1>1 DEF Ordered, Within, Apart
<1>4. ASSUME NEW u \in Covered(rest) PROVE u \in Covered(f) \ (a .. a + f[a] - 1)
  <2>1. PICK x \in DOMAIN rest : u \in Nat /\ x <= u /\ u < x + rest[x]
    BY <1>3, InChunk
  <2>2. u \in Covered(f)
    BY <1>1, <2>1, InChunk
  <2>3. ~(a <= u /\ u < a + f[a])
    BY <1>1, <1>2, <2>1 DEF Ordered
  <2> QED
    BY <1>2, <2>1, <2>2, <2>3
<1>5. ASSUME NEW u \in Covered(f) \ (a .. a + f[a] - 1) PROVE u \in Covered(rest)
  <2>1. PICK x \in DOMAIN f : u \in Nat /\ x <= u /\ u < x + f[x]
    BY InChunk
  <2>2. x # a
    BY <1>2, <1>5, <2>1
  <2> QED
    BY <1>1, <1>3, <2>1, <2>2, InChunk
<1> QED
  BY <1>1, <1>3, <1>4, <1>5

(* A list with one chunk more, outside the others, is ordered, and covers  *)
(* so much more.                                                           *)
LEMMA AddKeeps ==
    ASSUME NEW f, Ordered(f), NEW top \in Nat, Within(f, top),
           NEW a \in Nat, NEW n \in Nat \ {0}, a + n <= top, Outside(f, a, n),
           NEW more, more = With(f, a, n)
    PROVE  /\ Ordered(more) /\ Within(more, top)
           /\ Covered(more) = Covered(f) \cup a .. a + n - 1
           /\ \A x \in DOMAIN more : more[x] = n \/ (x \in DOMAIN f /\ more[x] = f[x])
<1>1. /\ DOMAIN more = DOMAIN f \cup {a} /\ more[a] = n
      /\ \A x \in DOMAIN f : x # a /\ more[x] = f[x]
  BY DEF With, Outside
<1>2. \A x \in DOMAIN f : x \in Nat /\ f[x] \in Nat
  BY DEF Ordered
<1>3. Ordered(more)
  <2>1. DOMAIN more \in SUBSET Nat /\ \A x \in DOMAIN more : more[x] \in Nat
    BY <1>1, <1>2
  <2>2. ASSUME NEW x \in DOMAIN more, NEW y \in DOMAIN more, x < y PROVE x + more[x] <= y
    <3>1. CASE x = a
      BY <1>1, <2>2, <3>1 DEF Outside
    <3>2. CASE x # a /\ y = a
      BY <1>1, <2>2, <3>2 DEF Outside
    <3>3. CASE x # a /\ y # a
      BY <1>1, <2>2, <3>3 DEF Ordered
    <3> QED
      BY <3>1, <3>2, <3>3
  <2> QED
    BY <2>1, <2>2 DEF Ordered
<1>4. Within(more, top)
  BY <1>1, <1>2 DEF Within
<1>5. Covered(more) = Covered(f) \cup a .. a + n - 1
  <2>1. ASSUME NEW u \in Covered(more) PROVE u \in Covered(f) \cup a .. a + n - 1
    <3>1. PICK x \in DOMAIN more : u \in Nat /\ x <= u /\ u < x + more[x]
      BY <1>3, InChunk
    <3> QED
      BY <1>1, <3>1, InChunk
  <2>2. ASSUME NEW u \in a .. a + n - 1 PROVE u \in Covered(more)
    BY <1>1, <1>3, InChunk
  <2>3. ASSUME NEW u \in Covered(f) PROVE u \in Covered(more)
    BY <1>1, <1>3, InChunk
  <2> QED
    BY <2>1, <2>2, <2>3
<1> QED
  BY <1>1, <1>3, <1>4, <1>5

(* A list, the blocks held and the marks in a memory of these units. *)
Good(list, held, top, units, marks) ==
    /\ Ordered(list) /\ Within(list, top) /\ Apart(list)
    /\ Ordered(held) /\ Within(held, top) /\ \A b \in DOMAIN held : held[b] > 0
    /\ Covered(held) \subseteq units
    /\ Covered(list) = units \ Covered(held)
    /\ \A x \in DOMAIN list : list[x] = 0 => x \in marks

(* The units from a in a free chunk are in no block. *)
LEMMA FreeOutsideHeld ==
    ASSUME NEW list, NEW held, NEW top, NEW units, NEW marks, Good(list, held, top, units, marks),
           NEW x \in DOMAIN list, NEW a \in Nat, NEW n \in Nat \ {0}, x <= a, a + n <= x + list[x]
    PROVE  Outside(held, a, n)
<1>1. \A u \in Nat : a <= u /\ u < a + n => u \notin Covered(held)
  <2> SUFFICES ASSUME NEW u \in Nat, a <= u, u < a + n PROVE u \in Covered(list)
    BY DEF Good
  <2>1. x \in Nat /\ list[x] \in Nat /\ Ordered(list)
    BY DEF Good, Ordered
  <2> QED
    BY <2>1, InChunk
<1>2. \A b \in DOMAIN held : b \in Nat /\ held[b] \in Nat \ {0}
  BY DEF Good, Ordered
<1>3. \A b \in DOMAIN held : b \in Covered(held)
  BY <1>2, InChunk DEF Good
<1>4. a \notin DOMAIN held
  BY <1>1, <1>3
<1>5. ASSUME NEW b \in DOMAIN held, b < a PROVE b + held[b] <= a
  <2> SUFFICES ASSUME a < b + held[b] PROVE FALSE
    BY <1>2
  <2>1. a \in Covered(held)
    BY <1>2, <1>5, InChunk DEF Good
  <2> QED
    BY <1>1, <2>1
<1>6. ASSUME NEW b \in DOMAIN held, a < b PROVE a + n <= b
  BY <1>1, <1>2, <1>3, <1>6
<1> QED
  BY <1>4, <1>5, <1>6 DEF Outside

(* A block is outside every chunk of the list. *)
LEMMA HeldOutsideFree ==
    ASSUME NEW list, NEW held, NEW top, NEW units, NEW marks, Good(list, held, top, units, marks),
           marks \cap units = {}, NEW b \in DOMAIN held
    PROVE  Outside(list, b, held[b])
<1>1. b \in Nat /\ held[b] \in Nat \ {0} /\ Ordered(held) /\ Ordered(list)
  BY DEF Good, Ordered
<1>2. ASSUME NEW u \in Nat, b <= u, u < b + held[b]
      PROVE  u \in units /\ u \notin Covered(list)
  BY <1>1, <1>2, InChunk DEF Good
<1>3. \A x \in DOMAIN list : x \in Nat /\ list[x] \in Nat
  BY <1>1 DEF Ordered
<1>4. ASSUME NEW x \in DOMAIN list PROVE ~(b <= x /\ x < b + held[b])
  <2> SUFFICES ASSUME b <= x, x < b + held[b] PROVE FALSE
    OBVIOUS
  <2>1. x \in units /\ x \notin Covered(list)
    BY <1>2, <1>3
  <2>2. list[x] = 0
    BY <1>1, <1>3, <2>1, InChunk
  <2> QED
    BY <2>1, <2>2 DEF Good
<1>5. ASSUME NEW x \in DOMAIN list, x < b PROVE x + list[x] <= b
  <2>1. b \notin Covered(list)
    BY <1>1, <1>2
  <2> QED
    BY <1>1, <1>3, <1>5, <2>1, InChunk
<1> QED
  BY <1>1, <1>3, <1>4, <1>5 DEF Outside

(* A whole chunk may become a block. *)
LEMMA TakeAll ==
    ASSUME NEW list, NEW held, NEW top \in Nat, NEW units, NEW marks,
           Good(list, held, top, units, marks), NEW a \in DOMAIN list, list[a] > 0
    PROVE  Good(Without(list, {a}), With(held, a, list[a]), top, units, marks)
<1>1. a \in Nat /\ list[a] \in Nat \ {0} /\ a + list[a] <= top
  BY DEF Good, Ordered, Within
<1>2. Outside(held, a, list[a])
  BY <1>1, FreeOutsideHeld
<1>3. PICK rest : rest = Without(list, {a})
  OBVIOUS
<1>4. PICK more : more = With(held, a, list[a])
  OBVIOUS
<1>5. /\ Ordered(rest) /\ Within(rest, top) /\ Apart(rest)
      /\ Covered(rest) = Covered(list) \ (a .. a + list[a] - 1)
      /\ \A x \in DOMAIN rest : rest[x] = 0 => x \in marks
  BY <1>3, RemoveKeeps DEF Good
<1>6. /\ Ordered(more) /\ Within(more, top)
      /\ Covered(more) = Covered(held) \cup a .. a + list[a] - 1
      /\ \A x \in DOMAIN more : more[x] > 0
  <2>1. Ordered(held) /\ Within(held, top) /\ \A x \in DOMAIN held : held[x] > 0
    BY DEF Good
  <2>2. a + list[a] <= top /\ list[a] \in Nat \ {0}
    BY <1>1
  <2>3. /\ Ordered(more) /\ Within(more, top)
        /\ Covered(more) = Covered(held) \cup a .. a + list[a] - 1
        /\ \A x \in DOMAIN more : more[x] = list[a] \/ (x \in DOMAIN held /\ more[x] = held[x])
    BY <1>1, <1>2, <1>4, <2>1, <2>2, AddKeeps
  <2> QED
    BY <2>1, <2>2, <2>3
<1>7. \A u \in a .. a + list[a] - 1 : u \in Covered(list)
  BY <1>1, InChunk DEF Good
<1>8. Covered(more) \subseteq units /\ Covered(rest) = units \ Covered(more)
  BY <1>5, <1>6, <1>7 DEF Good
<1> QED
  BY <1>3, <1>4, <1>5, <1>6, <1>8 DEF Good

(* The first units of a chunk may become a block, when the rest is put     *)
(* back in order (pvPortMalloc).                                           *)
LEMMA TakeFirst ==
    ASSUME NEW list, NEW held, NEW top \in Nat, NEW units, NEW marks,
           Good(list, held, top, units, marks), NEW last \in {top, Null},
           NEW a \in DOMAIN list, NEW n \in Nat \ {0}, n < list[a]
    PROVE  Good(Insert(Without(list, {a}), last, a + n, list[a] - n), With(held, a, n),
                top, units, marks)
<1>1. a \in Nat /\ list[a] \in Nat \ {0} /\ a + list[a] <= top
  BY DEF Good, Ordered, Within
<1>2. Outside(held, a, n)
  BY <1>1, FreeOutsideHeld
<1>3. PICK rest : rest = Without(list, {a})
  OBVIOUS
<1>4. PICK more : more = With(held, a, n)
  OBVIOUS
<1>5. /\ Ordered(rest) /\ Within(rest, top) /\ Apart(rest)
      /\ Covered(rest) = Covered(list) \ (a .. a + list[a] - 1)
      /\ \A x \in DOMAIN rest : x \in DOMAIN list /\ rest[x] = list[x] /\ x # a
  BY <1>3, RemoveKeeps DEF Good
<1>6. /\ Ordered(more) /\ Within(more, top)
      /\ Covered(more) = Covered(held) \cup a .. a + n - 1
      /\ \A x \in DOMAIN more : more[x] > 0
  <2>1. Ordered(held) /\ Within(held, top) /\ \A x \in DOMAIN held : held[x] > 0
    BY DEF Good
  <2>2. a + n <= top /\ n \in Nat \ {0}
    BY <1>1
  <2>3. /\ Ordered(more) /\ Within(more, top)
        /\ Covered(more) = Covered(held) \cup a .. a + n - 1
        /\ \A x \in DOMAIN more : more[x] = n \/ (x \in DOMAIN held /\ more[x] = held[x])
    BY <1>1, <1>2, <1>4, <2>1, <2>2, AddKeeps
  <2> QED
    BY <2>1, <2>2, <2>3
<1>7. PICK first \in Nat, size \in Nat \ {0} : first = a + n /\ size = list[a] - n
  BY <1>1
<1>8. Outside(rest, first, size)
  <2>1. \A x \in DOMAIN list : x \in Nat /\ list[x] \in Nat
             /\ (x < a => x + list[x] <= a) /\ (a < x => a + list[a] <= x)
    BY DEF Good, Ordered
  <2> QED
    BY <1>1, <1>5, <1>7, <2>1 DEF Outside
<1>9. PICK new : new = Insert(rest, last, first, size)
  OBVIOUS
<1>10. /\ Ordered(new) /\ Within(new, top) /\ Apart(new)
       /\ Covered(new) = Covered(rest) \cup first .. first + size - 1
       /\ \A x \in DOMAIN new : new[x] = 0 => x \in DOMAIN rest /\ rest[x] = 0
  BY <1>1, <1>5, <1>7, <1>8, <1>9, InsertKeeps
<1>11. \A u \in a .. a + list[a] - 1 : u \in Covered(list)
  BY <1>1, InChunk DEF Good
<1>12. Covered(more) \subseteq units
  BY <1>1, <1>6, <1>11 DEF Good
<1>13. Covered(new) = units \ Covered(more)
  <2>1. a .. a + list[a] - 1 = (a .. a + n - 1) \cup (first .. first + size - 1)
        /\ (a .. a + n - 1) \cap (first .. first + size - 1) = {}
    BY <1>1, <1>7
  <2> QED
    BY <1>5, <1>6, <1>10, <1>11, <2>1 DEF Good
<1>14. \A x \in DOMAIN new : new[x] = 0 => x \in marks
  BY <1>5, <1>10 DEF Good
<1>15. Good(new, more, top, units, marks)
  BY <1>6, <1>10, <1>12, <1>13, <1>14 DEF Good
<1> QED
  BY <1>3, <1>4, <1>7, <1>9, <1>15

(* The last units of a chunk may become a block (tcm_heap_malloc). *)
LEMMA TakeLast ==
    ASSUME NEW list, NEW held, NEW top \in Nat, NEW units, NEW marks,
           Good(list, held, top, units, marks),
           NEW a \in DOMAIN list, NEW n \in Nat \ {0}, n < list[a]
    PROVE  Good(With(list, a, list[a] - n), With(held, a + list[a] - n, n), top, units, marks)
<1>1. a \in Nat /\ list[a] \in Nat \ {0} /\ a + list[a] <= top
  BY DEF Good, Ordered, Within
<1>2. PICK b \in Nat : b = a + list[a] - n /\ a <= b /\ b + n = a + list[a]
  BY <1>1
<1>3. Outside(held, b, n)
  BY <1>1, <1>2, FreeOutsideHeld
<1>4. PICK more : more = With(held, b, n)
  OBVIOUS
<1>5. /\ Ordered(more) /\ Within(more, top)
      /\ Covered(more) = Covered(held) \cup b .. b + n - 1
      /\ \A x \in DOMAIN more : more[x] > 0
  <2>1. Ordered(held) /\ Within(held, top) /\ \A x \in DOMAIN held : held[x] > 0
    BY DEF Good
  <2>2. b + n <= top
    BY <1>1, <1>2
  <2>3. /\ Ordered(more) /\ Within(more, top)
        /\ Covered(more) = Covered(held) \cup b .. b + n - 1
        /\ \A x \in DOMAIN more : more[x] = n \/ (x \in DOMAIN held /\ more[x] = held[x])
    BY <1>3, <1>4, <2>1, <2>2, AddKeeps
  <2> QED
    BY <2>1, <2>3
<1>6. PICK less : less = With(list, a, list[a] - n)
  OBVIOUS
<1>7. /\ DOMAIN less = DOMAIN list /\ less[a] = list[a] - n /\ a + less[a] = b
      /\ \A x \in DOMAIN list : x # a => less[x] = list[x]
  BY <1>1, <1>2, <1>6 DEF With
<1>8. \A x \in DOMAIN list : x \in Nat /\ list[x] \in Nat /\ less[x] \in Nat /\ less[x] <= list[x]
                             /\ (less[x] > 0 => list[x] > 0)
  BY <1>1, <1>7 DEF Good, Ordered
<1>9. Ordered(less)
  <2>1. ASSUME NEW x \in DOMAIN list, NEW y \in DOMAIN list, x < y PROVE x + less[x] <= y
    <3>1. x + list[x] <= y
      BY <2>1 DEF Good, Ordered
    <3> QED
      BY <1>8, <3>1
  <2> QED
    BY <1>7, <1>8, <2>1 DEF Ordered
<1>10. Within(less, top)
  <2>1. \A x \in DOMAIN list : x < top /\ x + list[x] <= top
    BY DEF Good, Within
  <2> QED
    BY <1>7, <1>8, <2>1 DEF Within
<1>11. Apart(less)
  <2>1. ASSUME NEW x \in DOMAIN list, NEW y \in DOMAIN list, x < y, less[x] > 0, less[y] > 0
        PROVE  x + less[x] < y
    <3>1. x + list[x] < y
      BY <1>8, <2>1 DEF Good, Apart
    <3> QED
      BY <1>8, <3>1
  <2> QED
    BY <1>7, <2>1 DEF Apart
<1>12. Covered(less) = Covered(list) \ (b .. b + n - 1)
  <2>1. ASSUME NEW u \in Covered(less) PROVE u \in Covered(list) \ (b .. b + n - 1)
    <3>1. PICK x \in DOMAIN list : u \in Nat /\ x <= u /\ u < x + less[x]
      BY <1>7, <1>9, InChunk
    <3>2. u \in Covered(list)
      <4>1. u < x + list[x]
        BY <1>8, <3>1
      <4> QED
        BY <3>1, <4>1, InChunk DEF Good
    <3>3. ~(b <= u /\ u < b + n)
      <4>1. CASE x = a
        BY <1>7, <3>1, <4>1, <1>2
      <4>2. CASE x # a
        <5>1. (x < a => x + list[x] <= a) /\ (a < x => a + list[a] <= x)
          BY DEF Good, Ordered
        <5> QED
          BY <1>1, <1>2, <1>7, <1>8, <3>1, <4>2, <5>1
      <4> QED
        BY <4>1, <4>2
    <3> QED
      BY <1>2, <3>1, <3>2, <3>3
  <2>2. ASSUME NEW u \in Covered(list) \ (b .. b + n - 1) PROVE u \in Covered(less)
    <3>1. PICK x \in DOMAIN list : u \in Nat /\ x <= u /\ u < x + list[x]
      BY InChunk DEF Good
    <3>2. u < x + less[x]
      BY <1>1, <1>2, <1>7, <2>2, <3>1
    <3> QED
      BY <1>7, <1>9, <3>1, <3>2, InChunk
  <2> QED
    BY <2>1, <2>2
<1>13. \A u \in b .. b + n - 1 : u \in Covered(list)
  BY <1>1, <1>2, InChunk DEF Good
<1>14. Covered(more) \subseteq units /\ Covered(less) = units \ Covered(more)
  BY <1>5, <1>12, <1>13 DEF Good
<1>15. \A x \in DOMAIN less : less[x] = 0 => x \in marks
  BY <1>1, <1>7 DEF Good
<1>16. Good(less, more, top, units, marks)
  BY <1>5, <1>9, <1>10, <1>11, <1>14, <1>15 DEF Good
<1> QED
  BY <1>2, <1>4, <1>6, <1>16

(* A block may be put back in order (__vPortFree, tcm_heap_free). *)
LEMMA GiveBack ==
    ASSUME NEW list, NEW held, NEW top \in Nat, NEW units, NEW marks,
           Good(list, held, top, units, marks), marks \cap units = {}, NEW last \in {top, Null},
           NEW b \in DOMAIN held
    PROVE  Good(Insert(list, last, b, held[b]), Without(held, {b}), top, units, marks)
<1>1. b \in Nat /\ held[b] \in Nat \ {0} /\ b + held[b] <= top
  BY DEF Good, Ordered, Within
<1>2. Outside(list, b, held[b])
  BY HeldOutsideFree
<1>3. PICK n \in Nat \ {0} : n = held[b]
  BY <1>1
<1>4. PICK new : new = Insert(list, last, b, n)
  OBVIOUS
<1>5. /\ Ordered(new) /\ Within(new, top) /\ Apart(new)
      /\ Covered(new) = Covered(list) \cup b .. b + n - 1
      /\ \A x \in DOMAIN new : new[x] = 0 => x \in DOMAIN list /\ list[x] = 0
  BY <1>1, <1>2, <1>3, <1>4, InsertKeeps DEF Good
<1>6. PICK less : less = Without(held, {b})
  OBVIOUS
<1>7. /\ Ordered(less) /\ Within(less, top)
      /\ Covered(less) = Covered(held) \ (b .. b + n - 1)
      /\ \A x \in DOMAIN less : x \in DOMAIN held /\ less[x] = held[x]
  BY <1>3, <1>6, RemoveKeeps DEF Good
<1>8. \A u \in b .. b + n - 1 : u \in Covered(held)
  BY <1>1, <1>3, InChunk DEF Good
<1>9. Covered(less) \subseteq units /\ Covered(new) = units \ Covered(less)
  BY <1>5, <1>7, <1>8 DEF Good
<1>10. Good(new, less, top, units, marks)
  BY <1>5, <1>7, <1>9 DEF Good
<1> QED
  BY <1>3, <1>4, <1>6, <1>10

-----------------------------------------------------------------------------
(* What such a list says of the memory.                                    *)

(* A stretch of covered units lies in one chunk. *)
LEMMA InOneChunk ==
    ASSUME NEW f, Ordered(f), Apart(f), NEW a \in Nat, NEW n \in Nat \ {0},
           \A u \in a .. a + n - 1 : u \in Covered(f)
    PROVE  \E x \in DOMAIN f : x <= a /\ a + n <= x + f[x]
<1>1. \A x \in DOMAIN f : x \in Nat /\ f[x] \in Nat
  BY DEF Ordered
<1>2. PICK x \in DOMAIN f : x <= a /\ a < x + f[x]
  <2>1. a \in Covered(f)
    OBVIOUS
  <2> QED
    BY <2>1, InChunk
<1>3. a + n <= x + f[x]
  <2> SUFFICES ASSUME x + f[x] < a + n PROVE FALSE
    BY <1>1
  <2>1. x + f[x] \in Covered(f)
    BY <1>1, <1>2
  <2>2. PICK y \in DOMAIN f : y <= x + f[x] /\ x + f[x] < y + f[y]
    BY <2>1, InChunk
  <2> QED
    BY <1>1, <1>2, <2>2 DEF Ordered, Apart
<1> QED
  BY <1>2, <1>3

(* A good list is the list of the gaps between the blocks: each chunk is   *)
(* as long as the memory between two blocks allows.                        *)
LEMMA ChunksAreGaps ==
    ASSUME NEW list, NEW held, NEW top, NEW areas, NEW marks,
           Good(list, held, top, InAreas(areas), marks), IsFiniteSet(InAreas(areas))
    PROVE  Chunks(list) = Gaps(held, areas)
<1> DEFINE open == InAreas(areas) \ Covered(held)
<1>1. open = Covered(list) /\ IsFiniteSet(open) /\ Ordered(list) /\ Apart(list)
  BY FS_Subset DEF Good
<1>2. Gaps(held, areas) =
         {g \in open \X (1 .. Cardinality(open)) :
            /\ g[1] .. g[1] + g[2] - 1 \subseteq open
            /\ g[1] - 1 \notin open /\ g[1] + g[2] \notin open}
  BY DEF Gaps
<1>3. Cardinality(open) \in Nat
  BY <1>1, FS_CardinalityType
<1> HIDE DEF open
<1>4. \A x \in DOMAIN list : x \in Nat /\ list[x] \in Nat
  BY <1>1 DEF Ordered
<1>5. \A u \in open : u \in Nat
  BY <1>1, InChunk
<1>6. ASSUME NEW x \in DOMAIN list, list[x] > 0 PROVE <<x, list[x]>> \in Gaps(held, areas)
  <2>1. PICK n \in Nat \ {0} : n = list[x]
    BY <1>4, <1>6
  <2>2. \A u \in x .. x + n - 1 : u \in open
    BY <1>1, <1>4, <2>1, InChunk
  <2>3. n <= Cardinality(open)
    <3>1. PICK b \in Int : b = x + n - 1
      BY <1>4, <2>1
    <3>2. x \in Int /\ ~(x > b)
      BY <1>4, <2>1, <3>1
    <3>3. Cardinality(x .. b) = IF x > b THEN 0 ELSE b - x + 1
      BY <3>2, FS_Interval, Zenon
    <3>4. Cardinality(x .. b) <= Cardinality(open)
      <4>1. x .. b \in SUBSET open
        BY <2>2, <3>1
      <4> QED
        BY <4>1, <1>1, FS_Subset, Zenon
    <3> QED
      BY <1>4, <2>1, <3>1, <3>2, <3>3, <3>4
  <2>4. x - 1 \notin open
    <3> SUFFICES ASSUME x - 1 \in Covered(list) PROVE FALSE
      BY <1>1
    <3>1. PICK y \in DOMAIN list : y <= x - 1 /\ x - 1 < y + list[y]
      BY <1>1, InChunk
    <3> QED
      BY <1>1, <1>4, <1>6, <3>1 DEF Apart
  <2>5. x + n \notin open
    <3> SUFFICES ASSUME x + n \in Covered(list) PROVE FALSE
      BY <1>1
    <3>1. PICK y \in DOMAIN list : y <= x + n /\ x + n < y + list[y]
      BY <1>1, InChunk
    <3> QED
      BY <1>1, <1>4, <1>6, <2>1, <3>1 DEF Apart, Ordered
  <2>6. <<x, n>> \in open \X (1 .. Cardinality(open))
    BY <1>3, <1>4, <2>1, <2>2, <2>3
  <2> QED
    BY <1>2, <2>1, <2>2, <2>4, <2>5, <2>6
<1>7. ASSUME NEW g \in Gaps(held, areas) PROVE g \in Chunks(list)
  <2>1. PICK a \in open, n \in 1 .. Cardinality(open) :
           /\ g = <<a, n>>
           /\ \A u \in a .. a + n - 1 : u \in open
           /\ a - 1 \notin open /\ a + n \notin open
    BY <1>2, <1>7
  <2>2. a \in Nat /\ n \in Nat \ {0}
    BY <1>3, <1>5
  <2>3. PICK x \in DOMAIN list : x <= a /\ a + n <= x + list[x]
    BY <1>1, <2>1, <2>2, InOneChunk
  <2>4. x = a
    <3> SUFFICES ASSUME x < a PROVE FALSE
      BY <1>4, <2>2, <2>3
    <3>1. a - 1 \in Covered(list)
      BY <1>1, <1>4, <2>2, <2>3, InChunk
    <3> QED
      BY <1>1, <2>1, <3>1
  <2>5. list[x] = n
    <3> SUFFICES ASSUME a + n < x + list[x] PROVE FALSE
      BY <1>4, <2>2, <2>3, <2>4
    <3>1. a + n \in Covered(list)
      BY <1>1, <1>4, <2>2, <2>3, InChunk
    <3> QED
      BY <1>1, <2>1, <3>1
  <2> QED
    BY <2>1, <2>2, <2>4, <2>5 DEF Chunks
<1> QED
  BY <1>6, <1>7 DEF Chunks

(* Taking n units from the list. *)
LEMMA CoveredLess ==
    ASSUME NEW list, NEW held, NEW new, NEW more, NEW top, NEW units, NEW marks,
           Good(list, held, top, units, marks), Good(new, more, top, units, marks),
           IsFiniteSet(units), NEW a \in Nat, NEW n \in Nat,
           Covered(more) = Covered(held) \cup a .. a + n - 1,
           (a .. a + n - 1) \cap Covered(held) = {}
    PROVE  Cardinality(Covered(list)) = Cardinality(Covered(new)) + n
<1> DEFINE X == Covered(new)
           Y == a .. a + n - 1
<1>1. Covered(list) = X \cup Y /\ X \cap Y = {} /\ IsFiniteSet(X)
  BY FS_Subset DEF Good
<1>2. IsFiniteSet(Y) /\ Cardinality(Y) = n
  <2>1. PICK b \in Int : b = a + n - 1
    OBVIOUS
  <2>2. IsFiniteSet(a .. b) /\ Cardinality(a .. b) = IF a > b THEN 0 ELSE b - a + 1
    <3>1. a \in Int
      OBVIOUS
    <3> QED
      BY <3>1, FS_Interval, Zenon
  <2> QED
    BY <2>1, <2>2
<1>3. Cardinality(X) \in Nat
  BY <1>1, FS_CardinalityType
<1> HIDE DEF X, Y
<1>4. Cardinality(X \cup Y) = Cardinality(X) + Cardinality(Y) - Cardinality(X \cap Y)
  BY <1>1, <1>2, FS_Union, Zenon
<1>5. Cardinality(X \cap Y) = 0
  BY <1>1, FS_EmptySet
<1> QED
  BY <1>1, <1>2, <1>3, <1>4, <1>5 DEF X

-----------------------------------------------------------------------------
(* The memories.                                                           *)

HeapTop == Marker(LastRegion)
TcmTop == Tcm[1] + Tcm[2]

(* The regions are in order, each with its marker after it. *)
LEMMA RegionFacts ==
    /\ LastRegion \in Nat \ {0} /\ HeapTop \in Nat
    /\ \A r \in 1 .. LastRegion :
          Start(r) \in Nat /\ Marker(r) \in Nat /\ Start(r) < Marker(r) /\ Marker(r) <= HeapTop
    /\ \A r, s \in 1 .. LastRegion : r < s => Marker(r) < Start(s)
<1>1. Regions \in Seq(Nat \X (Nat \ {0, 1})) /\ LastRegion \in Nat \ {0}
  BY HeapAssumption DEF LastRegion
<1>2. ASSUME NEW r \in 1 .. LastRegion
      PROVE  Start(r) \in Nat /\ Marker(r) \in Nat /\ Start(r) < Marker(r)
  <2>1. Regions[r] \in Nat \X (Nat \ {0, 1})
    BY <1>1 DEF LastRegion
  <2> QED
    BY <2>1 DEF Start, Marker
<1>3. \A r, s \in 1 .. LastRegion : r < s => Marker(r) < Start(s)
  BY HeapAssumption DEF LastRegion
<1>4. ASSUME NEW r \in 1 .. LastRegion PROVE Marker(r) <= HeapTop
  <2>1. LastRegion \in 1 .. LastRegion
    BY <1>1
  <2>2. CASE r = LastRegion
    BY <1>2, <2>2 DEF HeapTop
  <2>3. CASE r < LastRegion
    <3>1. Marker(r) < Start(LastRegion) /\ Start(LastRegion) < HeapTop
      BY <1>2, <1>3, <2>1, <2>3 DEF HeapTop
    <3> QED
      BY <1>2, <2>1, <3>1 DEF HeapTop
  <2> QED
    BY <1>1, <2>2, <2>3
<1>5. LastRegion \in 1 .. LastRegion
  BY <1>1
<1> QED
  BY <1>1, <1>2, <1>3, <1>4, <1>5 DEF HeapTop

(* The units that can be given are those of the regions; the markers are   *)
(* not among them.                                                         *)
LEMMA UnitFacts ==
    /\ \A u : u \in InAreas(Area) <=>
          \E r \in 1 .. LastRegion : u \in Nat /\ Start(r) <= u /\ u < Marker(r)
    /\ Marks \cap InAreas(Area) = {}
    /\ IsFiniteSet(InAreas(Area)) /\ Cardinality(InAreas(Area)) \in Nat
<1>1. ASSUME NEW u
      PROVE  u \in InAreas(Area) <=>
               \E r \in 1 .. LastRegion : u \in Nat /\ Start(r) <= u /\ u < Marker(r)
  <2>1. u \in InAreas(Area) <=> \E r \in 1 .. LastRegion : u \in Start(r) .. Marker(r) - 1
    <3>1. ASSUME NEW x \in Area, u \in x[1] .. x[2] - 1
          PROVE  \E r \in 1 .. LastRegion : u \in Start(r) .. Marker(r) - 1
      BY <3>1 DEF Area
    <3>2. ASSUME NEW r \in 1 .. LastRegion, u \in Start(r) .. Marker(r) - 1
          PROVE  \E x \in Area : u \in x[1] .. x[2] - 1
      <4>1. <<Start(r), Marker(r)>> \in Area
        BY DEF Area
      <4> QED
        BY <3>2, <4>1
    <3> QED
      BY <3>1, <3>2 DEF InAreas
  <2> QED
    BY <2>1, RegionFacts
<1>2. Marks \cap InAreas(Area) = {}
  <2> SUFFICES ASSUME NEW s \in 1 .. LastRegion, NEW r \in 1 .. LastRegion,
                      Start(r) <= Marker(s), Marker(s) < Marker(r)
               PROVE  FALSE
    BY <1>1 DEF Marks
  <2>1. CASE r < s
    BY <2>1, RegionFacts
  <2>2. CASE s < r
    BY <2>2, RegionFacts
  <2> QED
    BY <2>1, <2>2, RegionFacts
<1>3. IsFiniteSet(InAreas(Area))
  <2>1. InAreas(Area) \in SUBSET Nat /\ \A u \in InAreas(Area) : u <= HeapTop
    BY <1>1, RegionFacts
  <2> QED
    BY <2>1, RegionFacts, FS_BoundedSetOfNaturals
<1> QED
  BY <1>1, <1>2, <1>3, FS_CardinalityType

(* The one region of the other heap. *)
LEMMA TcmFacts ==
    /\ Tcm[1] \in Nat /\ Tcm[2] \in Nat \ {0} /\ TcmTop \in Nat
    /\ InAreas(TcmArea) = Tcm[1] .. TcmTop - 1 /\ IsFiniteSet(InAreas(TcmArea))
<1>1. Tcm[1] \in Nat /\ Tcm[2] \in Nat \ {0} /\ TcmTop \in Nat
  BY HeapAssumption DEF TcmTop
<1>2. InAreas(TcmArea) = Tcm[1] .. TcmTop - 1
  BY DEF InAreas, TcmArea, TcmTop
<1>3. IsFiniteSet(InAreas(TcmArea))
  <2>1. InAreas(TcmArea) \in SUBSET Nat /\ \A u \in InAreas(TcmArea) : u <= TcmTop
    BY <1>1, <1>2
  <2> QED
    BY <1>1, <2>1, FS_BoundedSetOfNaturals
<1> QED
  BY <1>1, <1>2, <1>3

(* The table of no blocks. *)
LEMMA NothingHeld ==
    /\ DOMAIN NoBlock = {} /\ Ordered(NoBlock) /\ Covered(NoBlock) = {}
    /\ \A top : Within(NoBlock, top)
BY DEF NoBlock, Ordered, Covered, Within

(* The list that vPortDefineHeapRegions makes. *)
LEMMA DefinedGood == Good(DefinedList, NoBlock, HeapTop, InAreas(Area), Marks)
<1> DEFINE list == DefinedList
           Starts == {Start(r) : r \in 1 .. LastRegion}
           Inner == Marks \ {HeapTop}
<1>1. Marks \in SUBSET Nat
  BY RegionFacts DEF Marks
<1>2. DOMAIN list = Starts \cup Inner
  BY DEF DefinedList, HeapTop
<1>3. ASSUME NEW a \in DOMAIN list, NEW m \in Marks, a <= m, \A k \in Marks : a <= k => m <= k
      PROVE  list[a] = m - a
  <2> DEFINE S == {k \in Marks : k >= a}
  <2>1. a \in Nat
    BY <1>1, <1>2, RegionFacts
  <2>2. S \in SUBSET Nat /\ m \in S
    BY <1>1, <1>3, <2>1
  <2>3. \A k \in S : m <= k
    BY <1>1, <1>3, <2>1
  <2>4. list[a] = Min(S) - a
    BY <1>2 DEF DefinedList, HeapTop
  <2> HIDE DEF S
  <2>5. PICK z \in S : z = Min(S) /\ z <= m
    BY <2>2, MinIs
  <2>6. Min(S) = m
    BY <2>2, <2>3, <2>5
  <2> QED
    BY <2>4, <2>6
<1>4. ASSUME NEW r \in 1 .. LastRegion
      PROVE  Start(r) \in DOMAIN list /\ list[Start(r)] = Marker(r) - Start(r)
  <2>1. Marker(r) \in Marks /\ Start(r) <= Marker(r) /\ Start(r) \in DOMAIN list
    BY <1>2, RegionFacts DEF Marks
  <2>2. ASSUME NEW s \in 1 .. LastRegion, Start(r) <= Marker(s) PROVE Marker(r) <= Marker(s)
    <3>1. CASE s < r
      BY <2>2, <3>1, RegionFacts
    <3>2. CASE r < s
      BY <2>2, <3>2, RegionFacts
    <3> QED
      BY <3>1, <3>2, RegionFacts
  <2>3. \A k \in Marks : Start(r) <= k => Marker(r) <= k
    BY <2>2 DEF Marks
  <2> QED
    BY <1>3, <2>1, <2>3
<1>5. ASSUME NEW m \in Inner PROVE m \in DOMAIN list /\ list[m] = 0
  <2>1. m \in DOMAIN list /\ m \in Marks /\ m \in Nat
    BY <1>1, <1>2
  <2>2. list[m] = m - m
    BY <1>3, <2>1
  <2> QED
    BY <2>1, <2>2
<1> HIDE DEF list
<1>6. ASSUME NEW x \in DOMAIN list
      PROVE  \/ \E r \in 1 .. LastRegion : x = Start(r) /\ list[x] = Marker(r) - Start(r)
             \/ \E r \in 1 .. LastRegion : x = Marker(r) /\ list[x] = 0 /\ Marker(r) # HeapTop
  BY <1>2, <1>4, <1>5 DEF Marks
<1>7. ASSUME NEW r \in 1 .. LastRegion, NEW s \in 1 .. LastRegion
      PROVE  /\ Start(r) < Start(s) => Marker(r) < Start(s)
             /\ Marker(r) < Start(s) \/ Start(s) <= Marker(r)
             /\ Start(r) < Marker(s) => Marker(r) <= Marker(s)
  <2>1. CASE r < s
    BY <2>1, RegionFacts
  <2>2. CASE s < r
    BY <2>2, RegionFacts
  <2>3. CASE r = s
    BY <2>3, RegionFacts
  <2> QED
    BY <2>1, <2>2, <2>3
<1>8. Ordered(list)
  <2>1. \A x \in DOMAIN list : x \in Nat /\ list[x] \in Nat
    BY <1>6, RegionFacts
  <2>2. ASSUME NEW x \in DOMAIN list, NEW y \in DOMAIN list, x < y PROVE x + list[x] <= y
    <3>1. CASE list[x] = 0
      BY <2>1, <2>2, <3>1
    <3>2. CASE \E r \in 1 .. LastRegion : x = Start(r) /\ list[x] = Marker(r) - Start(r)
      <4>1. PICK r \in 1 .. LastRegion : x = Start(r) /\ x + list[x] = Marker(r)
        BY <3>2, RegionFacts
      <4>2. PICK s \in 1 .. LastRegion : y = Start(s) \/ y = Marker(s)
        BY <1>6
      <4> QED
        BY <1>7, <2>2, <4>1, <4>2, RegionFacts
    <3> QED
      BY <1>6, <3>1, <3>2
  <2> QED
    BY <2>1, <2>2 DEF Ordered
<1>9. Within(list, HeapTop)
  <2>1. ASSUME NEW x \in DOMAIN list PROVE x < HeapTop /\ x + list[x] <= HeapTop
    <3>1. CASE \E r \in 1 .. LastRegion : x = Start(r) /\ list[x] = Marker(r) - Start(r)
      BY <3>1, RegionFacts
    <3>2. CASE \E r \in 1 .. LastRegion : x = Marker(r) /\ list[x] = 0 /\ Marker(r) # HeapTop
      <4>1. PICK r \in 1 .. LastRegion : x = Marker(r) /\ list[x] = 0 /\ Marker(r) # HeapTop
        BY <3>2
      <4>2. Marker(r) \in Nat /\ HeapTop \in Nat /\ Marker(r) <= HeapTop
        BY RegionFacts
      <4> QED
        BY <4>1, <4>2
    <3> QED
      BY <1>6, <3>1, <3>2
  <2> QED
    BY <2>1 DEF Within
<1>10. Apart(list)
  <2>1. ASSUME NEW x \in DOMAIN list, NEW y \in DOMAIN list, x < y, list[x] > 0, list[y] > 0
        PROVE  x + list[x] < y
    <3>1. PICK r \in 1 .. LastRegion : x = Start(r) /\ x + list[x] = Marker(r)
      BY <1>6, <2>1, RegionFacts
    <3>2. PICK s \in 1 .. LastRegion : y = Start(s)
      BY <1>6, <2>1
    <3> QED
      BY <1>7, <2>1, <3>1, <3>2
  <2> QED
    BY <2>1 DEF Apart
<1>11. Covered(list) = InAreas(Area)
  <2>1. ASSUME NEW u \in Covered(list) PROVE u \in InAreas(Area)
    <3>1. PICK x \in DOMAIN list : u \in Nat /\ x <= u /\ u < x + list[x]
      BY <1>8, InChunk
    <3>2. PICK r \in 1 .. LastRegion : x = Start(r) /\ x + list[x] = Marker(r)
      BY <1>6, <3>1, RegionFacts
    <3> QED
      BY <3>1, <3>2, UnitFacts
  <2>2. ASSUME NEW u \in InAreas(Area) PROVE u \in Covered(list)
    <3>1. PICK r \in 1 .. LastRegion : u \in Nat /\ Start(r) <= u /\ u < Marker(r)
      BY UnitFacts
    <3>2. Start(r) \in DOMAIN list /\ Start(r) + list[Start(r)] = Marker(r)
      BY <1>4, RegionFacts
    <3> QED
      BY <1>8, <3>1, <3>2, InChunk
  <2> QED
    BY <2>1, <2>2
<1>12. \A x \in DOMAIN list : list[x] = 0 => x \in Marks
  BY <1>6, RegionFacts DEF Marks
<1>13. Good(list, NoBlock, HeapTop, InAreas(Area), Marks)
  BY <1>8, <1>9, <1>10, <1>11, <1>12, NothingHeld DEF Good
<1> QED
  BY <1>13 DEF list

(* The list that tcm_heap_init makes. *)
LEMMA TcmDefinedGood == Good(With(NoBlock, Tcm[1], Tcm[2]), NoBlock, TcmTop, InAreas(TcmArea), {})
<1>1. Outside(NoBlock, Tcm[1], Tcm[2])
  BY NothingHeld DEF Outside
<1>2. PICK a \in Nat, n \in Nat \ {0} : a = Tcm[1] /\ n = Tcm[2] /\ a + n <= TcmTop
  BY TcmFacts DEF TcmTop
<1> DEFINE list == With(NoBlock, a, n)
<1>3. /\ Ordered(list) /\ Within(list, TcmTop)
      /\ Covered(list) = Covered(NoBlock) \cup a .. a + n - 1
      /\ \A x \in DOMAIN list : list[x] = n
  <2>1. /\ Ordered(NoBlock) /\ Within(NoBlock, TcmTop) /\ TcmTop \in Nat
        /\ Outside(NoBlock, a, n)
    BY <1>1, <1>2, NothingHeld, TcmFacts
  <2>2. /\ Ordered(list) /\ Within(list, TcmTop)
        /\ Covered(list) = Covered(NoBlock) \cup a .. a + n - 1
        /\ \A x \in DOMAIN list : list[x] = n \/ (x \in DOMAIN NoBlock /\ list[x] = NoBlock[x])
    <3> HIDE DEF list
    <3>1. list = With(NoBlock, a, n)
      BY DEF list
    <3> QED
      BY <1>2, <2>1, <3>1, AddKeeps
  <2> QED
    BY <2>2, NothingHeld
<1>4. DOMAIN list = {a}
  BY <1>2, NothingHeld DEF With
<1> HIDE DEF list
<1>5. Apart(list)
  BY <1>2, <1>4 DEF Apart
<1>6. Good(list, NoBlock, TcmTop, InAreas(TcmArea), {})
  BY <1>2, <1>3, <1>5, NothingHeld, TcmFacts DEF Good, TcmTop
<1> QED
  BY <1>2, <1>6 DEF list

-----------------------------------------------------------------------------
(* The inductive invariant.                                                *)

Answers == {"heap", "tcm"} \X Ask \X (Nat \cup {Null})

HeapGood ==
    /\ Good(List, used, HeapTop, InAreas(Area), Marks)
    /\ Remaining = Cardinality(Covered(List))
    /\ end \in {Null, HeapTop}
    /\ end = Null => free = NoBlock /\ used = NoBlock /\ remaining = 0
TcmGood ==
    /\ Good(TcmList, tcmUsed, TcmTop, InAreas(TcmArea), {})
    /\ tcmInited \in BOOLEAN
    /\ ~tcmInited => tcmFree = NoBlock /\ tcmUsed = NoBlock
IInv ==
    /\ HeapGood
    /\ TcmGood
    /\ answer = Null \/ answer \in Answers

(* Where the invariant of the heap is kept: its list is good, and the      *)
(* counter is what the list covers.                                        *)
LEMMA HeapKept ==
    ASSUME NEW more, NEW new, Good(new, more, HeapTop, InAreas(Area), Marks),
           free' = new, used' = more, end' = HeapTop,
           remaining' = Cardinality(Covered(new))
    PROVE  HeapGood'
<1>1. HeapTop \in Nat /\ HeapTop # Null
  BY RegionFacts, HeapAssumption
<1>2. List' = new /\ Remaining' = Cardinality(Covered(new)) /\ used' = more
  BY <1>1 DEF List, Remaining
<1>3. Good(List', used', HeapTop, InAreas(Area), Marks) /\ Remaining' = Cardinality(Covered(List'))
  BY <1>2
<1> QED
  BY <1>1, <1>3 DEF HeapGood

(* After the first call, or as if after it, the end of the list is past    *)
(* the last region.                                                        *)
LEMMA EndIs == HeapGood => End = HeapTop
BY DEF HeapGood, End, HeapTop

(* pvPortMalloc gives the units from the start of a chunk, and counts them. *)
LEMMA MallocGives ==
    ASSUME HeapGood, NEW w \in Ask, Malloc(w),
           Units(w) > 0, Units(w) <= Remaining, Enough(List, Units(w)) # {}
    PROVE  \E a \in DOMAIN List : \E m \in Nat \ {0} :
              /\ Units(w) <= m /\ m <= Units(w) + MinimumBlock /\ m <= List[a]
              /\ used' = With(used, a, m) /\ answer' = <<"heap", w, a>>
              /\ Good(free', used', HeapTop, InAreas(Area), Marks)
              /\ end' = HeapTop /\ remaining' = Remaining - m
<1>1. PICK n \in Nat \ {0} : n = Units(w)
  BY DEF Ask, Units
<1>2. PICK list : list = List
  OBVIOUS
<1>3. Good(list, used, HeapTop, InAreas(Area), Marks) /\ HeapTop \in Nat
  BY <1>2, RegionFacts DEF HeapGood
<1>4. \A x \in DOMAIN list : x \in Nat /\ list[x] \in Nat
  BY <1>3 DEF Good, Ordered
<1>5. PICK a \in DOMAIN list : a = Min(Enough(list, n)) /\ list[a] >= n
  <2>1. Enough(list, n) \in SUBSET Nat /\ Enough(list, n) # {}
    BY <1>1, <1>2, <1>4 DEF Enough
  <2> QED
    BY <2>1, MinIs DEF Enough
<1>6. PICK size \in Nat : size = list[a]
  BY <1>4
<1>7. /\ end' = HeapTop
      /\ free' = IF Splits(size, n)
                 THEN Insert(Without(list, {a}), HeapTop, a + n, size - n) ELSE Without(list, {a})
      /\ used' = With(used, a, IF Splits(size, n) THEN n ELSE size)
      /\ remaining' = Remaining - Taken(size, n)
      /\ answer' = <<"heap", w, a>>
  BY <1>1, <1>2, <1>5, <1>6, EndIs DEF Malloc
<1>8. CASE Splits(size, n)
  <2>1. n < list[a] /\ Taken(size, n) = n /\ n \in Nat \ {0}
    BY <1>1, <1>6, <1>8 DEF Splits, Taken, MinimumBlock
  <2>2. free' = Insert(Without(list, {a}), HeapTop, a + n, list[a] - n) /\ used' = With(used, a, n)
    BY <1>6, <1>7, <1>8
  <2>3. Good(Insert(Without(list, {a}), HeapTop, a + n, list[a] - n), With(used, a, n),
             HeapTop, InAreas(Area), Marks)
    BY <1>3, <2>1, TakeFirst
  <2>4. Good(free', used', HeapTop, InAreas(Area), Marks)
    BY <2>2, <2>3
  <2>5. /\ a \in DOMAIN List /\ n <= List[a] /\ Units(w) <= n /\ n <= Units(w) + MinimumBlock
        /\ remaining' = Remaining - n
    BY <1>1, <1>2, <1>5, <1>7, <2>1 DEF MinimumBlock
  <2> QED
    BY <1>7, <2>1, <2>2, <2>4, <2>5
<1>9. CASE ~Splits(size, n)
  <2>1. /\ size \in Nat \ {0} /\ size <= n + MinimumBlock /\ n <= size
        /\ Taken(size, n) = size /\ list[a] > 0
    BY <1>1, <1>5, <1>6, <1>9 DEF Splits, Taken, MinimumBlock
  <2>2. free' = Without(list, {a}) /\ used' = With(used, a, list[a])
    BY <1>6, <1>7, <1>9
  <2>3. Good(Without(list, {a}), With(used, a, list[a]), HeapTop, InAreas(Area), Marks)
    BY <1>3, <2>1, TakeAll
  <2>4. Good(free', used', HeapTop, InAreas(Area), Marks)
    BY <2>2, <2>3
  <2> QED
    BY <1>1, <1>2, <1>6, <1>7, <2>1, <2>2, <2>4
<1> QED
  BY <1>8, <1>9

(* pvPortMalloc changes nothing when it gives nothing. *)
LEMMA MallocRefuses ==
    ASSUME HeapGood, NEW w \in Ask, Malloc(w),
           ~(Units(w) > 0 /\ Units(w) <= Remaining /\ Enough(List, Units(w)) # {})
    PROVE  /\ free' = List /\ remaining' = Remaining /\ used' = used /\ end' = HeapTop
           /\ answer' = <<"heap", w, Null>>
BY EndIs DEF Malloc

(* pvPortMalloc keeps the invariant. *)
LEMMA MallocKeeps ==
    ASSUME IInv, NEW w \in Ask, Malloc(w) PROVE IInv'
<1>1. HeapGood /\ TcmGood
  BY DEF IInv
<1>2. TcmGood'
  BY <1>1 DEF Malloc, tcmVars, TcmGood, TcmList
<1>3. HeapGood' /\ answer' \in Answers
  <2>1. CASE Units(w) > 0 /\ Units(w) <= Remaining /\ Enough(List, Units(w)) # {}
    <3>1. PICK a \in DOMAIN List : \E m \in Nat \ {0} :
              /\ Units(w) <= m /\ m <= Units(w) + MinimumBlock /\ m <= List[a]
              /\ used' = With(used, a, m) /\ answer' = <<"heap", w, a>>
              /\ Good(free', used', HeapTop, InAreas(Area), Marks)
              /\ end' = HeapTop /\ remaining' = Remaining - m
      BY <1>1, <2>1, MallocGives
    <3>2. PICK m \in Nat \ {0} :
              /\ m <= List[a]
              /\ used' = With(used, a, m) /\ answer' = <<"heap", w, a>>
              /\ Good(free', used', HeapTop, InAreas(Area), Marks)
              /\ end' = HeapTop /\ remaining' = Remaining - m
      BY <3>1
    <3>3. PICK list : list = List
      OBVIOUS
    <3>4. PICK new, more : new = free' /\ more = used'
      OBVIOUS
    <3>5. Good(list, used, HeapTop, InAreas(Area), Marks) /\ Good(new, more, HeapTop, InAreas(Area), Marks)
      BY <1>1, <3>2, <3>3, <3>4 DEF HeapGood
    <3>6. Outside(used, a, m) /\ a \in Nat /\ a + m <= HeapTop
      <4>1. a \in Nat /\ list[a] \in Nat /\ a + m <= a + list[a] /\ a + list[a] <= HeapTop
        BY <3>2, <3>3, <3>5 DEF Good, Ordered, Within
      <4> QED
        BY <3>3, <3>5, <4>1, FreeOutsideHeld, RegionFacts
    <3>7. Covered(more) = Covered(used) \cup a .. a + m - 1
      BY <3>2, <3>4, <3>5, <3>6, AddKeeps, RegionFacts DEF Good
    <3>8. (a .. a + m - 1) \cap Covered(used) = {}
      <4>1. \A u \in Nat : a <= u /\ u < a + m => u \in Covered(list)
        BY <3>2, <3>3, <3>5, <3>6, InChunk DEF Good, Ordered
      <4> QED
        BY <3>5, <3>6, <4>1 DEF Good
    <3>9. Cardinality(Covered(list)) = Cardinality(Covered(new)) + m
      BY <3>5, <3>6, <3>7, <3>8, CoveredLess, UnitFacts
    <3>10. Cardinality(Covered(new)) \in Nat
      BY <3>5, UnitFacts, FS_Subset, FS_CardinalityType DEF Good
    <3>11. remaining' = Cardinality(Covered(new))
      BY <1>1, <3>2, <3>3, <3>9, <3>10 DEF HeapGood
    <3>12. HeapGood'
      BY <3>2, <3>4, <3>5, <3>11, HeapKept
    <3> QED
      BY <3>2, <3>6, <3>12 DEF Answers
  <2>2. CASE ~(Units(w) > 0 /\ Units(w) <= Remaining /\ Enough(List, Units(w)) # {})
    <3>1. /\ free' = List /\ remaining' = Remaining /\ used' = used /\ end' = HeapTop
          /\ answer' = <<"heap", w, Null>>
      BY <1>1, <2>2, MallocRefuses
    <3>2. HeapGood'
      BY <1>1, <3>1, HeapKept DEF HeapGood
    <3> QED
      BY <3>1, <3>2 DEF Answers
  <2> QED
    BY <2>1, <2>2
<1> QED
  BY <1>2, <1>3 DEF IInv

(* No block of the heap lies where __vPortFree takes it for one of the     *)
(* other heap, and all of the other heap does.                             *)
LEMMA HeapConstants ==
    /\ Marks \cap InAreas(Area) = {} /\ HeapTop \in Nat /\ HeapTop # Null
    /\ \A a : Ext(a) /\ a \in DOMAIN used /\ IInv => FALSE
    /\ \A a \in DOMAIN tcmUsed : IInv => Ext(a)
<1>1. Marks \cap InAreas(Area) = {} /\ HeapTop \in Nat /\ HeapTop # Null
  BY UnitFacts, RegionFacts, HeapAssumption
<1>2. ASSUME IInv, NEW a \in DOMAIN used, Ext(a) PROVE FALSE
  <2>1. a \in Nat /\ a < HeapTop
    BY <1>2 DEF IInv, HeapGood, Good, Ordered, Within
  <2> QED
    BY <1>1, <1>2, <2>1, HeapAssumption DEF Ext, HeapTop, LastRegion
<1>3. ASSUME IInv, NEW a \in DOMAIN tcmUsed PROVE Ext(a)
  <2>1. a \in Nat /\ tcmUsed[a] \in Nat \ {0} /\ Covered(tcmUsed) \subseteq InAreas(TcmArea)
        /\ Ordered(tcmUsed)
    BY <1>3 DEF IInv, TcmGood, Good, Ordered
  <2>2. a \in InAreas(TcmArea)
    BY <2>1, InChunk
  <2> QED
    BY <2>1, <2>2, TcmFacts, HeapAssumption DEF Ext, TcmTop
<1> QED
  BY <1>1, <1>2, <1>3

(* __vPortFree *)
LEMMA PortFreeKeeps ==
    ASSUME IInv, NEW a, PortFree(a) PROVE IInv'
<1>1. HeapGood /\ TcmGood /\ a \in DOMAIN used
  BY DEF IInv, PortFree
<1>2. TcmGood'
  BY <1>1 DEF PortFree, tcmVars, TcmGood, TcmList
<1>3. end = HeapTop /\ end # Null
  BY <1>1, HeapConstants, NothingHeld DEF HeapGood
<1>4. Good(free, used, HeapTop, InAreas(Area), Marks) /\ remaining = Cardinality(Covered(free))
  BY <1>1, <1>3 DEF HeapGood, List, Remaining
<1>5. PICK m \in Nat \ {0} : m = used[a]
  BY <1>1, <1>4 DEF Good, Ordered
<1>6. PICK new, more : new = free' /\ more = used'
  OBVIOUS
<1>7. a \in Nat
  BY <1>1, <1>4 DEF Good, Ordered
<1>8. Good(new, more, HeapTop, InAreas(Area), Marks)
  <2>1. new = Insert(free, HeapTop, a, used[a]) /\ more = Without(used, {a})
    BY <1>3, <1>6 DEF PortFree
  <2> QED
    BY <1>1, <1>4, <2>1, HeapConstants, GiveBack
<1>9. Covered(more) = Covered(used) \ (a .. a + m - 1)
  BY <1>1, <1>4, <1>5, <1>6, RemoveKeeps, HeapConstants DEF Good, PortFree
<1>10. \A u \in a .. a + m - 1 : u \in Covered(used)
  BY <1>1, <1>4, <1>5, <1>7, InChunk DEF Good
<1>11. Cardinality(Covered(new)) = Cardinality(Covered(free)) + m
  <2>1. Covered(used) = Covered(more) \cup a .. a + m - 1 /\ (a .. a + m - 1) \cap Covered(more) = {}
    BY <1>9, <1>10
  <2> QED
    BY <1>4, <1>7, <1>8, <2>1, CoveredLess, UnitFacts
<1>12. HeapGood'
  <2>1. remaining' = Cardinality(Covered(new)) /\ end' = HeapTop
    BY <1>3, <1>4, <1>5, <1>11 DEF PortFree
  <2> QED
    BY <1>6, <1>8, <2>1, HeapKept
<1> QED
  BY <1>2, <1>12 DEF IInv, PortFree

(* tcm_heap_malloc gives the units from the end of a chunk. *)
LEMMA TcmGives ==
    ASSUME TcmGood, NEW w \in Ask, TcmMalloc(w), Enough(TcmList, TcmUnits(w)) # {}
    PROVE  \E x \in DOMAIN TcmList : \E a \in Nat :
              /\ TcmUnits(w) \in Nat \ {0} /\ x <= a /\ a + TcmUnits(w) = x + TcmList[x]
              /\ tcmUsed' = With(tcmUsed, a, TcmUnits(w)) /\ answer' = <<"tcm", w, a>>
              /\ Good(tcmFree', tcmUsed', TcmTop, InAreas(TcmArea), {})
<1>1. PICK n \in Nat \ {0} : n = TcmUnits(w)
  BY DEF Ask, TcmUnits
<1>2. PICK list : list = TcmList
  OBVIOUS
<1>3. Good(list, tcmUsed, TcmTop, InAreas(TcmArea), {}) /\ TcmTop \in Nat
  BY <1>2, TcmFacts DEF TcmGood
<1>4. \A x \in DOMAIN list : x \in Nat /\ list[x] \in Nat
  BY <1>3 DEF Good, Ordered
<1>5. PICK x \in DOMAIN list : x = Min(Enough(list, n)) /\ list[x] >= n
  <2>1. Enough(list, n) \in SUBSET Nat /\ Enough(list, n) # {}
    BY <1>1, <1>2, <1>4 DEF Enough
  <2> QED
    BY <2>1, MinIs DEF Enough
<1>6. PICK size \in Nat : size = list[x]
  BY <1>4
<1>7. PICK a \in Nat : a = x + size - n /\ x <= a /\ a + n = x + list[x]
  BY <1>1, <1>4, <1>5, <1>6
<1>8. /\ tcmFree' = IF size = n THEN Without(list, {x}) ELSE With(list, x, size - n)
      /\ tcmUsed' = With(tcmUsed, a, n)
      /\ answer' = <<"tcm", w, a>>
  BY <1>1, <1>2, <1>5, <1>6, <1>7 DEF TcmMalloc, TcmCut
<1>9. Good(tcmFree', tcmUsed', TcmTop, InAreas(TcmArea), {})
  <2>1. CASE size = n
    <3>0. list[x] > 0
      BY <1>1, <1>6, <2>1
    <3>1. Good(Without(list, {x}), With(tcmUsed, x, list[x]), TcmTop, InAreas(TcmArea), {})
      BY <1>3, <3>0, TakeAll
    <3>2. a = x /\ n = list[x] /\ tcmFree' = Without(list, {x})
      BY <1>1, <1>4, <1>6, <1>7, <1>8, <2>1
    <3> QED
      BY <1>8, <3>1, <3>2
  <2>2. CASE size # n
    <3>1. n < list[x]
      BY <1>1, <1>5, <1>6, <2>2
    <3>2. Good(With(list, x, list[x] - n), With(tcmUsed, x + list[x] - n, n),
               TcmTop, InAreas(TcmArea), {})
      BY <1>1, <1>3, <3>1, TakeLast
    <3> QED
      BY <1>6, <1>7, <1>8, <2>2, <3>2
  <2> QED
    BY <2>1, <2>2
<1> QED
  BY <1>1, <1>2, <1>7, <1>8, <1>9

(* tcm_heap_malloc keeps the invariant. *)
LEMMA TcmMallocKeeps ==
    ASSUME IInv, NEW w \in Ask, TcmMalloc(w) PROVE IInv'
<1>1. HeapGood /\ TcmGood
  BY DEF IInv
<1>2. HeapGood'
  BY <1>1 DEF TcmMalloc, heapVars, HeapGood, List, Remaining
<1>3. TcmGood' /\ answer' \in Answers
  <2>1. tcmInited' = TRUE /\ TcmList' = tcmFree'
    BY DEF TcmMalloc, TcmList
  <2>2. CASE Enough(TcmList, TcmUnits(w)) # {}
    <3>1. PICK a \in Nat :
             answer' = <<"tcm", w, a>> /\ Good(tcmFree', tcmUsed', TcmTop, InAreas(TcmArea), {})
      BY <1>1, <2>2, TcmGives
    <3>2. TcmGood'
      BY <2>1, <3>1 DEF TcmGood
    <3> QED
      BY <3>1, <3>2 DEF Answers
  <2>3. CASE Enough(TcmList, TcmUnits(w)) = {}
    <3>1. tcmFree' = TcmList /\ tcmUsed' = tcmUsed /\ answer' = <<"tcm", w, Null>>
      BY <2>3 DEF TcmMalloc
    <3>2. TcmGood'
      BY <1>1, <2>1, <3>1 DEF TcmGood
    <3> QED
      BY <3>1, <3>2 DEF Answers
  <2> QED
    BY <2>2, <2>3
<1> QED
  BY <1>2, <1>3 DEF IInv

(* tcm_heap_free *)
LEMMA TcmFreeKeeps ==
    ASSUME IInv, NEW a, TcmHeapFree(a) PROVE IInv'
<1>1. HeapGood /\ TcmGood /\ a \in DOMAIN tcmUsed
  BY DEF IInv, TcmHeapFree
<1>2. HeapGood'
  BY <1>1 DEF TcmHeapFree, heapVars, HeapGood, List, Remaining
<1>3. tcmInited = TRUE /\ TcmList = tcmFree
  BY <1>1, NothingHeld DEF TcmGood, TcmList
<1>4. Good(tcmFree, tcmUsed, TcmTop, InAreas(TcmArea), {})
  BY <1>1, <1>3 DEF TcmGood
<1>5. Good(Insert(tcmFree, Null, a, tcmUsed[a]), Without(tcmUsed, {a}), TcmTop, InAreas(TcmArea), {})
  BY <1>1, <1>4, TcmFacts, GiveBack
<1>6. TcmGood'
  BY <1>3, <1>5 DEF TcmHeapFree, TcmGood, TcmList
<1> QED
  BY <1>2, <1>6 DEF IInv, TcmHeapFree

(* The heaps start in the inductive invariant. *)
LEMMA InitInv == Init => IInv
<1> SUFFICES ASSUME Init PROVE IInv
  OBVIOUS
<1>1. PICK list : list = DefinedList
  OBVIOUS
<1>2. List = list /\ Remaining = Sizes(list) /\ TcmList = With(NoBlock, Tcm[1], Tcm[2])
  BY <1>1, Zenon DEF Init, List, Remaining, TcmList
<1>3. Good(list, NoBlock, HeapTop, InAreas(Area), Marks)
  BY <1>1, DefinedGood
<1>4. Sizes(list) = Cardinality(Covered(list))
  BY <1>3, SizesAreUnits, RegionFacts DEF Good, Within
<1> QED
  BY <1>2, <1>3, <1>4, TcmDefinedGood DEF Init, IInv, HeapGood, TcmGood

(* Every step keeps the inductive invariant. *)
LEMMA NextInv == IInv /\ [Next]_vars => IInv'
<1> SUFFICES ASSUME IInv, [Next]_vars PROVE IInv'
  OBVIOUS
<1>1. ASSUME NEW w \in Ask, Malloc(w) PROVE IInv'
  BY <1>1, MallocKeeps
<1>2. ASSUME NEW w \in Ask, TcmMalloc(w) PROVE IInv'
  BY <1>2, TcmMallocKeeps
<1>3. ASSUME NEW a, Free(a) PROVE IInv'
  BY <1>3, PortFreeKeeps, TcmFreeKeeps DEF Free
<1>4. CASE UNCHANGED vars
  BY <1>4 DEF vars, heapVars, tcmVars, IInv, HeapGood, TcmGood, List, Remaining, TcmList
<1> QED
  BY <1>1, <1>2, <1>3, <1>4 DEF Next

(* The inductive invariant of both heaps, for any regions and any requests *)
(* (heap_5.c:121-586, tcm_heap.c:18-219).                                  *)
THEOREM Invariance == Spec => []IInv
BY InitInv, NextInv, PTL DEF Spec

-----------------------------------------------------------------------------
(* What the invariant gives.                                               *)

(* What a good list and its blocks are made of. *)
LEMMA ListTypes ==
    ASSUME NEW list, NEW held, NEW top, NEW units, NEW marks, Good(list, held, top, units, marks)
    PROVE  /\ DOMAIN list \subseteq units \cup marks
           /\ \A a \in DOMAIN list : list[a] \in Nat /\ (list[a] = 0 => a \in marks)
           /\ DOMAIN held \subseteq units /\ \A a \in DOMAIN held : held[a] \in Nat \ {0}
<1>1. /\ \A a \in DOMAIN list : a \in Nat /\ list[a] \in Nat
      /\ \A a \in DOMAIN held : a \in Nat /\ held[a] \in Nat \ {0}
  BY DEF Good, Ordered
<1>2. ASSUME NEW a \in DOMAIN list PROVE a \in units \cup marks
  <2>1. CASE list[a] = 0
    BY <2>1 DEF Good
  <2>2. CASE list[a] > 0
    BY <1>1, <2>2, InChunk DEF Good
  <2> QED
    BY <1>1, <2>1, <2>2
<1>3. ASSUME NEW a \in DOMAIN held PROVE a \in units
  BY <1>1, InChunk DEF Good
<1> QED
  BY <1>1, <1>2, <1>3 DEF Good

(* Every variable keeps its type, for any regions and requests. *)
THEOREM TypeCorrect == Spec => []TypeOK
<1>1. IInv => TypeOK
  <2> SUFFICES ASSUME IInv PROVE TypeOK
    OBVIOUS
  <2>1. /\ DOMAIN free \subseteq InAreas(Area) \cup Marks /\ \A a \in DOMAIN free : free[a] \in Nat
        /\ DOMAIN used \subseteq InAreas(Area) /\ \A a \in DOMAIN used : used[a] \in Nat \ {0}
        /\ remaining \in 0 .. Cardinality(InAreas(Area))
    <3>1. CASE end = Null
      BY <3>1, NothingHeld, UnitFacts DEF IInv, HeapGood
    <3>2. CASE end # Null
      <4>1. Good(free, used, HeapTop, InAreas(Area), Marks) /\ remaining = Cardinality(Covered(free))
        BY <3>2 DEF IInv, HeapGood, List, Remaining
      <4>2. Covered(free) \in SUBSET InAreas(Area)
        BY <4>1 DEF Good
      <4>3. Cardinality(Covered(free)) <= Cardinality(InAreas(Area)) /\ Cardinality(Covered(free)) \in Nat
        BY <4>2, UnitFacts, FS_Subset, FS_CardinalityType
      <4> QED
        BY <4>1, <4>3, ListTypes, UnitFacts
    <3> QED
      BY <3>1, <3>2
  <2>2. /\ DOMAIN tcmFree \subseteq InAreas(TcmArea)
        /\ \A a \in DOMAIN tcmFree : tcmFree[a] \in Nat \ {0}
        /\ DOMAIN tcmUsed \subseteq InAreas(TcmArea)
        /\ \A a \in DOMAIN tcmUsed : tcmUsed[a] \in Nat \ {0}
    <3>1. CASE ~tcmInited
      BY <3>1, NothingHeld DEF IInv, TcmGood
    <3>2. CASE tcmInited
      <4>1. Good(tcmFree, tcmUsed, TcmTop, InAreas(TcmArea), {})
        BY <3>2 DEF IInv, TcmGood, TcmList
      <4> QED
        BY <4>1, ListTypes
    <3> QED
      BY <3>1, <3>2
  <2>3. end \in {Null, Marker(LastRegion)} /\ tcmInited \in BOOLEAN
    BY DEF IInv, HeapGood, TcmGood, HeapTop
  <2>4. answer = Null \/ answer \in {"heap", "tcm"} \X Ask \X (Nat \cup {Null})
    BY DEF IInv, Answers
  <2> QED
    BY <2>1, <2>2, <2>3, <2>4 DEF TypeOK
<1> QED
  BY <1>1, Invariance, PTL

(* The free lists are the gaps between the blocks held, each as one chunk: *)
(* neither heap loses or overlaps a unit, and neighbours are always merged *)
(* (heap_5.c:441-499, tcm_heap.c:136-219).                                 *)
THEOREM Unfragmented == Spec => []FreeListIsGaps
<1>1. IInv => FreeListIsGaps
  <2> SUFFICES ASSUME IInv PROVE FreeListIsGaps
    OBVIOUS
  <2>1. ASSUME end # Null PROVE Chunks(free) = Gaps(used, Area)
    <3>1. Good(free, used, HeapTop, InAreas(Area), Marks)
      BY <2>1 DEF IInv, HeapGood, List
    <3> QED
      BY <3>1, ChunksAreGaps, UnitFacts
  <2>2. ASSUME tcmInited PROVE Chunks(tcmFree) = Gaps(tcmUsed, TcmArea)
    <3>1. Good(tcmFree, tcmUsed, TcmTop, InAreas(TcmArea), {})
      BY <2>2 DEF IInv, TcmGood, TcmList
    <3> QED
      BY <3>1, ChunksAreGaps, TcmFacts
  <2> QED
    BY <2>1, <2>2 DEF FreeListIsGaps
<1> QED
  BY <1>1, Invariance, PTL

(* xFreeBytesRemaining is what the free list adds up to                    *)
(* (heap_5.c:306, 388, 586).                                               *)
THEOREM Counted == Spec => []FreeBytesExact
<1>1. IInv => FreeBytesExact
  <2> SUFFICES ASSUME IInv PROVE remaining = Sizes(free)
    BY DEF FreeBytesExact
  <2>1. CASE end = Null
    <3>1. Sizes(NoBlock) = Cardinality(Covered(NoBlock))
      BY NothingHeld, SizesAreUnits
    <3> QED
      BY <2>1, <3>1, NothingHeld, FS_EmptySet DEF IInv, HeapGood
  <2>2. CASE end # Null
    <3>1. Good(free, used, HeapTop, InAreas(Area), Marks) /\ remaining = Cardinality(Covered(free))
      BY <2>2 DEF IInv, HeapGood, List, Remaining
    <3> QED
      BY <3>1, SizesAreUnits, RegionFacts DEF Good, Within
  <2> QED
    BY <2>1, <2>2
<1> QED
  BY <1>1, Invariance, PTL

-----------------------------------------------------------------------------
(* Each heap implements the abstract allocator.                            *)

(* The answer of the call that has just ended, as the allocator of either  *)
(* heap has it.                                                            *)
LEMMA AnswerIs ==
    /\ \A h, g \in {"heap", "tcm"}, w \in Ask, a \in Nat \cup {Null} : answer' = <<h, w, a>> =>
          AnswerOf(g)' = IF h = g THEN <<w, a>> ELSE Null
    /\ answer' = Null => \A g \in {"heap", "tcm"} : AnswerOf(g)' = Null
<1>1. ASSUME NEW h \in {"heap", "tcm"}, NEW g \in {"heap", "tcm"}, NEW w \in Ask,
             NEW a \in Nat \cup {Null}, answer' = <<h, w, a>>
      PROVE  AnswerOf(g)' = IF h = g THEN <<w, a>> ELSE Null
  <2>1. <<h, w, a>> # Null
    BY HeapAssumption DEF Ask
  <2>2. AnswerOf(g)' = IF <<h, w, a>> # Null /\ <<h, w, a>>[1] = g THEN Tail(<<h, w, a>>) ELSE Null
    BY <1>1 DEF AnswerOf
  <2>3. Tail(<<h, w, a>>) = <<w, a>>
    OBVIOUS
  <2> QED
    BY <2>1, <2>2, <2>3
<1> QED
  BY <1>1 DEF AnswerOf

(* The table of no blocks is the empty function. *)
LEMMA NoBlockIsEmpty == NoBlock = << >>
BY DEF NoBlock

(* Usable units in a row are in one region. *)
LEMMA InOneRegion ==
    ASSUME NEW a \in Nat, NEW n \in Nat \ {0}, \A u \in a .. a + n - 1 : u \in InAreas(Area)
    PROVE  \E x \in Area : x[1] \in Nat /\ x[2] \in Nat /\ x[1] <= a /\ a + n <= x[2]
<1>1. PICK r \in 1 .. LastRegion : Start(r) <= a /\ a < Marker(r)
  <2>1. a \in InAreas(Area)
    OBVIOUS
  <2> QED
    BY <2>1, UnitFacts
<1>2. a + n <= Marker(r)
  <2> SUFFICES ASSUME Marker(r) < a + n PROVE FALSE
    BY RegionFacts
  <2>1. Marker(r) \in a .. a + n - 1
    BY <1>1, RegionFacts
  <2> QED
    BY <2>1, UnitFacts DEF Marks
<1>3. <<Start(r), Marker(r)>> \in Area
  BY DEF Area
<1> QED
  BY <1>1, <1>2, <1>3, RegionFacts

(* Where a request fits, a chunk of the list is large enough. *)
LEMMA FitsInChunk ==
    ASSUME NEW list, NEW held, NEW top, NEW units, NEW marks, Good(list, held, top, units, marks),
           IsFiniteSet(units),
           NEW a \in Nat, NEW n \in Nat \ {0}, \A u \in a .. a + n - 1 : u \in units,
           \A b \in DOMAIN held : a + n <= b \/ b + held[b] <= a
    PROVE  Enough(list, n) # {} /\ n <= Cardinality(Covered(list))
<1>1. Ordered(list) /\ Apart(list) /\ Ordered(held)
  BY DEF Good
<1>2. \A b \in DOMAIN held : b \in Nat /\ held[b] \in Nat
  BY <1>1 DEF Ordered
<1>3. ASSUME NEW u \in a .. a + n - 1 PROVE u \in Covered(list)
  <2>1. u \notin Covered(held)
    BY <1>1, <1>2, InChunk
  <2> QED
    BY <2>1 DEF Good
<1>4. PICK x \in DOMAIN list : x <= a /\ a + n <= x + list[x]
  BY <1>1, <1>3, InOneChunk
<1>5. Enough(list, n) # {}
  BY <1>1, <1>4 DEF Enough, Ordered
<1>6. n <= Cardinality(Covered(list))
  <2>1. PICK b \in Int : b = a + n - 1
    OBVIOUS
  <2>2. a \in Int /\ ~(a > b)
    BY <2>1
  <2>3. Cardinality(a .. b) = IF a > b THEN 0 ELSE b - a + 1
    BY <2>2, FS_Interval, Zenon
  <2>4. a .. b \in SUBSET Covered(list) /\ IsFiniteSet(Covered(list))
    <3>1. IsFiniteSet(Covered(list))
      BY FS_Subset DEF Good
    <3> QED
      BY <1>3, <2>1, <3>1
  <2>5. Cardinality(a .. b) <= Cardinality(Covered(list))
    BY <2>4, FS_Subset, Zenon
  <2> QED
    BY <2>1, <2>2, <2>3, <2>5
<1> QED
  BY <1>5, <1>6

(* pvPortMalloc gives what the abstract allocator may give, and refuses    *)
(* when it may refuse.                                                     *)
LEMMA HeapMallocStep ==
    ASSUME IInv, NEW w \in Ask, Malloc(w)
    PROVE  HeapAllocator!Malloc(w) \/ HeapAllocator!Refuse(w)
<1>1. PICK list : list = List
  OBVIOUS
<1>2. /\ Good(list, used, HeapTop, InAreas(Area), Marks) /\ Remaining = Cardinality(Covered(list))
      /\ HeapGood
  BY <1>1 DEF IInv, HeapGood
<1>3. CASE Units(w) > 0 /\ Units(w) <= Remaining /\ Enough(List, Units(w)) # {}
  <2>1. PICK a \in DOMAIN list, m \in Nat \ {0} :
           /\ Units(w) <= m /\ m <= Units(w) + MinimumBlock /\ m <= list[a]
           /\ used' = With(used, a, m) /\ answer' = <<"heap", w, a>>
    BY <1>1, <1>2, <1>3, MallocGives
  <2>2. a \in Nat /\ list[a] \in Nat /\ Ordered(list)
    BY <1>2 DEF Good, Ordered
  <2>3. Outside(used, a, m)
    BY <1>2, <2>1, <2>2, FreeOutsideHeld
  <2>4. \A u \in a .. a + m - 1 : u \in InAreas(Area)
    <3>1. \A u \in a .. a + m - 1 : u \in Covered(list)
      BY <2>1, <2>2, InChunk
    <3> QED
      BY <1>2, <3>1 DEF Good
  <2>5. PICK x \in Area : x[1] \in Nat /\ x[2] \in Nat /\ x[1] <= a /\ a + m <= x[2]
    BY <2>2, <2>4, InOneRegion
  <2>6. HeapAllocator!Fits(a, m)
    <3>1. \A b \in DOMAIN used : a + m <= b \/ b + used[b] <= a
      BY <1>2, <2>2, <2>3 DEF Outside, Good, Ordered
    <3> QED
      BY <2>5, <3>1 DEF HeapAllocator!Fits
  <2>7. AnswerOf("heap")' = <<w, a>>
    BY <2>1, <2>2, AnswerIs
  <2>8. m \in Units(w) .. Units(w) + MinimumBlock /\ a \in x[1] .. x[2] - m
    BY <2>1, <2>2, <2>5 DEF Units, Ask, MinimumBlock
  <2>9. used' = [b \in DOMAIN used \cup {a} |-> IF b = a THEN m ELSE used[b]]
    BY <2>1 DEF With
  <2> QED
    BY <2>1, <2>6, <2>7, <2>8, <2>9 DEF HeapAllocator!Malloc
<1>4. CASE ~(Units(w) > 0 /\ Units(w) <= Remaining /\ Enough(List, Units(w)) # {})
  <2>1. used' = used /\ answer' = <<"heap", w, Null>>
    BY <1>2, <1>4, MallocRefuses
  <2>2. AnswerOf("heap")' = <<w, Null>>
    BY <2>1, AnswerIs
  <2>3. ASSUME Units(w) > 0, NEW x \in Area, NEW a \in x[1] .. x[2],
               HeapAllocator!Fits(a, Units(w))
        PROVE  FALSE
    <3>1. PICK n \in Nat \ {0} : n = Units(w)
      BY <2>3 DEF Units, Ask
    <3>2. PICK y \in Area : y[1] <= a /\ a + n <= y[2]
      BY <2>3, <3>1 DEF HeapAllocator!Fits
    <3>3. \A b \in DOMAIN used : a + n <= b \/ b + used[b] <= a
      BY <2>3, <3>1 DEF HeapAllocator!Fits
    <3>4. PICK r \in 1 .. LastRegion, s \in 1 .. LastRegion :
             x = <<Start(r), Marker(r)>> /\ y = <<Start(s), Marker(s)>>
      BY DEF Area
    <3>5. a \in Nat /\ Start(s) <= a /\ a + n <= Marker(s) /\ Marker(s) \in Nat
      BY <3>2, <3>4, RegionFacts
    <3>6. ASSUME NEW u \in a .. a + n - 1 PROVE u \in InAreas(Area)
      <4>1. u \in Nat /\ Start(s) <= u /\ u < Marker(s)
        BY <3>1, <3>5, RegionFacts
      <4> QED
        BY <4>1, UnitFacts
    <3> QED
      BY <1>1, <1>2, <1>4, <2>3, <3>1, <3>3, <3>5, <3>6, FitsInChunk, UnitFacts
  <2> QED
    BY <2>1, <2>2, <2>3 DEF HeapAllocator!Refuse
<1> QED
  BY <1>3, <1>4

(* The heap of heap_5.c implements the abstract allocator over its         *)
(* regions, step by step: it gives free units that lie together and        *)
(* refuses only a request that no such units fit (heap_5.c:212-404).       *)
THEOREM HeapImplemented == Spec => ImplementsHeap
<1>1. Init => HeapAllocator!Init
  BY NoBlockIsEmpty DEF Init, HeapAllocator!Init, AnswerOf
<1>2. IInv /\ [Next]_vars => [HeapAllocator!Next]_(<<used, AnswerOf("heap")>>)
  <2> SUFFICES ASSUME IInv, [Next]_vars PROVE [HeapAllocator!Next]_(<<used, AnswerOf("heap")>>)
    OBVIOUS
  <2>1. ASSUME NEW w \in Ask, Malloc(w) PROVE HeapAllocator!Next
    BY <2>1, HeapMallocStep DEF HeapAllocator!Next
  <2>2. ASSUME NEW w \in Ask, TcmMalloc(w) PROVE HeapAllocator!Next
    <3>1. used' = used
      BY <2>2 DEF TcmMalloc, heapVars
    <3>2. PICK a \in Nat \cup {Null} : answer' = <<"tcm", w, a>>
      <4>1. CASE Enough(TcmList, TcmUnits(w)) # {}
        BY <2>2, <4>1, TcmGives DEF IInv
      <4>2. CASE Enough(TcmList, TcmUnits(w)) = {}
        BY <2>2, <4>2 DEF TcmMalloc
      <4> QED
        BY <4>1, <4>2
    <3>3. AnswerOf("heap")' = Null
      BY <3>2, AnswerIs
    <3> QED
      BY <3>1, <3>3 DEF HeapAllocator!Next, HeapAllocator!Take
  <2>3. ASSUME NEW a, PortFree(a) PROVE HeapAllocator!Next
    <3>1. a \in DOMAIN used /\ used' = [b \in DOMAIN used \ {a} |-> used[b]] /\ answer' = Null
      BY <2>3 DEF PortFree, Without
    <3> QED
      BY <3>1, AnswerIs DEF HeapAllocator!Next, HeapAllocator!Free
  <2>4. ASSUME NEW a, TcmHeapFree(a) PROVE HeapAllocator!Next
    <3>1. used' = used /\ answer' = Null
      BY <2>4 DEF TcmHeapFree, heapVars
    <3> QED
      BY <3>1, AnswerIs DEF HeapAllocator!Next, HeapAllocator!Take
  <2>5. CASE UNCHANGED vars
    BY <2>5 DEF vars, heapVars, AnswerOf
  <2> QED
    BY <2>1, <2>2, <2>3, <2>4, <2>5 DEF Next, Free
<1> QED
  BY <1>1, <1>2, Invariance, PTL DEF Spec, ImplementsHeap, HeapAllocator!Spec

(* tcm_heap_malloc likewise. *)
LEMMA TcmMallocStep ==
    ASSUME IInv, NEW w \in Ask, TcmMalloc(w)
    PROVE  TcmAllocator!Malloc(w) \/ TcmAllocator!Refuse(w)
<1>1. PICK list : list = TcmList
  OBVIOUS
<1>2. TcmGood /\ Good(list, tcmUsed, TcmTop, InAreas(TcmArea), {})
  BY <1>1 DEF IInv, TcmGood
<1>3. PICK n \in Nat \ {0} : n = TcmUnits(w)
  BY DEF Ask, TcmUnits
<1>4. CASE Enough(TcmList, TcmUnits(w)) # {}
  <2>1. PICK z \in DOMAIN list, a \in Nat :
           /\ z <= a /\ a + n = z + list[z]
           /\ tcmUsed' = With(tcmUsed, a, n) /\ answer' = <<"tcm", w, a>>
    BY <1>1, <1>2, <1>3, <1>4, TcmGives
  <2>2. z \in Nat /\ list[z] \in Nat /\ Ordered(list)
    BY <1>2 DEF Good, Ordered
  <2>3. Outside(tcmUsed, a, n)
    BY <1>2, <2>1, <2>2, FreeOutsideHeld
  <2>4. Tcm[1] <= a /\ a + n <= TcmTop
    <3>1. \A u \in a .. a + n - 1 : u \in InAreas(TcmArea)
      <4>1. \A u \in a .. a + n - 1 : u \in Covered(list)
        BY <2>1, <2>2, InChunk
      <4> QED
        BY <1>2, <4>1 DEF Good
    <3>2. a \in Tcm[1] .. TcmTop - 1 /\ a + n - 1 \in Tcm[1] .. TcmTop - 1
      BY <3>1, TcmFacts
    <3> QED
      BY <3>2, TcmFacts
  <2>5. PICK x \in TcmArea : x = <<Tcm[1], TcmTop>>
    BY DEF TcmArea, TcmTop
  <2>6. TcmAllocator!Fits(a, n)
    <3>1. \A b \in DOMAIN tcmUsed : a + n <= b \/ b + tcmUsed[b] <= a
      BY <1>2, <2>3 DEF Outside, Good, Ordered
    <3> QED
      BY <2>4, <2>5, <3>1 DEF TcmAllocator!Fits
  <2>7. AnswerOf("tcm")' = <<w, a>>
    BY <2>1, AnswerIs
  <2>8. n \in TcmUnits(w) .. TcmUnits(w) + 0 /\ a \in x[1] .. x[2] - n
    BY <1>3, <2>4, <2>5, TcmFacts
  <2>9. tcmUsed' = [b \in DOMAIN tcmUsed \cup {a} |-> IF b = a THEN n ELSE tcmUsed[b]]
    BY <2>1 DEF With
  <2> QED
    BY <2>6, <2>7, <2>8, <2>9 DEF TcmAllocator!Malloc
<1>5. CASE Enough(TcmList, TcmUnits(w)) = {}
  <2>1. tcmUsed' = tcmUsed /\ answer' = <<"tcm", w, Null>>
    BY <1>5 DEF TcmMalloc
  <2>2. AnswerOf("tcm")' = <<w, Null>>
    BY <2>1, AnswerIs
  <2>3. ASSUME NEW x \in TcmArea, NEW a \in x[1] .. x[2], TcmAllocator!Fits(a, TcmUnits(w))
        PROVE  FALSE
    <3>1. PICK y \in TcmArea : y[1] <= a /\ a + n <= y[2]
      BY <1>3, <2>3 DEF TcmAllocator!Fits
    <3>2. \A b \in DOMAIN tcmUsed : a + n <= b \/ b + tcmUsed[b] <= a
      BY <1>3, <2>3 DEF TcmAllocator!Fits
    <3>3. a \in Nat /\ Tcm[1] <= a /\ a + n <= TcmTop
      BY <3>1, TcmFacts DEF TcmArea, TcmTop
    <3>4. \A u \in a .. a + n - 1 : u \in InAreas(TcmArea)
      BY <3>3, TcmFacts
    <3> QED
      BY <1>1, <1>2, <1>3, <1>5, <3>2, <3>3, <3>4, FitsInChunk, TcmFacts
  <2> QED
    BY <2>1, <2>2, <2>3 DEF TcmAllocator!Refuse
<1> QED
  BY <1>4, <1>5

(* So does that of tcm_heap.c over its one region (tcm_heap.c:71-219). *)
THEOREM TcmImplemented == Spec => ImplementsTcm
<1>1. Init => TcmAllocator!Init
  BY NoBlockIsEmpty DEF Init, TcmAllocator!Init, AnswerOf
<1>2. IInv /\ [Next]_vars => [TcmAllocator!Next]_(<<tcmUsed, AnswerOf("tcm")>>)
  <2> SUFFICES ASSUME IInv, [Next]_vars PROVE [TcmAllocator!Next]_(<<tcmUsed, AnswerOf("tcm")>>)
    OBVIOUS
  <2>1. ASSUME NEW w \in Ask, TcmMalloc(w) PROVE TcmAllocator!Next
    BY <2>1, TcmMallocStep DEF TcmAllocator!Next
  <2>2. ASSUME NEW w \in Ask, Malloc(w) PROVE TcmAllocator!Next
    <3>1. tcmUsed' = tcmUsed
      BY <2>2 DEF Malloc, tcmVars
    <3>2. PICK a \in Nat \cup {Null} : answer' = <<"heap", w, a>>
      <4>1. CASE Units(w) > 0 /\ Units(w) <= Remaining /\ Enough(List, Units(w)) # {}
        <5>1. PICK a \in DOMAIN List : answer' = <<"heap", w, a>>
          BY <2>2, <4>1, MallocGives DEF IInv
        <5>2. a \in Nat
          BY DEF IInv, HeapGood, Good, Ordered
        <5> QED
          BY <5>1, <5>2
      <4>2. CASE ~(Units(w) > 0 /\ Units(w) <= Remaining /\ Enough(List, Units(w)) # {})
        BY <2>2, <4>2, MallocRefuses DEF IInv
      <4> QED
        BY <4>1, <4>2
    <3>3. AnswerOf("tcm")' = Null
      BY <3>2, AnswerIs
    <3> QED
      BY <3>1, <3>3 DEF TcmAllocator!Next, TcmAllocator!Take
  <2>3. ASSUME NEW a, TcmHeapFree(a) PROVE TcmAllocator!Next
    <3>1. /\ a \in DOMAIN tcmUsed /\ tcmUsed' = [b \in DOMAIN tcmUsed \ {a} |-> tcmUsed[b]]
          /\ answer' = Null
      BY <2>3 DEF TcmHeapFree, Without
    <3> QED
      BY <3>1, AnswerIs DEF TcmAllocator!Next, TcmAllocator!Free
  <2>4. ASSUME NEW a, PortFree(a) PROVE TcmAllocator!Next
    <3>1. tcmUsed' = tcmUsed /\ answer' = Null
      BY <2>4 DEF PortFree, tcmVars
    <3> QED
      BY <3>1, AnswerIs DEF TcmAllocator!Next, TcmAllocator!Take
  <2>5. CASE UNCHANGED vars
    BY <2>5 DEF vars, tcmVars, AnswerOf
  <2> QED
    BY <2>1, <2>2, <2>3, <2>4, <2>5 DEF Next, Free
<1> QED
  BY <1>1, <1>2, Invariance, PTL DEF Spec, ImplementsTcm, TcmAllocator!Spec

=============================================================================
