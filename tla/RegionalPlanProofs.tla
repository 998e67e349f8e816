------------------------- MODULE RegionalPlanProofs -------------------------
(***************************************************************************)
(* What the functions of RegionalPlan compute, for requests of any size:   *)
(* the lemmas that the worker's theorems about edits and LoRA deltas rest  *)
(* on.  Induction is over sets: a set of naturals that holds zero and the  *)
(* successor of each member holds them all.                                *)
(***************************************************************************)
EXTENDS RegionalPlan, FiniteSetTheorems, SequenceTheorems, TLAPS

-----------------------------------------------------------------------------
(* Induction, and finite sets in order.                                    *)

Below == {mn \in Nat \X Nat : mn[1] < mn[2]}

LEMMA SetInduction ==
  ASSUME NEW T \in SUBSET Nat, 0 \in T, \A n \in T : n + 1 \in T
  PROVE  T = Nat
<1>1. IsWellFoundedOn(Below, Nat)
  BY NatLessThanWellFounded DEF Below, OpToRel
<1>2. SUFFICES ASSUME Nat \ T # {} PROVE FALSE
  OBVIOUS
<1>3. PICK x \in Nat \ T : \A y \in Nat \ T : <<y, x>> \notin Below
  BY <1>1, <1>2, WFMin
<1>4. x - 1 \in Nat /\ x - 1 < x /\ (x - 1) + 1 = x
  BY <1>3
<1>5. x - 1 \in T
  BY <1>3, <1>4 DEF Below
<1>6. QED
  BY <1>3, <1>4, <1>5

(* A relation that orders a set, and one that ranks it, ties allowed.      *)
Orders(before, S) ==
  /\ \A x \in S : <<x, x>> \notin before
  /\ \A x, y \in S : x # y => <<x, y>> \in before \/ <<y, x>> \in before
  /\ \A x, y, z \in S : <<x, y>> \in before /\ <<y, z>> \in before => <<x, z>> \in before
Ranks(before, S) ==
  /\ \A x \in S : <<x, x>> \notin before
  /\ \A x, y, z \in S : <<x, y>> \in before /\ <<y, z>> \in before => <<x, z>> \in before

LEMMA LastOfFinite ==
  ASSUME NEW S, IsFiniteSet(S), S # {}, NEW before, Ranks(before, S)
  PROVE  \E m \in S : \A x \in S : <<m, x>> \notin before
<1>. DEFINE Has(U) == \E m \in U : \A x \in U : <<m, x>> \notin before
            T == {n \in Nat : \A U \in SUBSET S : Cardinality(U) = n + 1 => Has(U)}
<1>1. 0 \in T
  <2>. SUFFICES ASSUME NEW U \in SUBSET S, Cardinality(U) = 1 PROVE Has(U)
    OBVIOUS
  <2>1. PICK a : U = {a}
    BY FS_Subset, FS_Singleton
  <2>2. QED
    BY <2>1 DEF Ranks
<1>2. ASSUME NEW n \in T PROVE n + 1 \in T
  <2>. SUFFICES ASSUME NEW U \in SUBSET S, Cardinality(U) = (n + 1) + 1 PROVE Has(U)
    OBVIOUS
  <2>1. IsFiniteSet(U) /\ U # {}
    BY FS_Subset, FS_EmptySet
  <2>2. PICK a \in U : TRUE
    BY <2>1
  <2>3. Cardinality(U \ {a}) = n + 1
    <3>1. n \in Nat
      OBVIOUS
    <3>2. Cardinality(U \ {a}) = Cardinality(U) - 1
      BY <2>1, <2>2, FS_RemoveElement
    <3>. QED
      BY <3>1, <3>2
  <2>4. PICK m \in U \ {a} : \A x \in U \ {a} : <<m, x>> \notin before
    BY <1>2, <2>3
  <2>5. CASE <<m, a>> \notin before
    BY <2>2, <2>4, <2>5
  <2>6. CASE <<m, a>> \in before
    <3>1. ASSUME NEW x \in U PROVE <<a, x>> \notin before
      BY <2>2, <2>4, <2>6, <3>1 DEF Ranks
    <3>2. QED
      BY <2>2, <3>1
  <2>7. QED
    BY <2>5, <2>6
<1>3. T = Nat
  <2>. HIDE DEF T
  <2>1. T \in SUBSET Nat
    BY DEF T
  <2>2. QED
    BY <1>1, <1>2, <2>1, SetInduction
<1>4. Cardinality(S) - 1 \in Nat
  BY FS_CardinalityType, FS_EmptySet
<1>5. \A U \in SUBSET S : Cardinality(U) = (Cardinality(S) - 1) + 1 => Has(U)
  BY <1>3, <1>4
<1>6. (Cardinality(S) - 1) + 1 = Cardinality(S)
  BY <1>4, FS_CardinalityType
<1>7. QED
  BY <1>5, <1>6

LEMMA Enumeration ==
  ASSUME NEW S, IsFiniteSet(S), NEW before, Orders(before, S)
  PROVE  /\ Cardinality(S) \in Nat
         /\ InOrder(S, before) \in [1..Cardinality(S) -> S]
         /\ \A j, k \in 1..Cardinality(S) :
              j < k => <<InOrder(S, before)[j], InOrder(S, before)[k]>> \in before
<1>. DEFINE Sorted(U, f) == \A j, k \in DOMAIN f : j < k => <<f[j], f[k]>> \in before
            T == {n \in Nat : \A U \in SUBSET S : Cardinality(U) = n =>
                                \E f \in [1..n -> U] : Sorted(U, f)}
<1>1. 0 \in T
  <2>. SUFFICES ASSUME NEW U \in SUBSET S, Cardinality(U) = 0
                PROVE  \E f \in [1..0 -> U] : Sorted(U, f)
    OBVIOUS
  <2>1. [i \in 1..0 |-> i] \in [1..0 -> U]
    OBVIOUS
  <2>2. Sorted(U, [i \in 1..0 |-> i])
    OBVIOUS
  <2>3. QED
    BY <2>1, <2>2
<1>2. ASSUME NEW n \in T PROVE n + 1 \in T
  <2>. SUFFICES ASSUME NEW U \in SUBSET S, Cardinality(U) = n + 1
                PROVE  \E f \in [1..(n + 1) -> U] : Sorted(U, f)
    OBVIOUS
  <2>1. IsFiniteSet(U) /\ U # {}
    BY FS_Subset, FS_EmptySet
  <2>2. PICK m \in U : \A x \in U : <<m, x>> \notin before
    BY <2>1, LastOfFinite DEF Orders, Ranks
  <2>3. Cardinality(U \ {m}) = n
    <3>1. n \in Nat
      OBVIOUS
    <3>2. Cardinality(U \ {m}) = Cardinality(U) - 1
      BY <2>1, <2>2, FS_RemoveElement
    <3>. QED
      BY <3>1, <3>2
  <2>4. PICK g \in [1..n -> U \ {m}] : Sorted(U \ {m}, g)
    BY <1>2, <2>3
  <2>. DEFINE f == [i \in 1..(n + 1) |-> IF i = n + 1 THEN m ELSE g[i]]
  <2>5. f \in [1..(n + 1) -> U]
    BY <2>2, <2>4
  <2>6. ASSUME NEW j \in 1..(n + 1), NEW k \in 1..(n + 1), j < k
        PROVE  <<f[j], f[k]>> \in before
    <3>1. j \in 1..n /\ f[j] = g[j] /\ g[j] \in U \ {m}
      BY <2>4, <2>6
    <3>2. CASE k = n + 1
      <4>1. f[k] = m
        BY <3>2
      <4>2. <<g[j], m>> \in before
        BY <2>2, <3>1 DEF Orders
      <4>3. QED
        BY <3>1, <4>1, <4>2
    <3>3. CASE k # n + 1
      BY <2>4, <2>6, <3>1, <3>3
    <3>4. QED
      BY <3>2, <3>3
  <2>7. QED
    BY <2>5, <2>6
<1>3. T = Nat
  <2>. HIDE DEF T
  <2>1. T \in SUBSET Nat
    BY DEF T
  <2>2. QED
    BY <1>1, <1>2, <2>1, SetInduction
<1>4. Cardinality(S) \in Nat
  BY FS_CardinalityType
<1>5. \E f \in [1..Cardinality(S) -> S] : Sorted(S, f)
  BY <1>3, <1>4
<1>6. /\ InOrder(S, before) \in [1..Cardinality(S) -> S]
      /\ Sorted(S, InOrder(S, before))
  BY <1>5 DEF InOrder
<1>7. QED
  BY <1>4, <1>6

(* Every member has exactly one place.                                     *)
LEMMA EnumerationOnto ==
  ASSUME NEW S, IsFiniteSet(S), NEW before, Orders(before, S)
  PROVE  LET f == InOrder(S, before)
         IN  /\ f \in [1..Cardinality(S) -> S] /\ Cardinality(S) \in Nat
             /\ \A j, k \in 1..Cardinality(S) : f[j] = f[k] => j = k
             /\ \A x \in S : \E k \in 1..Cardinality(S) : f[k] = x
<1>. DEFINE f == InOrder(S, before)
            N == Cardinality(S)
<1>1. /\ N \in Nat /\ f \in [1..N -> S]
      /\ \A j, k \in 1..N : j < k => <<f[j], f[k]>> \in before
  BY Enumeration
<1>. HIDE DEF f
<1>2. ASSUME NEW j \in 1..N, NEW k \in 1..N, f[j] = f[k] PROVE j = k
  <2>1. f[j] \in S
    BY <1>1
  <2>2. ~(j < k) /\ ~(k < j)
    BY <1>1, <1>2, <2>1 DEF Orders
  <2>3. QED
    BY <1>1, <2>2
<1>3. f \in Injection(1..N, S)
  BY <1>1, <1>2 DEF Injection, IsInjective
<1>4. IsFiniteSet(1..N) /\ Cardinality(1..N) = N
  BY <1>1, FS_Interval
<1>5. f \in Surjection(1..N, S)
  BY <1>3, <1>4, FS_Injection
<1>6. \A x \in S : \E k \in 1..N : f[k] = x
  BY <1>5 DEF Surjection
<1>7. QED
  BY <1>1, <1>2, <1>6 DEF f

(* The chosen members of a sequence are members of it, at the chosen       *)
(* places, each once.                                                      *)
LEMMA ChosenOnes ==
  ASSUME NEW X, NEW s \in Seq(X), NEW places \in SUBSET (DOMAIN s)
  PROVE  /\ Chosen(s, places) \in Seq({s[i] : i \in places})
         /\ Chosen(s, places) \in Seq(X)
         /\ \A k \in DOMAIN Chosen(s, places) : \E i \in places : Chosen(s, places)[k] = s[i]
         /\ \A i \in places : \E k \in DOMAIN Chosen(s, places) : Chosen(s, places)[k] = s[i]
<1>. DEFINE before == {ij \in places \X places : ij[1] < ij[2]}
            order == InOrder(places, before)
            N == Cardinality(places)
<1>1. places \subseteq Nat /\ IsFiniteSet(places)
  <2>1. DOMAIN s = 1..Len(s) /\ Len(s) \in Nat
    BY LenProperties
  <2>2. IsFiniteSet(1..Len(s))
    BY <2>1, FS_Interval
  <2>3. QED
    BY <2>1, <2>2, FS_Subset
<1>2. Orders(before, places)
  BY <1>1 DEF Orders
<1>. HIDE DEF before
<1>3. /\ order \in [1..N -> places] /\ N \in Nat
      /\ \A x \in places : \E k \in 1..N : order[k] = x
  BY <1>1, <1>2, EnumerationOnto
<1>4. Chosen(s, places) = [k \in 1..N |-> s[order[k]]]
  BY <1>3 DEF Chosen, before
<1>. HIDE DEF order
<1>5. \A i \in places : s[i] \in X
  BY ElementOfSeq, LenProperties
<1>6. \A k \in 1..N : order[k] \in places
  BY <1>3
<1>. DEFINE c == Chosen(s, places)
<1>7. c = [k \in 1..N |-> s[order[k]]]
  BY <1>4
<1>. HIDE DEF c, N
<1>8. c \in Seq({s[i] : i \in places}) /\ c \in Seq(X)
  <2>1. c \in [1..N -> {s[i] : i \in places}] /\ c \in [1..N -> X]
    BY <1>5, <1>6, <1>7
  <2>2. QED
    BY <1>3, <2>1, SeqDef
<1>9. DOMAIN c = 1..N /\ \A k \in 1..N : c[k] = s[order[k]]
  BY <1>7
<1>10. \A k \in DOMAIN c : \E i \in places : c[k] = s[i]
  BY <1>6, <1>9
<1>11. ASSUME NEW i \in places PROVE \E k \in DOMAIN c : c[k] = s[i]
  <2>1. PICK k \in 1..N : order[k] = i
    BY <1>3
  <2>2. k \in DOMAIN c /\ c[k] = s[i]
    BY <1>9, <2>1
  <2>3. QED
    BY <2>2
<1>12. QED
  BY <1>8, <1>10, <1>11 DEF c

(* Places that are in order pick places that are: the same member is not   *)
(* chosen twice.                                                           *)
LEMMA ChosenOnce ==
  ASSUME NEW X, NEW s \in Seq(X), NEW places \in SUBSET (DOMAIN s),
         \A i, j \in places : s[i] = s[j] => i = j
  PROVE  \A j, k \in DOMAIN Chosen(s, places) :
           Chosen(s, places)[j] = Chosen(s, places)[k] => j = k
<1>. DEFINE before == {ij \in places \X places : ij[1] < ij[2]}
            order == InOrder(places, before)
            N == Cardinality(places)
<1>1. places \subseteq Nat /\ IsFiniteSet(places)
  <2>1. DOMAIN s = 1..Len(s) /\ Len(s) \in Nat
    BY LenProperties
  <2>2. IsFiniteSet(1..Len(s))
    BY <2>1, FS_Interval
  <2>3. QED
    BY <2>1, <2>2, FS_Subset
<1>2. Orders(before, places)
  BY <1>1 DEF Orders
<1>. HIDE DEF before
<1>3. /\ order \in [1..N -> places] /\ N \in Nat
      /\ \A j, k \in 1..N : order[j] = order[k] => j = k
  BY <1>1, <1>2, EnumerationOnto
<1>4. Chosen(s, places) = [k \in 1..N |-> s[order[k]]]
  BY <1>3 DEF Chosen, before
<1>. HIDE DEF order, N
<1>5. QED
  BY <1>3, <1>4

-----------------------------------------------------------------------------
(* The active regions, by priority.                                        *)

DistinctIds(regions) ==
  \A i, j \in DOMAIN regions : regions[i].id = regions[j].id => i = j

LEMMA ActiveRegions ==
  ASSUME NEW regions \in Seq(RegionDefinition)
  PROVE  /\ Active(regions) \in Seq(RegionDefinition)
         /\ \A k \in DOMAIN Active(regions) :
              \E i \in Live(regions) : Active(regions)[k] = regions[i]
         /\ \A i \in Live(regions) :
              \E k \in DOMAIN Active(regions) : Active(regions)[k] = regions[i]
         /\ DistinctIds(regions) => DistinctIds(Active(regions))
<1>. DEFINE order == InOrder(Live(regions), Precedence(regions))
            N == Cardinality(Live(regions))
            a == Active(regions)
<1>1. /\ Live(regions) \subseteq DOMAIN regions /\ Live(regions) \subseteq Nat
      /\ IsFiniteSet(Live(regions))
  <2>1. DOMAIN regions = 1..Len(regions) /\ Len(regions) \in Nat
    BY LenProperties
  <2>2. IsFiniteSet(1..Len(regions)) /\ Live(regions) \subseteq 1..Len(regions)
    BY <2>1, FS_Interval DEF Live
  <2>3. QED
    BY <2>1, <2>2, FS_Subset
<1>2. \A i \in Live(regions) : regions[i] \in RegionDefinition /\ regions[i].priority \in Int
  <2>1. \A i \in Live(regions) : regions[i] \in RegionDefinition
    BY <1>1, ElementOfSeq, LenProperties
  <2>2. \A r \in RegionDefinition : r.priority \in Int
    BY DEF RegionDefinition
  <2>3. QED
    BY <2>1, <2>2
<1>3. Orders(Precedence(regions), Live(regions))
  <2>1. \A i, j \in Live(regions) : <<i, j>> \in Precedence(regions) <=>
           \/ regions[i].priority > regions[j].priority
           \/ regions[i].priority = regions[j].priority /\ i < j
    BY DEF Precedence
  <2>2. \A i \in Live(regions) : <<i, i>> \notin Precedence(regions)
    BY <1>1, <1>2, <2>1
  <2>3. \A i, j \in Live(regions) :
           i # j => <<i, j>> \in Precedence(regions) \/ <<j, i>> \in Precedence(regions)
    BY <1>1, <1>2, <2>1
  <2>4. ASSUME NEW i \in Live(regions), NEW j \in Live(regions), NEW k \in Live(regions),
               <<i, j>> \in Precedence(regions), <<j, k>> \in Precedence(regions)
        PROVE  <<i, k>> \in Precedence(regions)
    BY <1>1, <1>2, <2>1, <2>4
  <2>5. QED
    BY <2>2, <2>3, <2>4 DEF Orders
<1>4. /\ order \in [1..N -> Live(regions)] /\ N \in Nat
      /\ \A j, k \in 1..N : order[j] = order[k] => j = k
      /\ \A x \in Live(regions) : \E k \in 1..N : order[k] = x
  BY <1>1, <1>3, EnumerationOnto
<1>5. a = [k \in 1..N |-> regions[order[k]]]
  BY <1>4 DEF Active
<1>. HIDE DEF order, N, a
<1>6. DOMAIN a = 1..N /\ \A k \in 1..N : a[k] = regions[order[k]] /\ order[k] \in Live(regions)
  BY <1>4, <1>5
<1>7. a \in Seq(RegionDefinition)
  <2>1. a \in [1..N -> RegionDefinition]
    BY <1>2, <1>4, <1>5
  <2>2. QED
    BY <1>4, <2>1, SeqDef
<1>8. ASSUME NEW i \in Live(regions) PROVE \E k \in DOMAIN a : a[k] = regions[i]
  <2>1. PICK k \in 1..N : order[k] = i
    BY <1>4
  <2>2. QED
    BY <1>6, <2>1
<1>9. ASSUME DistinctIds(regions) PROVE DistinctIds(a)
  <2>1. SUFFICES ASSUME NEW j \in 1..N, NEW k \in 1..N, a[j].id = a[k].id PROVE j = k
    BY <1>6 DEF DistinctIds
  <2>2. order[j] = order[k]
    BY <1>1, <1>6, <1>9, <2>1 DEF DistinctIds
  <2>3. QED
    BY <1>4, <2>2
<1>10. \A k \in DOMAIN a : \E i \in Live(regions) : a[k] = regions[i]
  BY <1>6
<1>11. QED
  BY <1>7, <1>8, <1>9, <1>10 DEF a

-----------------------------------------------------------------------------
(* Faces.                                                                  *)

LEMMA Overlaps ==
  ASSUME NEW a \in PixelBox, NEW b \in PixelBox
  PROVE  Overlap(a, b) \in Nat /\ Area(a) \in Nat \ {0}
<1>. DEFINE p == Greater(0, Lesser(a.x1, b.x1) - Greater(a.x0, b.x0))
            q == Greater(0, Lesser(a.y1, b.y1) - Greater(a.y0, b.y0))
            u == a.x1 - a.x0
            v == a.y1 - a.y0
<1>1. /\ a.x0 \in Int /\ a.x1 \in Int /\ a.y0 \in Int /\ a.y1 \in Int
      /\ b.x0 \in Int /\ b.x1 \in Int /\ b.y0 \in Int /\ b.y1 \in Int
      /\ a.x0 < a.x1 /\ a.y0 < a.y1
  BY DEF PixelBox
<1>2. p \in Nat /\ q \in Nat /\ u \in Nat \ {0} /\ v \in Nat \ {0}
  BY <1>1 DEF Greater, Lesser
<1>3. Overlap(a, b) = p * q /\ Area(a) = u * v
  BY DEF Overlap, Area
<1>. HIDE DEF p, q, u, v
<1>4. p * q \in Nat /\ u * v \in Nat \ {0}
  BY <1>2
<1>5. QED
  BY <1>3, <1>4

LEMMA FractionsAreOrdered ==
  ASSUME NEW a1 \in Nat \ {0}, NEW a2 \in Nat \ {0}, NEW a3 \in Nat \ {0},
         NEW o1 \in Nat, NEW o2 \in Nat, NEW o3 \in Nat,
         o2 * a1 > o1 * a2, o3 * a2 > o2 * a3
  PROVE  o3 * a1 > o1 * a3
<1>1. (o2 * a1) * a3 > (o1 * a2) * a3
  <2>. DEFINE x == o2 * a1
              y == o1 * a2
  <2>1. x \in Nat /\ y \in Nat /\ x > y
    OBVIOUS
  <2>. HIDE DEF x, y
  <2>2. x * a3 > y * a3
    BY <2>1
  <2>. QED
    BY <2>2 DEF x, y
<1>2. (o3 * a2) * a1 > (o2 * a3) * a1
  <2>. DEFINE x == o3 * a2
              y == o2 * a3
  <2>1. x \in Nat /\ y \in Nat /\ x > y
    OBVIOUS
  <2>. HIDE DEF x, y
  <2>2. x * a1 > y * a1
    BY <2>1
  <2>. QED
    BY <2>2 DEF x, y
<1>3. (o3 * a1) * a2 > (o1 * a3) * a2
  <2>1. (o3 * a2) * a1 = (o3 * a1) * a2
    OBVIOUS
  <2>2. (o2 * a3) * a1 = (o2 * a1) * a3
    OBVIOUS
  <2>3. (o1 * a2) * a3 = (o1 * a3) * a2
    OBVIOUS
  <2>. DEFINE x == (o3 * a2) * a1
              y == (o2 * a3) * a1
              z == (o1 * a2) * a3
  <2>4. x \in Nat /\ y \in Nat /\ z \in Nat
    OBVIOUS
  <2>5. x > y /\ y > z
    BY <1>1, <1>2, <2>2
  <2>. HIDE DEF x, y, z
  <2>6. x > z
    BY <2>4, <2>5
  <2>. QED
    BY <2>1, <2>3, <2>6 DEF x, z
<1>4. QED
  <2>. DEFINE x == o3 * a1
              y == o1 * a3
  <2>1. x \in Nat /\ y \in Nat
    OBVIOUS
  <2>2. x * a2 > y * a2
    BY <1>3
  <2>. HIDE DEF x, y
  <2>3. x > y
    BY <2>1, <2>2
  <2>. QED
    BY <2>3 DEF x, y

LEMMA BestFace ==
  ASSUME NEW left \in SUBSET PixelBox, IsFiniteSet(left), left # {}, NEW box \in PixelBox
  PROVE  \E f \in left : \A g \in left : ~Better(g, f, box)
<1>. DEFINE worse == {fg \in left \X left : Better(fg[2], fg[1], box)}
<1>1. \A f, g \in left : <<f, g>> \in worse <=> Better(g, f, box)
  OBVIOUS
<1>. HIDE DEF worse
<1>2. \A f \in left : ~Better(f, f, box)
  BY Overlaps DEF Better
<1>3. ASSUME NEW f \in left, NEW g \in left, NEW h \in left, Better(g, f, box), Better(h, g, box)
      PROVE  Better(h, f, box)
  BY <1>3, Overlaps, FractionsAreOrdered DEF Better
<1>4. Ranks(worse, left)
  BY <1>1, <1>2, <1>3 DEF Ranks
<1>5. PICK m \in left : \A x \in left : <<m, x>> \notin worse
  BY <1>4, LastOfFinite
<1>6. QED
  BY <1>1, <1>5

Detail(faces) == [face : faces, loras : Seq(LoraSpecification)]

LEMMA LorasOfAFace ==
  ASSUME NEW loras \in Seq(LoraSpecification), NEW id
  PROVE  FaceLoras(loras, id) \in Seq(LoraSpecification)
<1>. DEFINE places == {i \in DOMAIN loras : /\ ~loras[i].global /\ loras[i].strength # 0
                                            /\ id \in loras[i].regions}
<1>1. places \in SUBSET (DOMAIN loras)
  OBVIOUS
<1>. HIDE DEF places
<1>2. Chosen(loras, places) \in Seq(LoraSpecification)
  BY <1>1, ChosenOnes
<1>3. QED
  BY <1>2 DEF FaceLoras, places

LEMMA RegionsForFaces ==
  ASSUME NEW regions \in Seq(RegionDefinition), NEW loras
  PROVE  FaceOrder(regions, loras) \in Seq(RegionDefinition)
<1>. DEFINE a == Active(regions)
            places == {k \in DOMAIN a : /\ FaceLoras(loras, a[k].id) # <<>>
                                        /\ a[k].role # "background"}
<1>1. a \in Seq(RegionDefinition) /\ places \in SUBSET (DOMAIN a)
  BY ActiveRegions
<1>. HIDE DEF a, places
<1>2. Chosen(a, places) \in Seq(RegionDefinition)
  BY <1>1, ChosenOnes
<1>3. QED
  BY <1>2 DEF FaceOrder, places, a

LEMMA FaceTaken ==
  ASSUME NEW faces \in SUBSET PixelBox, IsFiniteSet(faces),
         NEW loras \in Seq(LoraSpecification), NEW region \in RegionDefinition,
         NEW taken \in SUBSET Detail(faces), IsFiniteSet(taken)
  PROVE  /\ WithFace(taken, faces, region, loras) \in SUBSET Detail(faces)
         /\ IsFiniteSet(WithFace(taken, faces, region, loras))
<1>. DEFINE left == {f \in faces \ {t.face : t \in taken} : Matches(f, region.box)}
            best(f) == \A g \in left : ~Better(g, f, region.box)
            new == [face |-> CHOOSE f \in left : best(f), loras |-> FaceLoras(loras, region.id)]
<1>1. left \in SUBSET faces /\ left \in SUBSET PixelBox /\ IsFiniteSet(left)
  BY FS_Subset
<1>2. region.box \in PixelBox
  BY DEF RegionDefinition
<1>3. CASE left = {}
  BY <1>3 DEF WithFace
<1>4. CASE left # {}
  <2>1. \E f \in left : best(f)
    <3>. HIDE DEF left
    <3>. QED
      BY <1>1, <1>2, <1>4, BestFace
  <2>2. (CHOOSE f \in left : best(f)) \in faces
    BY <1>1, <2>1
  <2>3. new \in Detail(faces)
    BY <2>2, LorasOfAFace DEF Detail
  <2>4. WithFace(taken, faces, region, loras) = taken \cup {new}
    BY <1>4 DEF WithFace
  <2>. HIDE DEF new
  <2>5. QED
    BY <2>3, <2>4, FS_AddElement
<1>5. QED
  BY <1>3, <1>4

(* A recursive function over 0..n exists, and each value follows from the  *)
(* one before.                                                             *)
LEMMA FaceTargetsOf ==
  ASSUME NEW faces \in SUBSET PixelBox, IsFiniteSet(faces),
         NEW regions \in Seq(RegionDefinition), NEW loras \in Seq(LoraSpecification)
  PROVE  /\ FaceTargets(faces, regions, loras) \in SUBSET Detail(faces)
         /\ IsFiniteSet(FaceTargets(faces, regions, loras))
<1>. DEFINE order == FaceOrder(regions, loras)
            N == Len(order)
            D == {t \in SUBSET Detail(faces) : IsFiniteSet(t)}
            Follows(g, k) ==
              g[k] = IF k = 0 THEN {} ELSE WithFace(g[k - 1], faces, order[k], loras)
            P(n) == \E g \in [0..n -> D] : \A k \in 0..n : Follows(g, k)
            T == {n \in Nat : n <= N => P(n)}
<1>1. order \in Seq(RegionDefinition) /\ N \in Nat
  BY RegionsForFaces, LenProperties
<1>2. \A k \in 1..N : order[k] \in RegionDefinition
  BY <1>1, ElementOfSeq
<1>. HIDE DEF order, N
<1>3. {} \in D
  BY FS_EmptySet
<1>4. \A t \in D, k \in 1..N : WithFace(t, faces, order[k], loras) \in D
  BY <1>2, FaceTaken
<1>. HIDE DEF D
<1>5. 0 \in T
  <2>1. [k \in 0..0 |-> {}] \in [0..0 -> D]
    BY <1>3
  <2>2. \A k \in 0..0 : Follows([j \in 0..0 |-> {}], k)
    OBVIOUS
  <2>3. QED
    BY <2>1, <2>2
<1>6. ASSUME NEW n \in T PROVE n + 1 \in T
  <2>1. n \in Nat /\ (n <= N => P(n))
    <3>. HIDE DEF P
    <3>. QED
      OBVIOUS
  <2>. SUFFICES ASSUME n + 1 <= N PROVE P(n + 1)
    <3>. HIDE DEF P
    <3>. QED
      BY <2>1
  <2>2. PICK g \in [0..n -> D] : \A k \in 0..n : Follows(g, k)
    <3>1. n <= N
      BY <1>1, <2>1
    <3>2. QED
      BY <2>1, <3>1
  <2>. DEFINE w == WithFace(g[n], faces, order[n + 1], loras)
              h == [k \in 0..(n + 1) |-> IF k = n + 1 THEN w ELSE g[k]]
  <2>3. g[n] \in D /\ n + 1 \in 1..N
    BY <1>1, <2>1, <2>2
  <2>4. w \in D
    BY <1>4, <2>3
  <2>5. h \in [0..(n + 1) -> D]
    <3>. HIDE DEF w
    <3>. QED
      BY <2>1, <2>2, <2>4
  <2>6. ASSUME NEW k \in 0..(n + 1) PROVE Follows(h, k)
    <3>1. CASE k = n + 1
      <4>1. h[k] = w /\ h[k - 1] = g[n] /\ k # 0 /\ order[k] = order[n + 1]
        BY <2>1, <3>1
      <4>2. QED
        BY <4>1
    <3>2. CASE k # n + 1
      <4>1. k \in 0..n /\ h[k] = g[k] /\ (k # 0 => h[k - 1] = g[k - 1])
        BY <2>1, <3>2
      <4>2. QED
        BY <2>2, <4>1
    <3>3. QED
      BY <3>1, <3>2
  <2>7. QED
    BY <2>5, <2>6
<1>7. T = Nat
  <2>. HIDE DEF T
  <2>1. T \in SUBSET Nat
    BY DEF T
  <2>2. QED
    BY <1>5, <1>6, <2>1, SetInduction
<1>8. PICK g \in [0..N -> D] : \A k \in 0..N : Follows(g, k)
  <2>1. N \in T
    <3>. HIDE DEF T
    <3>. QED
      BY <1>1, <1>7
  <2>2. N <= N => \E g \in [0..N -> D] : \A k \in 0..N : Follows(g, k)
    BY <2>1
  <2>3. QED
    BY <1>1, <2>2
<1>. DEFINE body(f) == [k \in 0..N |-> IF k = 0 THEN {}
                                       ELSE WithFace(f[k - 1], faces, order[k], loras)]
            taken == CHOOSE f : f = body(f)
<1>9. g = body(g)
  BY <1>8
<1>10. taken = body(taken)
  BY <1>9
<1>11. FaceTargets(faces, regions, loras) = taken[N]
  BY DEF FaceTargets, order, N
<1>. DEFINE U == {n \in Nat : n <= N => taken[n] \in D}
<1>12. \A k \in 0..N : taken[k] = IF k = 0 THEN {}
                                  ELSE WithFace(taken[k - 1], faces, order[k], loras)
  <2>. HIDE DEF taken
  <2>. QED
    BY <1>10
<1>. HIDE DEF taken
<1>13. 0 \in U
  BY <1>1, <1>3, <1>12
<1>14. ASSUME NEW n \in U PROVE n + 1 \in U
  <2>1. SUFFICES ASSUME n + 1 <= N PROVE taken[n + 1] \in D
    OBVIOUS
  <2>2. n \in Nat /\ taken[n] \in D /\ n + 1 \in 1..N /\ (n + 1) - 1 = n
    BY <1>1, <2>1
  <2>3. taken[n + 1] = WithFace(taken[n], faces, order[n + 1], loras)
    BY <1>1, <1>12, <2>1, <2>2
  <2>4. QED
    BY <1>4, <2>2, <2>3
<1>15. U = Nat
  <2>. HIDE DEF U
  <2>1. U \in SUBSET Nat
    BY DEF U
  <2>2. QED
    BY <1>13, <1>14, <2>1, SetInduction
<1>16. taken[N] \in D
  BY <1>1, <1>15
<1>17. QED
  BY <1>11, <1>16 DEF D

-----------------------------------------------------------------------------
(* The crop of a face, one axis at a time, and the masks of an edit.       *)

LEMMA RoundedIsNear ==
  ASSUME NEW v \in Nat
  PROVE  Rounded(v) \in Nat /\ v - 1 <= 2 * Rounded(v) /\ 2 * Rounded(v) <= v + 1
  BY DEF Rounded

(* Where a crop begins on one axis, doubled.                               *)
Begin(a0, a1, w, side) == Lesser(Greater(a0 + a1 - side, 0), 2 * (w - side))

LEMMA CropAxis ==
  ASSUME NEW a0 \in Nat, NEW a1 \in Nat, NEW w \in Nat, NEW side \in Nat,
         a0 < a1, a1 <= w, 2 <= side, side <= w
  PROVE  LET c0 == Rounded(Begin(a0, a1, w, side))
             c1 == Lesser(w, Rounded(Begin(a0, a1, w, side) + 2 * side))
         IN  /\ c0 \in Nat /\ c1 \in Nat /\ c1 <= w /\ c1 - c0 >= side - 1
             /\ side >= 2 * (a1 - a0) => c0 <= a0 /\ a1 <= c1
<1>. DEFINE x  == Begin(a0, a1, w, side)
            c0 == Rounded(x)
            r1 == Rounded(x + 2 * side)
            c1 == Lesser(w, r1)
<1>. HIDE DEF x, c0, r1, c1
<1>1. /\ x \in Nat /\ x <= 2 * (w - side)
      /\ side >= 2 * (a1 - a0) => x <= 2 * a0 /\ 2 * a1 <= x + 2 * side
  BY DEF Lesser, Greater, Begin, x
<1>2. c0 \in Nat /\ x - 1 <= 2 * c0 /\ 2 * c0 <= x + 1
  BY <1>1, RoundedIsNear DEF c0
<1>3. r1 \in Nat /\ x + 2 * side - 1 <= 2 * r1 /\ 2 * r1 <= x + 2 * side + 1
  BY <1>1, RoundedIsNear DEF r1
<1>4. c1 \in Nat /\ c1 <= w /\ c1 - c0 >= side - 1
  BY <1>1, <1>2, <1>3 DEF Lesser, c1
<1>5. ASSUME side >= 2 * (a1 - a0) PROVE c0 <= a0 /\ a1 <= c1
  BY <1>1, <1>2, <1>3, <1>5 DEF Lesser, c1
<1>6. /\ c0 \in Nat /\ c1 \in Nat /\ c1 <= w /\ c1 - c0 >= side - 1
      /\ side >= 2 * (a1 - a0) => c0 <= a0 /\ a1 <= c1
  BY <1>2, <1>4, <1>5
<1>7. QED
  BY <1>6, Zenon DEF x, c0, r1, c1

LEMMA RefinedCrop ==
  ASSUME NEW face \in PixelBox, NEW w \in Nat, NEW h \in Nat, NEW padding \in Nat \ {0},
         NEW soft \in BOOLEAN, Lesser(w, h) >= 4,
         face.x0 >= 0, face.y0 >= 0, face.x1 <= w, face.y1 <= h,
         face.x1 - face.x0 >= 2, soft => face.x1 - face.x0 >= 4
  PROVE  LET p == RefinedPixels(face, w, h, padding, soft)
             longest == Greater(face.x1 - face.x0, face.y1 - face.y0)
         IN  /\ p # {} /\ p \subseteq Pixels(w, h)
             /\ padding > 1 /\ padding * longest <= Lesser(w, h) =>
                  (face.x0..(face.x1 - 1)) \X (face.y0..(face.y1 - 1))
                    \subseteq RefinedPixels(face, w, h, padding, FALSE)
<1>. DEFINE longest == Greater(face.x1 - face.x0, face.y1 - face.y0)
            side == Lesser(longest * padding, Lesser(w, h))
            c == FaceCrop(face, w, h, padding)
            edge == IF soft THEN 1 ELSE 0
<1>1. /\ face.x0 \in Nat /\ face.x1 \in Nat /\ face.y0 \in Nat /\ face.y1 \in Nat
      /\ face.x0 < face.x1 /\ face.y0 < face.y1
  BY DEF PixelBox
<1>2. /\ longest \in Nat /\ longest >= 2 /\ (soft => longest >= 4)
      /\ longest >= face.x1 - face.x0 /\ longest >= face.y1 - face.y0
  BY <1>1 DEF Greater
<1>3. /\ longest * padding \in Nat /\ longest * padding >= longest
      /\ padding * longest = longest * padding
      /\ padding > 1 => longest * padding >= 2 * longest
  <2>. HIDE DEF longest
  <2>1. PICK k \in Nat : padding = k + 1
    <3>1. padding - 1 \in Nat /\ padding = (padding - 1) + 1
      OBVIOUS
    <3>2. QED
      BY <3>1
  <2>2. longest * padding = longest * k + longest /\ longest * k \in Nat
    BY <1>2, <2>1
  <2>3. padding * longest = longest * padding
    BY <1>2
  <2>4. ASSUME padding > 1 PROVE longest * padding >= 2 * longest
    <3>1. PICK j \in Nat : k = j + 1
      <4>1. k - 1 \in Nat /\ k = (k - 1) + 1
        BY <2>1, <2>4
      <4>2. QED
        BY <4>1
    <3>2. longest * k = longest * j + longest /\ longest * j \in Nat
      BY <1>2, <3>1
    <3>3. QED
      BY <1>2, <2>2, <3>2
  <2>5. QED
    BY <1>2, <2>2, <2>3, <2>4
<1>. DEFINE area == longest * padding
<1>. HIDE DEF longest, area
<1>4. /\ side \in Nat /\ side >= 2 /\ side <= w /\ side <= h /\ (soft => side >= 4)
      /\ padding > 1 /\ padding * longest <= Lesser(w, h) =>
           side >= 2 * (face.x1 - face.x0) /\ side >= 2 * (face.y1 - face.y0)
  <2>1. /\ area \in Nat /\ area >= longest /\ padding * longest = area
        /\ padding > 1 => area >= 2 * longest
    BY <1>3 DEF area
  <2>2. side = Lesser(area, Lesser(w, h))
    BY DEF area
  <2>. HIDE DEF side
  <2>3. /\ side \in Nat /\ side >= 2 /\ side <= w /\ side <= h /\ (soft => side >= 4)
        /\ area <= Lesser(w, h) => side = area
    BY <1>2, <2>1, <2>2 DEF Lesser
  <2>4. QED
    BY <1>1, <1>2, <2>1, <2>3
<1>5. c = [x0 |-> Rounded(Begin(face.x0, face.x1, w, side)),
           y0 |-> Rounded(Begin(face.y0, face.y1, h, side)),
           x1 |-> Lesser(w, Rounded(Begin(face.x0, face.x1, w, side) + 2 * side)),
           y1 |-> Lesser(h, Rounded(Begin(face.y0, face.y1, h, side) + 2 * side))]
  BY DEF FaceCrop, longest, Begin
<1>. HIDE DEF side, c
<1>7. /\ c.x0 \in Nat /\ c.x1 \in Nat /\ c.x1 <= w /\ c.x1 - c.x0 >= side - 1
      /\ side >= 2 * (face.x1 - face.x0) => c.x0 <= face.x0 /\ face.x1 <= c.x1
  <2>. DEFINE a0 == face.x0
              a1 == face.x1
  <2>1. a0 \in Nat /\ a1 \in Nat /\ a0 < a1 /\ a1 <= w /\ 2 <= side /\ side <= w /\ side \in Nat
    BY <1>1, <1>4
  <2>2. /\ c.x0 = Rounded(Begin(a0, a1, w, side))
        /\ c.x1 = Lesser(w, Rounded(Begin(a0, a1, w, side) + 2 * side))
    BY <1>5
  <2>3. /\ c.x0 \in Nat /\ c.x1 \in Nat /\ c.x1 <= w /\ c.x1 - c.x0 >= side - 1
        /\ side >= 2 * (a1 - a0) => c.x0 <= a0 /\ a1 <= c.x1
    <3>. HIDE DEF a0, a1
    <3>1. QED
      BY <2>1, <2>2, CropAxis
  <2>4. QED
    BY <2>3
<1>8. /\ c.y0 \in Nat /\ c.y1 \in Nat /\ c.y1 <= h /\ c.y1 - c.y0 >= side - 1
      /\ side >= 2 * (face.y1 - face.y0) => c.y0 <= face.y0 /\ face.y1 <= c.y1
  <2>. DEFINE a0 == face.y0
              a1 == face.y1
  <2>1. a0 \in Nat /\ a1 \in Nat /\ a0 < a1 /\ a1 <= h /\ 2 <= side /\ side <= h /\ side \in Nat
    BY <1>1, <1>4
  <2>2. /\ c.y0 = Rounded(Begin(a0, a1, h, side))
        /\ c.y1 = Lesser(h, Rounded(Begin(a0, a1, h, side) + 2 * side))
    BY <1>5
  <2>3. /\ c.y0 \in Nat /\ c.y1 \in Nat /\ c.y1 <= h /\ c.y1 - c.y0 >= side - 1
        /\ side >= 2 * (a1 - a0) => c.y0 <= a0 /\ a1 <= c.y1
    <3>. HIDE DEF a0, a1
    <3>1. QED
      BY <2>1, <2>2, CropAxis
  <2>4. QED
    BY <2>3
<1>. DEFINE p == RefinedPixels(face, w, h, padding, soft)
<1>9. p = ((c.x0 + edge)..(c.x1 - 1 - edge)) \X ((c.y0 + edge)..(c.y1 - 1 - edge))
  BY DEF RefinedPixels, c
<1>10. RefinedPixels(face, w, h, padding, FALSE) = (c.x0..(c.x1 - 1)) \X (c.y0..(c.y1 - 1))
  <2>. DEFINE none == IF FALSE THEN 1 ELSE 0
  <2>1. RefinedPixels(face, w, h, padding, FALSE)
          = ((c.x0 + none)..(c.x1 - 1 - none)) \X ((c.y0 + none)..(c.y1 - 1 - none))
    BY DEF RefinedPixels, c
  <2>2. none = 0
    OBVIOUS
  <2>. HIDE DEF none
  <2>3. c.x0 + none = c.x0 /\ c.x1 - 1 - none = c.x1 - 1
        /\ c.y0 + none = c.y0 /\ c.y1 - 1 - none = c.y1 - 1
    BY <1>7, <1>8, <2>2
  <2>4. QED
    BY <2>1, <2>3
<1>11. edge \in 0..1 /\ c.x0 + edge <= c.x1 - 1 - edge /\ c.y0 + edge <= c.y1 - 1 - edge
  BY <1>4, <1>7, <1>8
<1>. HIDE DEF p, edge
<1>12. <<c.x0 + edge, c.y0 + edge>> \in p
  BY <1>7, <1>8, <1>9, <1>11
<1>13. p \subseteq Pixels(w, h)
  <2>1. (c.x0 + edge)..(c.x1 - 1 - edge) \subseteq 0..(w - 1)
    BY <1>7, <1>11
  <2>2. (c.y0 + edge)..(c.y1 - 1 - edge) \subseteq 0..(h - 1)
    BY <1>8, <1>11
  <2>3. QED
    BY <1>9, <2>1, <2>2 DEF Pixels
<1>14. ASSUME padding > 1, padding * longest <= Lesser(w, h)
       PROVE  (face.x0..(face.x1 - 1)) \X (face.y0..(face.y1 - 1))
                \subseteq RefinedPixels(face, w, h, padding, FALSE)
  <2>1. face.x0..(face.x1 - 1) \subseteq c.x0..(c.x1 - 1)
    BY <1>1, <1>4, <1>7, <1>14
  <2>2. face.y0..(face.y1 - 1) \subseteq c.y0..(c.y1 - 1)
    BY <1>1, <1>4, <1>8, <1>14
  <2>3. QED
    BY <1>10, <2>1, <2>2
<1>15. QED
  BY <1>12, <1>13, <1>14 DEF p, longest

LEMMA AlignedUp ==
  ASSUME NEW v \in Nat, NEW a \in Nat \ {0}
  PROVE  AlignUp(v, a) \in Nat /\ AlignUp(v, a) >= v
<1>. DEFINE q == (v + a - 1) \div a
            m == (v + a - 1) % a
<1>1. v + a - 1 \in Nat
  OBVIOUS
<1>2. q \in Nat /\ m \in Nat /\ m < a /\ v + a - 1 = a * q + m
  BY <1>1
<1>3. a * q = q * a /\ q * a \in Nat
  BY <1>2
<1>. HIDE DEF q, m
<1>4. q * a >= v
  BY <1>2, <1>3
<1>5. QED
  BY <1>3, <1>4 DEF AlignUp, q

(* A longer feather and a larger canvas only add pixels.                   *)
LEMMA MaskGrows ==
  ASSUME NEW regions \in Seq(RegionDefinition), NEW f \in Nat, NEW g \in Nat, f <= g,
         NEW w \in Nat, NEW h \in Nat, NEW w2 \in Nat, NEW h2 \in Nat, w <= w2, h <= h2
  PROVE  CompositeMask(regions, f, w, h) \subseteq CompositeMask(regions, g, w2, h2)
<1>. SUFFICES ASSUME NEW p \in CompositeMask(regions, f, w, h)
              PROVE  p \in CompositeMask(regions, g, w2, h2)
  OBVIOUS
<1>. DEFINE low  == Greater(f - 1, 0)
            high == Greater(g - 1, 0)
<1>. DEFINE u == p[1]
            v == p[2]
<1>1. low \in Nat /\ high \in Nat /\ low <= high
  BY DEF Greater
<1>2. p \in Pixels(w, h)
  BY DEF CompositeMask
<1>3. PICK i \in DOMAIN regions :
        /\ regions[i].enabled
        /\ p[1] >= regions[i].box.x0 - low /\ p[1] < regions[i].box.x1 + low
        /\ p[2] >= regions[i].box.y0 - low /\ p[2] < regions[i].box.y1 + low
  BY DEF CompositeMask
<1>4. p[1] \in Int /\ p[2] \in Int /\ p \in Pixels(w2, h2)
  BY <1>2 DEF Pixels
<1>5. PICK b \in PixelBox : b = regions[i].box
  <2>1. regions[i] \in RegionDefinition
    BY ElementOfSeq, LenProperties
  <2>2. QED
    BY <2>1 DEF RegionDefinition
<1>6. b.x0 \in Int /\ b.x1 \in Int /\ b.y0 \in Int /\ b.y1 \in Int
  BY DEF PixelBox
<1>. HIDE DEF low, high
<1>7. /\ p[1] >= b.x0 - high /\ p[1] < b.x1 + high
      /\ p[2] >= b.y0 - high /\ p[2] < b.y1 + high
  <2>1. /\ u >= b.x0 - low /\ u < b.x1 + low
        /\ v >= b.y0 - low /\ v < b.y1 + low
    BY <1>3, <1>5
  <2>2. u \in Int /\ v \in Int
    BY <1>4
  <2>. DEFINE bx0 == b.x0
              bx1 == b.x1
              by0 == b.y0
              by1 == b.y1
  <2>6. /\ bx0 \in Int /\ bx1 \in Int /\ by0 \in Int /\ by1 \in Int
        /\ u >= bx0 - low /\ u < bx1 + low /\ v >= by0 - low /\ v < by1 + low
    BY <1>6, <2>1
  <2>. HIDE DEF u, v, bx0, bx1, by0, by1
  <2>3. u >= bx0 - high /\ u < bx1 + high
    BY <1>1, <2>6, <2>2
  <2>4. v >= by0 - high /\ v < by1 + high
    BY <1>1, <2>6, <2>2
  <2>5. QED
    BY <2>3, <2>4 DEF u, v, bx0, bx1, by0, by1
<1>8. QED
  BY <1>3, <1>4, <1>5, <1>7 DEF CompositeMask, high

-----------------------------------------------------------------------------
(* Sequences put end to end.                                               *)

(* What the first k sequences of ss give, for every k.                     *)
Joins(ss, g) == g[0] = <<>> /\ \A k \in 1..Len(ss) : g[k] = g[k - 1] \o ss[k]

LEMMA FlattenOfJoins ==
  ASSUME NEW X, NEW ss \in Seq(Seq(X)), NEW g \in [0..Len(ss) -> Seq(X)], Joins(ss, g)
  PROVE  FlattenSeq(ss) = g[Len(ss)]
<1>. DEFINE N == Len(ss)
<1>1. N \in Nat
  BY LenProperties
<1>2. \A k \in 1..N : ss[k] \in Seq(X)
  BY ElementOfSeq
<1>3. g[0] = <<>> /\ \A k \in 1..N : g[k] = g[k - 1] \o ss[k]
  BY DEF Joins
<1>4. \A k \in 0..N : g[k] \in Seq(X)
  OBVIOUS
<1>5. CASE N = 0
  <2>1. ss = <<>>
    BY <1>5, EmptySeq
  <2>2. QED
    BY <1>3, <1>5, <2>1 DEF FlattenSeq
<1>6. CASE N # 0
  <2>. DEFINE body(f) == [i \in 1..N |-> IF i = 1 THEN ss[i] ELSE f[i - 1] \o ss[i]]
              h == [i \in 1..N |-> g[i]]
              flatten == CHOOSE f : f = body(f)
  <2>1. g[1] = ss[1]
    <3>1. 1 \in 1..N /\ 1 - 1 = 0
      BY <1>1, <1>6
    <3>2. g[1] = <<>> \o ss[1]
      BY <1>3, <3>1
    <3>3. QED
      BY <1>2, <3>1, <3>2, ConcatEmptySeq
  <2>2. h = body(h)
    <3>1. \A i \in 1..N : g[i] = IF i = 1 THEN ss[i] ELSE h[i - 1] \o ss[i]
      <4>1. SUFFICES ASSUME NEW i \in 1..N, i # 1 PROVE g[i] = h[i - 1] \o ss[i]
        BY <2>1
      <4>2. i - 1 \in 1..N
        BY <1>1, <4>1
      <4>3. QED
        BY <1>3, <4>2
    <3>2. QED
      BY <3>1
  <2>3. flatten = body(flatten)
    BY <2>2
  <2>4. FlattenSeq(ss) = flatten[N]
    BY <1>6 DEF FlattenSeq
  <2>5. \A i \in 1..N : flatten[i] = IF i = 1 THEN ss[i] ELSE flatten[i - 1] \o ss[i]
    <3>. HIDE DEF flatten
    <3>. QED
      BY <2>3
  <2>. HIDE DEF flatten
  <2>. DEFINE U == {n \in Nat : n + 1 <= N => flatten[n + 1] = g[n + 1]}
  <2>6. 0 \in U
    BY <1>1, <1>6, <2>1, <2>5
  <2>7. ASSUME NEW n \in U PROVE n + 1 \in U
    <3>1. n \in Nat
      OBVIOUS
    <3>. DEFINE k == (n + 1) + 1
    <3>2. SUFFICES ASSUME k <= N PROVE flatten[k] = g[k]
      BY <3>1
    <3>3. flatten[n + 1] = g[n + 1] /\ k \in 1..N /\ k - 1 = n + 1 /\ k # 1
      BY <1>1, <3>1, <3>2
    <3>. HIDE DEF k
    <3>4. flatten[k] = flatten[k - 1] \o ss[k] /\ g[k] = g[k - 1] \o ss[k]
      BY <1>3, <2>5, <3>3
    <3>5. QED
      BY <3>3, <3>4
  <2>8. U = Nat
    <3>. HIDE DEF U
    <3>1. U \in SUBSET Nat
      BY DEF U
    <3>2. QED
      BY <2>6, <2>7, <3>1, SetInduction
  <2>9. N - 1 \in U /\ (N - 1) + 1 = N /\ N <= N
    <3>. HIDE DEF U
    <3>. QED
      BY <1>1, <1>6, <2>8
  <2>10. flatten[(N - 1) + 1] = g[(N - 1) + 1]
    BY <2>9
  <2>11. QED
    BY <2>4, <2>9, <2>10
<1>7. QED
  BY <1>5, <1>6

LEMMA JoinsExist ==
  ASSUME NEW X, NEW ss \in Seq(Seq(X))
  PROVE  \E g \in [0..Len(ss) -> Seq(X)] : Joins(ss, g)
<1>. DEFINE N == Len(ss)
            Y == Seq(X)
            Follows(g, k) == g[k] = IF k = 0 THEN <<>> ELSE g[k - 1] \o ss[k]
            T == {n \in Nat : n <= N => \E g \in [0..n -> Y] : \A k \in 0..n : Follows(g, k)}
<1>1. N \in Nat /\ \A k \in 1..N : ss[k] \in Y
  BY LenProperties, ElementOfSeq
<1>2. <<>> \in Y /\ \A s \in Y, k \in 1..N : s \o ss[k] \in Y
  BY <1>1, EmptySeq, ConcatProperties
<1>. HIDE DEF N, Y
<1>3. 0 \in T
  <2>1. [k \in 0..0 |-> <<>>] \in [0..0 -> Y]
    BY <1>2
  <2>2. \A k \in 0..0 : Follows([j \in 0..0 |-> <<>>], k)
    OBVIOUS
  <2>3. QED
    BY <2>1, <2>2
<1>4. ASSUME NEW n \in T PROVE n + 1 \in T
  <2>1. n \in Nat
    OBVIOUS
  <2>. SUFFICES ASSUME n + 1 <= N
                PROVE  \E g \in [0..(n + 1) -> Y] : \A k \in 0..(n + 1) : Follows(g, k)
    BY <2>1
  <2>2. PICK g \in [0..n -> Y] : \A k \in 0..n : Follows(g, k)
    BY <1>1, <2>1
  <2>. DEFINE w == g[n] \o ss[n + 1]
              h == [k \in 0..(n + 1) |-> IF k = n + 1 THEN w ELSE g[k]]
  <2>3. g[n] \in Y /\ n + 1 \in 1..N
    BY <1>1, <2>1, <2>2
  <2>4. w \in Y
    BY <1>2, <2>3
  <2>5. h \in [0..(n + 1) -> Y]
    <3>. HIDE DEF w
    <3>. QED
      BY <2>1, <2>2, <2>4
  <2>6. ASSUME NEW k \in 0..(n + 1) PROVE Follows(h, k)
    <3>1. CASE k = n + 1
      <4>1. h[k] = w /\ h[k - 1] = g[n] /\ k # 0 /\ ss[k] = ss[n + 1]
        BY <2>1, <3>1
      <4>2. QED
        BY <4>1
    <3>2. CASE k # n + 1
      <4>1. k \in 0..n /\ h[k] = g[k] /\ (k # 0 => h[k - 1] = g[k - 1])
        BY <2>1, <3>2
      <4>2. QED
        BY <2>2, <4>1
    <3>3. QED
      BY <3>1, <3>2
  <2>7. QED
    BY <2>5, <2>6
<1>5. T = Nat
  <2>. HIDE DEF T
  <2>1. T \in SUBSET Nat
    BY DEF T
  <2>2. QED
    BY <1>3, <1>4, <2>1, SetInduction
<1>6. PICK g \in [0..N -> Y] : \A k \in 0..N : Follows(g, k)
  <2>1. N \in T
    <3>. HIDE DEF T
    <3>. QED
      BY <1>1, <1>5
  <2>. HIDE DEF Follows, Y, N
  <2>2. N <= N => \E g \in [0..N -> Y] : \A k \in 0..N : Follows(g, k)
    BY <2>1
  <2>3. N <= N
    BY <1>1
  <2>4. QED
    BY <2>2, <2>3
<1>7. g[0] = <<>> /\ \A k \in 1..N : g[k] = g[k - 1] \o ss[k]
  <2>1. \A k \in 0..N : g[k] = IF k = 0 THEN <<>> ELSE g[k - 1] \o ss[k]
    BY <1>6
  <2>2. 0 \in 0..N /\ \A k \in 1..N : k \in 0..N /\ k # 0
    BY <1>1
  <2>3. QED
    BY <2>1, <2>2
<1>8. QED
  BY <1>6, <1>7 DEF Joins, N, Y

LEMMA FlattenOfPrefix ==
  ASSUME NEW X, NEW ss \in Seq(Seq(X)), NEW g \in [0..Len(ss) -> Seq(X)], Joins(ss, g),
         NEW n \in 0..Len(ss)
  PROVE  FlattenSeq(SubSeq(ss, 1, n)) = g[n]
<1>. DEFINE s == SubSeq(ss, 1, n)
            f == [k \in 0..n |-> g[k]]
<1>1. Len(ss) \in Nat /\ n \in Nat /\ n <= Len(ss) /\ \A k \in 1..Len(ss) : ss[k] \in Seq(X)
  BY LenProperties, ElementOfSeq
<1>2. s \in Seq(Seq(X)) /\ Len(s) = n /\ \A k \in 1..n : s[k] = ss[k]
  <2>. DEFINE Y == Seq(X)
  <2>1. 1 \in Int /\ n \in Int /\ \A k \in 1..n : ss[k] \in Y
    BY <1>1
  <2>. HIDE DEF Y
  <2>2. /\ SubSeq(ss, 1, n) \in Seq(Y)
        /\ Len(SubSeq(ss, 1, n)) = (IF 1 <= n THEN n - 1 + 1 ELSE 0)
        /\ \A i \in 1..(n - 1 + 1) : SubSeq(ss, 1, n)[i] = ss[1 + i - 1]
    BY <2>1, SubSeqProperties
  <2>3. QED
    BY <1>1, <2>2 DEF Y
<1>. HIDE DEF s
<1>3. f \in [0..n -> Seq(X)] /\ f[n] = g[n]
  BY <1>1
<1>4. Joins(s, f)
  <2>1. f[0] = <<>>
    BY <1>1 DEF Joins
  <2>2. ASSUME NEW k \in 1..n PROVE f[k] = f[k - 1] \o s[k]
    <3>1. k \in 1..Len(ss) /\ k \in 0..n /\ k - 1 \in 0..n
      BY <1>1
    <3>2. QED
      BY <1>2, <3>1 DEF Joins
  <2>3. QED
    BY <1>2, <2>1, <2>2 DEF Joins
<1>5. FlattenSeq(s) = f[n]
  <2>. HIDE DEF f
  <2>1. f \in [0..Len(s) -> Seq(X)]
    BY <1>2, <1>3
  <2>2. FlattenSeq(s) = f[Len(s)]
    BY <1>2, <1>4, <2>1, FlattenOfJoins
  <2>3. QED
    BY <1>2, <2>2
<1>6. QED
  BY <1>3, <1>5 DEF s

(* Where a sequence of ss begins once they are put end to end.             *)
Offset(ss, k) == Len(FlattenSeq(SubSeq(ss, 1, k - 1)))

(* Each member of a sequence of ss has its place, and each place a member. *)
LEMMA Flattened ==
  ASSUME NEW X, NEW ss \in Seq(Seq(X))
  PROVE  /\ FlattenSeq(ss) \in Seq(X)
         /\ \A k \in 1..Len(ss) :
              /\ Offset(ss, k) \in Nat
              /\ Offset(ss, k) + Len(ss[k]) <= Len(FlattenSeq(ss))
              /\ \A i \in 1..Len(ss[k]) : FlattenSeq(ss)[Offset(ss, k) + i] = ss[k][i]
         /\ \A m \in 1..Len(FlattenSeq(ss)) :
              \E k \in 1..Len(ss) : m - Offset(ss, k) \in 1..Len(ss[k])
<1>. DEFINE N == Len(ss)
<1>1. N \in Nat /\ \A k \in 1..N : ss[k] \in Seq(X) /\ Len(ss[k]) \in Nat
  BY LenProperties, ElementOfSeq
<1>2. PICK g \in [0..N -> Seq(X)] : Joins(ss, g)
  BY JoinsExist
<1>3. g[0] = <<>> /\ \A k \in 1..N : g[k] = g[k - 1] \o ss[k]
  BY <1>2 DEF Joins
<1>4. \A k \in 0..N : g[k] \in Seq(X) /\ Len(g[k]) \in Nat
  <2>1. \A k \in 0..N : g[k] \in Seq(X)
    BY <1>2
  <2>2. QED
    BY <2>1, LenProperties
<1>5. FlattenSeq(ss) = g[N] /\ \A k \in 1..N : Offset(ss, k) = Len(g[k - 1])
  <2>1. FlattenSeq(ss) = g[N]
    BY <1>2, FlattenOfJoins
  <2>2. ASSUME NEW k \in 1..N PROVE Offset(ss, k) = Len(g[k - 1])
    <3>1. k - 1 \in 0..Len(ss)
      BY <1>1
    <3>2. QED
      BY <1>2, <3>1, FlattenOfPrefix DEF Offset
  <2>3. QED
    BY <2>1, <2>2
<1>. DEFINE Placed(n) ==
              /\ \A k \in 1..n : /\ Len(g[k - 1]) + Len(ss[k]) <= Len(g[n])
                                 /\ \A i \in 1..Len(ss[k]) : g[n][Len(g[k - 1]) + i] = ss[k][i]
              /\ \A m \in 1..Len(g[n]) : \E k \in 1..n : m - Len(g[k - 1]) \in 1..Len(ss[k])
            T == {n \in Nat : n <= N => Placed(n)}
<1>. HIDE DEF N
<1>6. 0 \in T
  <2>1. Len(g[0]) = 0
    BY <1>3, EmptySeq
  <2>2. Placed(0)
    BY <2>1
  <2>3. QED
    BY <2>2
<1>7. ASSUME NEW n \in T PROVE n + 1 \in T
  <2>1. n \in Nat
    OBVIOUS
  <2>. SUFFICES ASSUME n + 1 <= N PROVE Placed(n + 1)
    <3>. HIDE DEF Placed
    <3>. QED
      BY <2>1
  <2>2. Placed(n) /\ n + 1 \in 1..N /\ n \in 0..N /\ (n + 1) - 1 = n
    <3>. HIDE DEF Placed
    <3>. QED
      BY <1>1, <2>1
  <2>. DEFINE a == g[n]
              b == ss[n + 1]
              c == g[n + 1]
  <2>3. a \in Seq(X) /\ b \in Seq(X) /\ c = a \o b /\ Len(a) \in Nat /\ Len(b) \in Nat
    BY <1>1, <1>3, <1>4, <2>2
  <2>4. Len(c) = Len(a) + Len(b)
        /\ \A i \in 1..(Len(a) + Len(b)) : c[i] = IF i <= Len(a) THEN a[i] ELSE b[i - Len(a)]
    <3>. HIDE DEF a, b, c
    <3>. QED
      BY <2>3, ConcatProperties
  <2>5. \A i \in 1..Len(a) : c[i] = a[i]
    <3>. HIDE DEF a, b, c
    <3>. QED
      BY <2>3, <2>4
  <2>6. \A i \in 1..Len(b) : c[Len(a) + i] = b[i]
    <3>. HIDE DEF a, b, c
    <3>. SUFFICES ASSUME NEW i \in 1..Len(b) PROVE c[Len(a) + i] = b[i]
      OBVIOUS
    <3>1. Len(a) + i \in 1..(Len(a) + Len(b)) /\ ~(Len(a) + i <= Len(a))
          /\ (Len(a) + i) - Len(a) = i
      BY <2>3
    <3>. QED
      BY <2>4, <3>1
  <2>7. ASSUME NEW k \in 1..(n + 1)
        PROVE  /\ Len(g[k - 1]) + Len(ss[k]) <= Len(c)
               /\ \A i \in 1..Len(ss[k]) : c[Len(g[k - 1]) + i] = ss[k][i]
    <3>1. CASE k = n + 1
      <4>1. g[k - 1] = a /\ ss[k] = b
        BY <2>2, <3>1
      <4>2. QED
        <5>. HIDE DEF a, b, c
        <5>1. Len(a) + Len(b) <= Len(c)
          BY <2>3, <2>4
        <5>. QED
          BY <4>1, <5>1, <2>6
    <3>2. CASE k # n + 1
      <4>1. k \in 1..n /\ k \in 1..N /\ k - 1 \in 0..N
        BY <1>1, <2>1, <3>2
      <4>2. /\ Len(g[k - 1]) + Len(ss[k]) <= Len(a)
            /\ \A i \in 1..Len(ss[k]) : a[Len(g[k - 1]) + i] = ss[k][i]
        BY <2>2, <4>1
      <4>3. Len(g[k - 1]) \in Nat /\ Len(ss[k]) \in Nat
        BY <1>1, <1>4, <4>1
      <4>. DEFINE lg == Len(g[k - 1])
                  ls == Len(ss[k])
      <4>4. lg + ls <= Len(c) /\ \A i \in 1..ls : lg + i \in 1..Len(a)
        <5>1. lg \in Nat /\ ls \in Nat /\ lg + ls <= Len(a)
          BY <4>2, <4>3
        <5>. HIDE DEF lg, ls, a, b, c
        <5>. QED
          BY <2>3, <2>4, <5>1
      <4>5. QED
        BY <2>5, <4>2, <4>4
    <3>3. QED
      BY <3>1, <3>2
  <2>8. ASSUME NEW m \in 1..Len(c)
        PROVE  \E k \in 1..(n + 1) : m - Len(g[k - 1]) \in 1..Len(ss[k])
    <3>0. m \in Nat /\ m >= 1 /\ m <= Len(a) + Len(b)
      <4>. HIDE DEF a, b, c
      <4>. QED
        BY <2>3, <2>4
    <3>1. CASE m <= Len(a)
      <4>1. m \in 1..Len(a)
        BY <2>3, <3>0, <3>1
      <4>2. PICK k \in 1..n : m - Len(g[k - 1]) \in 1..Len(ss[k])
        BY <2>2, <4>1
      <4>3. k \in 1..(n + 1)
        BY <2>1
      <4>4. QED
        BY <4>2, <4>3
    <3>2. CASE ~(m <= Len(a))
      <4>1. m - Len(a) \in 1..Len(b)
        <5>. HIDE DEF a, b, c
        <5>. QED
          BY <2>3, <3>0, <3>2
      <4>2. n + 1 \in 1..(n + 1) /\ g[(n + 1) - 1] = a /\ ss[n + 1] = b
        BY <2>1, <2>2
      <4>3. QED
        BY <4>1, <4>2
    <3>3. QED
      BY <3>1, <3>2
  <2>9. QED
    BY <2>7, <2>8
<1>8. T = Nat
  <2>. HIDE DEF T
  <2>1. T \in SUBSET Nat
    BY DEF T
  <2>2. QED
    BY <1>6, <1>7, <2>1, SetInduction
<1>9. Placed(N)
  <2>1. N \in T
    <3>. HIDE DEF T
    <3>. QED
      BY <1>1, <1>8
  <2>. HIDE DEF Placed
  <2>2. QED
    BY <1>1, <2>1
<1>10. \A k \in 1..N : Len(g[k - 1]) \in Nat
  <2>1. \A k \in 1..N : k - 1 \in 0..N
    BY <1>1
  <2>2. QED
    BY <1>4, <2>1
<1>11. FlattenSeq(ss) \in Seq(X)
  BY <1>1, <1>4, <1>5
<1>12. ASSUME NEW k \in 1..N
       PROVE  /\ Offset(ss, k) \in Nat
              /\ Offset(ss, k) + Len(ss[k]) <= Len(FlattenSeq(ss))
              /\ \A i \in 1..Len(ss[k]) : FlattenSeq(ss)[Offset(ss, k) + i] = ss[k][i]
  BY <1>5, <1>9, <1>10
<1>13. ASSUME NEW m \in 1..Len(FlattenSeq(ss))
       PROVE  \E k \in 1..N : m - Offset(ss, k) \in 1..Len(ss[k])
  <2>1. PICK k \in 1..N : m - Len(g[k - 1]) \in 1..Len(ss[k])
    BY <1>5, <1>9
  <2>2. QED
    BY <1>5, <2>1
<1>14. QED
  BY <1>11, <1>12, <1>13 DEF N

-----------------------------------------------------------------------------
(* The image tokens under a box.                                           *)

LEMMA LargerProduct ==
  ASSUME NEW m \in Nat, NEW a \in Nat, NEW b \in Nat, a <= b
  PROVE  a * m \in Nat /\ b * m \in Nat /\ a * m <= b * m
<1>1. PICK d \in Nat : b = a + d
  <2>1. b - a \in Nat /\ b = a + (b - a)
    OBVIOUS
  <2>2. QED
    BY <2>1
<1>2. b * m = a * m + d * m /\ d * m \in Nat /\ a * m \in Nat
  BY <1>1
<1>3. QED
  BY <1>2

LEMMA Quotient ==
  ASSUME NEW v \in Nat, NEW m \in Nat \ {0}
  PROVE  /\ v \div m \in Nat
         /\ (v \div m) * m \in Nat /\ (v \div m + 1) * m \in Nat
         /\ (v \div m) * m <= v /\ v < (v \div m + 1) * m
<1>. DEFINE q == v \div m
            r == v % m
<1>1. q \in Nat /\ r \in Nat /\ r < m /\ v = m * q + r
  OBVIOUS
<1>. HIDE DEF q, r
<1>2. m * q = q * m /\ q * m \in Nat /\ (q + 1) * m = q * m + m
  BY <1>1
<1>3. QED
  BY <1>1, <1>2 DEF q

LEMMA QuotientOfSum ==
  ASSUME NEW q \in Nat, NEW m \in Nat \ {0}, NEW c \in 0..(m - 1)
  PROVE  q * m + c \in Nat /\ (q * m + c) \div m = q /\ (q * m + c) % m = c
<1>. DEFINE v == q * m + c
            p == v \div m
            r == v % m
<1>1. q * m \in Nat /\ v \in Nat
  OBVIOUS
<1>2. p \in Nat /\ r \in Nat /\ r < m /\ v = m * p + r
  BY <1>1
<1>3. m * p = p * m /\ p * m \in Nat
  BY <1>2
<1>4. v = q * m + c
  OBVIOUS
<1>. HIDE DEF p, r, v
<1>5. ~(p < q)
  <2>1. SUFFICES ASSUME p + 1 <= q PROVE FALSE
    BY <1>2
  <2>2. (p + 1) * m <= q * m /\ (p + 1) * m = p * m + m
    BY <1>2, <2>1, LargerProduct
  <2>3. QED
    BY <1>1, <1>2, <1>3, <1>4, <2>2
<1>6. ~(q < p)
  <2>1. SUFFICES ASSUME q + 1 <= p PROVE FALSE
    BY <1>2
  <2>2. (q + 1) * m <= p * m /\ (q + 1) * m = q * m + m
    BY <1>2, <2>1, LargerProduct
  <2>3. QED
    BY <1>1, <1>2, <1>3, <1>4, <2>2
<1>7. p = q
  BY <1>2, <1>5, <1>6
<1>8. r = c
  BY <1>1, <1>2, <1>3, <1>4, <1>7
<1>9. QED
  BY <1>1, <1>7, <1>8 DEF p, r, v

\* The tokens along one side of the canvas.
Along(w) == AlignUp(w, TokenPixels) \div TokenPixels

LEMMA AlongSide ==
  ASSUME NEW w \in Nat \ {0}
  PROVE  Along(w) \in Nat \ {0} /\ Along(w) * TokenPixels \in Nat /\ Along(w) * TokenPixels >= w
<1>. DEFINE m == TokenPixels
            q == (w + m - 1) \div m
<1>1. m \in Nat \ {0}
  BY ShapeAssumption
<1>. HIDE DEF m
<1>2. w + m - 1 \in Nat
  BY <1>1
<1>3. q \in Nat
  BY <1>1, <1>2, Quotient
<1>4. q * m \in Nat /\ (q * m + 0) \div m = q /\ q * m + 0 = q * m
  <2>. HIDE DEF q
  <2>1. 0 \in 0..(m - 1)
    BY <1>1
  <2>2. QED
    BY <1>1, <1>3, <2>1, QuotientOfSum
<1>5. Along(w) = q
  BY <1>4 DEF Along, AlignUp, m
<1>6. q * m >= w
  BY <1>1, AlignedUp DEF AlignUp
<1>7. q # 0
  <2>. HIDE DEF q
  <2>1. q = 0 => q * m = 0
    BY <1>1
  <2>2. QED
    BY <1>6, <2>1
<1>8. QED
  BY <1>3, <1>4, <1>5, <1>6, <1>7 DEF m

LEMMA TokensAlong ==
  ASSUME NEW w \in Nat \ {0}, NEW x0 \in Nat, NEW x1 \in Nat, x0 < x1, x1 <= w,
         NEW c \in (x0 \div TokenPixels)..((x1 - 1) \div TokenPixels)
  PROVE  /\ c \in 0..(Along(w) - 1)
         /\ Lesser((c + 1) * TokenPixels, x1) - Greater(c * TokenPixels, x0) \in Nat \ {0}
<1>. DEFINE m == TokenPixels
            low == x0 \div m
            high == (x1 - 1) \div m
<1>1. m \in Nat \ {0} /\ x1 - 1 \in Nat
  BY ShapeAssumption
<1>. HIDE DEF m
<1>2. low \in Nat /\ x0 < (low + 1) * m /\ (low + 1) * m \in Nat
  BY <1>1, Quotient
<1>3. high \in Nat /\ high * m <= x1 - 1 /\ high * m \in Nat
  BY <1>1, Quotient
<1>4. c \in Int /\ low <= c /\ c <= high
  BY <1>2, <1>3 DEF m
<1>. HIDE DEF low, high
<1>5. c \in Nat
  BY <1>2, <1>4
<1>6. (c + 1) * m \in Nat /\ x0 < (c + 1) * m
  BY <1>1, <1>2, <1>4, <1>5, LargerProduct
<1>7. c * m \in Nat /\ c * m <= x1 - 1
  BY <1>1, <1>3, <1>4, <1>5, LargerProduct
<1>8. (c + 1) * m = c * m + m
  BY <1>1, <1>5
<1>9. c <= Along(w) - 1
  <2>. DEFINE n == Along(w)
  <2>1. n \in Nat /\ n * m \in Nat /\ n * m >= w
    BY AlongSide DEF m
  <2>. HIDE DEF n
  <2>2. SUFFICES ASSUME n <= c PROVE FALSE
    BY <1>5, <2>1 DEF n
  <2>3. n * m <= c * m
    BY <1>1, <1>5, <2>1, <2>2, LargerProduct
  <2>4. QED
    BY <1>7, <2>1, <2>3
<1>10. Lesser((c + 1) * m, x1) - Greater(c * m, x0) \in Nat \ {0}
  <2>. DEFINE u == c * m
              v == (c + 1) * m
  <2>1. u \in Nat /\ v \in Nat /\ u < v /\ x0 < v /\ u < x1
    BY <1>1, <1>6, <1>7, <1>8
  <2>. HIDE DEF u, v
  <2>2. Lesser(v, x1) - Greater(u, x0) \in Nat \ {0}
    BY <2>1 DEF Lesser, Greater
  <2>3. QED
    BY <2>2 DEF u, v
<1>11. Along(w) \in Nat
  BY AlongSide
<1>12. QED
  BY <1>5, <1>9, <1>10, <1>11 DEF m

LEMMA ClippedBox ==
  ASSUME NEW b \in PixelBox, NEW w \in Nat, NEW h \in Nat, OnCanvas(b, w, h)
  PROVE  LET c == Clip(b, w, h)
         IN  /\ c.x0 \in Nat /\ c.x1 \in Nat /\ c.y0 \in Nat /\ c.y1 \in Nat
             /\ c.x0 < c.x1 /\ c.x1 <= w /\ c.y0 < c.y1 /\ c.y1 <= h
<1>1. b.x0 \in Int /\ b.x1 \in Int /\ b.y0 \in Int /\ b.y1 \in Int
  BY DEF PixelBox
<1>2. \A v \in Int, top \in Nat : Clamp(v, top) \in Nat /\ Clamp(v, top) <= top
  BY DEF Clamp, Lesser, Greater
<1>3. QED
  BY <1>1, <1>2 DEF Clip, OnCanvas

LEMMA CoveredTokens ==
  ASSUME NEW b \in PixelBox, NEW w \in Nat \ {0}, NEW h \in Nat \ {0}, OnCanvas(b, w, h),
         NEW v \in Rasterized(Clip(b, w, h), Grid(w, h))
  PROVE  v \in ImageTokens(Grid(w, h)) /\ Overlap(Cell(v, Grid(w, h)), Clip(b, w, h)) > 0
<1>. DEFINE box == Clip(b, w, h)
            cols == Along(w)
            rows == Along(h)
            g == Grid(w, h)
<1>1. /\ box.x0 \in Nat /\ box.x1 \in Nat /\ box.y0 \in Nat /\ box.y1 \in Nat
      /\ box.x0 < box.x1 /\ box.x1 <= w /\ box.y0 < box.y1 /\ box.y1 <= h
  BY ClippedBox
<1>2. g.cols = cols /\ g.rows = rows
  BY DEF Grid, Along
<1>3. cols \in Nat \ {0} /\ rows \in Nat \ {0}
  BY AlongSide
<1>. HIDE DEF box, cols, rows, g
<1>4. PICK r \in (box.y0 \div TokenPixels)..((box.y1 - 1) \div TokenPixels),
           c \in (box.x0 \div TokenPixels)..((box.x1 - 1) \div TokenPixels) :
             v = r * cols + c
  BY <1>2 DEF Rasterized, box, g
<1>. DEFINE x0 == box.x0
            x1 == box.x1
            y0 == box.y0
            y1 == box.y1
<1>5. /\ c \in 0..(cols - 1)
      /\ Lesser((c + 1) * TokenPixels, x1) - Greater(c * TokenPixels, x0) \in Nat \ {0}
  <2>1. x0 \in Nat /\ x1 \in Nat /\ x0 < x1 /\ x1 <= w
        /\ c \in (x0 \div TokenPixels)..((x1 - 1) \div TokenPixels)
    BY <1>1
  <2>. HIDE DEF x0, x1
  <2>2. QED
    BY <2>1, TokensAlong DEF cols
<1>6. /\ r \in 0..(rows - 1)
      /\ Lesser((r + 1) * TokenPixels, y1) - Greater(r * TokenPixels, y0) \in Nat \ {0}
  <2>1. y0 \in Nat /\ y1 \in Nat /\ y0 < y1 /\ y1 <= h
        /\ r \in (y0 \div TokenPixels)..((y1 - 1) \div TokenPixels)
    BY <1>1
  <2>. HIDE DEF y0, y1
  <2>2. QED
    BY <2>1, TokensAlong DEF rows
<1>7. v \in Nat /\ v \div cols = r /\ v % cols = c
  <2>1. r \in Nat /\ c \in 0..(cols - 1)
    BY <1>3, <1>5, <1>6
  <2>2. r * cols + c \in Nat /\ (r * cols + c) \div cols = r /\ (r * cols + c) % cols = c
    BY <1>3, <2>1, QuotientOfSum
  <2>3. QED
    BY <1>4, <2>2
<1>8. v <= rows * cols - 1 /\ rows * cols \in Nat
  <2>1. (r + 1) * cols <= rows * cols /\ rows * cols \in Nat
    BY <1>3, <1>6, LargerProduct
  <2>2. (r + 1) * cols = r * cols + cols /\ r * cols \in Nat
    BY <1>3, <1>6
  <2>. DEFINE a == r * cols
              n == rows * cols
  <2>3. v = a + c /\ a \in Nat /\ n \in Nat /\ a + cols <= n
    BY <1>4, <2>1, <2>2
  <2>. HIDE DEF a, n
  <2>4. v <= n - 1
    BY <1>3, <1>5, <2>3
  <2>5. QED
    BY <2>1, <2>4 DEF n
<1>9. v \in ImageTokens(g)
  BY <1>2, <1>7, <1>8 DEF ImageTokens
<1>10. Overlap(Cell(v, g), box) > 0
  <2>. DEFINE dx == Lesser((c + 1) * TokenPixels, x1) - Greater(c * TokenPixels, x0)
              dy == Lesser((r + 1) * TokenPixels, y1) - Greater(r * TokenPixels, y0)
  <2>1. Cell(v, g) = [x0 |-> c * TokenPixels, x1 |-> (c + 1) * TokenPixels,
                      y0 |-> r * TokenPixels, y1 |-> (r + 1) * TokenPixels]
    BY <1>2, <1>7 DEF Cell
  <2>2. Overlap(Cell(v, g), box) = Greater(0, dx) * Greater(0, dy)
    BY <2>1 DEF Overlap
  <2>3. dx \in Nat \ {0} /\ dy \in Nat \ {0}
    BY <1>5, <1>6
  <2>. HIDE DEF dx, dy
  <2>4. Greater(0, dx) = dx /\ Greater(0, dy) = dy
    BY <2>3 DEF Greater
  <2>5. 1 * dy <= dx * dy /\ 1 * dy = dy /\ dx * dy \in Nat
    BY <2>3, LargerProduct
  <2>6. QED
    BY <2>2, <2>3, <2>4, <2>5
<1>11. QED
  BY <1>9, <1>10 DEF g, box

-----------------------------------------------------------------------------
(* The tokens of a prompt.                                                 *)

Labels == {"global", "place", "identity", "scene", "trigger", "relation"}
Token == [part : Labels, region : STRING \cup {Shared}]
Of(id) == {x \in Token : x.region = id}

LEMMA TaggedOf ==
  ASSUME NEW part \in Labels, NEW id \in STRING \cup {Shared}
  PROVE  Tagged(part, id) \in Of(id)
BY DEF Tagged, Of, Token

LEMMA WordsOf ==
  ASSUME NEW part \in Labels, NEW id \in STRING \cup {Shared}, NEW present \in BOOLEAN
  PROVE  /\ Words(part, id, present) \in Seq(Of(id))
         /\ Len(Words(part, id, present)) = IF present THEN 1 ELSE 0
<1>1. Tagged(part, id) \in Of(id)
  BY TaggedOf
<1>. DEFINE x == Tagged(part, id)
            Y == Of(id)
<1>2. x \in Y
  BY <1>1
<1>. HIDE DEF x, Y
<1>3. <<x>> \in Seq(Y) /\ Len(<<x>>) = 1 /\ <<>> \in Seq(Y) /\ Len(<<>>) = 0
  BY <1>2
<1>. DEFINE W == Words(part, id, present)
<1>4. CASE present
  <2>1. W = <<x>>
    BY <1>4 DEF Words, x
  <2>. HIDE DEF W
  <2>2. W \in Seq(Y) /\ Len(W) = 1
    BY <1>3, <2>1
  <2>3. QED
    BY <1>4, <2>2 DEF W, Y
<1>5. CASE ~present
  <2>1. W = <<>>
    BY <1>5 DEF Words
  <2>. HIDE DEF W
  <2>2. W \in Seq(Y) /\ Len(W) = 0
    BY <1>3, <2>1
  <2>3. QED
    BY <1>5, <2>2 DEF W, Y
<1>6. QED
  BY <1>4, <1>5

LEMMA ClauseOf ==
  ASSUME NEW r \in RegionDefinition, Described(r), NEW loras \in Seq(LoraSpecification)
  PROVE  Clause(r, loras) \in Seq(Of(r.id)) /\ Len(Clause(r, loras)) >= 2
<1>. DEFINE id == r.id
            Y == Of(id)
            a == <<Tagged("place", id)>>
            b == Words("identity", id, r.identity)
            c == Words("scene", id, r.prompt)
            d == [k \in DOMAIN Triggers(loras, id) |-> Tagged("trigger", id)]
<1>1. id \in STRING /\ r.identity \in BOOLEAN /\ r.prompt \in BOOLEAN
  BY DEF RegionDefinition
<1>. HIDE DEF id
<1>2. a \in Seq(Y) /\ Len(a) = 1
  <2>1. "place" \in Labels
    BY DEF Labels
  <2>2. Tagged("place", id) \in Of(id)
    BY <1>1, <2>1, TaggedOf
  <2>3. QED
    BY <2>2
<1>3. /\ b \in Seq(Y) /\ Len(b) = IF r.identity THEN 1 ELSE 0
      /\ c \in Seq(Y) /\ Len(c) = IF r.prompt THEN 1 ELSE 0
  <2>. DEFINE i == r.identity
              s == r.prompt
  <2>1. "identity" \in Labels /\ i \in BOOLEAN
    BY <1>1 DEF Labels
  <2>2. "scene" \in Labels /\ s \in BOOLEAN
    BY <1>1 DEF Labels
  <2>. HIDE DEF i, s
  <2>3. /\ Words("identity", id, i) \in Seq(Of(id))
        /\ Len(Words("identity", id, i)) = IF i THEN 1 ELSE 0
    BY <1>1, <2>1, WordsOf
  <2>4. /\ Words("scene", id, s) \in Seq(Of(id))
        /\ Len(Words("scene", id, s)) = IF s THEN 1 ELSE 0
    BY <1>1, <2>2, WordsOf
  <2>5. QED
    BY <2>3, <2>4 DEF i, s
<1>4. d \in Seq(Y) /\ Len(d) \in Nat
  <2>. DEFINE places == {i \in DOMAIN loras :
                           loras[i].mode = "character" /\ id \in loras[i].regions}
  <2>1. Chosen(loras, places) \in Seq(LoraSpecification)
    <3>1. places \in SUBSET (DOMAIN loras)
      OBVIOUS
    <3>. HIDE DEF places
    <3>2. QED
      BY <3>1, ChosenOnes
  <2>2. Triggers(loras, id) = Chosen(loras, places)
    BY DEF Triggers
  <2>. HIDE DEF places
  <2>3. PICK n \in Nat : DOMAIN Triggers(loras, id) = 1..n
    BY <2>1, <2>2, LenProperties
  <2>4. Tagged("trigger", id) \in Y
    <3>1. "trigger" \in Labels
      BY DEF Labels
    <3>2. QED
      BY <1>1, <3>1, TaggedOf
  <2>. DEFINE x == Tagged("trigger", id)
  <2>5. d \in [1..n -> Y]
    <3>. HIDE DEF x, Y
    <3>1. [k \in 1..n |-> x] \in [1..n -> Y]
      BY <2>4 DEF x
    <3>2. QED
      BY <2>3, <3>1 DEF x
  <2>. HIDE DEF d, Y
  <2>6. d \in Seq(Y)
    BY <2>5
  <2>7. QED
    BY <2>6, LenProperties
<1>5. Len(b) \in Nat /\ Len(c) \in Nat /\ Len(b) + Len(c) >= 1
  BY <1>1, <1>3 DEF Described
<1>6. Clause(r, loras) = ((a \o b) \o c) \o d
  BY DEF Clause, id
<1>. HIDE DEF a, b, c, d, Y
<1>7. a \o b \in Seq(Y) /\ Len(a \o b) = Len(a) + Len(b)
  BY <1>2, <1>3, ConcatProperties
<1>. DEFINE ab == a \o b
<1>8. ab \in Seq(Y) /\ Len(ab) = 1 + Len(b)
  BY <1>2, <1>7
<1>. HIDE DEF ab
<1>9. ab \o c \in Seq(Y) /\ Len(ab \o c) = Len(ab) + Len(c)
  BY <1>3, <1>8, ConcatProperties
<1>. DEFINE abc == ab \o c
<1>10. abc \in Seq(Y) /\ Len(abc) >= 2 /\ Len(abc) \in Nat
  BY <1>5, <1>8, <1>9
<1>. HIDE DEF abc
<1>11. abc \o d \in Seq(Y) /\ Len(abc \o d) = Len(abc) + Len(d)
  BY <1>4, <1>10, ConcatProperties
<1>12. QED
  BY <1>4, <1>6, <1>10, <1>11 DEF abc, ab, id, Y

(* A request as it is planned, with its boxes on the canvas.               *)
Planned(p) ==
  /\ p.width \in Nat \ {0} /\ p.height \in Nat \ {0} /\ p.words \in Nat
  /\ p.regions \in Seq(RegionDefinition) /\ DistinctIds(p.regions)
  /\ p.loras \in Seq(LoraSpecification)
  /\ \A k \in DOMAIN Active(p.regions) : OnCanvas(Active(p.regions)[k].box, p.width, p.height)

(* Each span of the bound prompt holds the tokens of its region and no     *)
(* other's, and image tokens under the region's box.                       *)
Spanned(p, plan, bound) ==
  /\ Len(plan.prompt) \in Nat /\ bound.texts = Len(plan.prompt) + Suffix
  /\ bound.images = ImageTokens(plan.grid) /\ plan.grid = Grid(p.width, p.height)
  /\ \E n \in Nat : DOMAIN bound.spans = 1..n
  /\ \A k \in DOMAIN bound.spans :
       /\ bound.spans[k].id # Shared /\ Len(plan.prompt) >= 2
       /\ \A t \in bound.spans[k].text :
            t \in 0..(Len(plan.prompt) - 1) /\ plan.prompt[t + 1].region = bound.spans[k].id
       /\ \A v \in bound.spans[k].cover :
            /\ v \in bound.images
            /\ \E i \in DOMAIN p.regions :
                 /\ p.regions[i].id = bound.spans[k].id
                 /\ Overlap(Cell(v, plan.grid), Clip(p.regions[i].box, p.width, p.height)) > 0
  /\ \A j, k \in DOMAIN bound.spans : bound.spans[j].id = bound.spans[k].id => j = k
  /\ \A t \in 0..(Len(plan.prompt) - 1) :
       \/ plan.prompt[t + 1].region = Shared
       \/ \E k \in DOMAIN bound.spans : t \in bound.spans[k].text

LEMMA SpansOfPrompt ==
  ASSUME NEW p, Planned(p)
  PROVE  Spanned(p, CompilePlan(p), Bind(CompilePlan(p)))
<1>. DEFINE a == Active(p.regions)
            N == Len(a)
            grid == Grid(p.width, p.height)
            clauses == [k \in DOMAIN a |-> Clause(a[k], p.loras)]
            regions == [k \in DOMAIN a |->
                         [id    |-> a[k].id,
                          role  |-> EffectiveRole(a[k], p.width, p.height),
                          cover |-> Rasterized(Clip(a[k].box, p.width, p.height), grid),
                          first |-> p.words + Len(FlattenSeq(SubSeq(clauses, 1, k - 1))),
                          size  |-> Len(clauses[k])]]
            global == [k \in 1..p.words |-> Tagged("global", Shared)]
            prompt == global \o FlattenSeq(clauses) \o Relation(regions)
            plan == CompilePlan(p)
            bound == Bind(plan)
<1>1. plan.regions = regions /\ plan.grid = grid /\ plan.prompt = prompt
  BY DEF CompilePlan
<1>2. /\ bound.texts = Len(prompt) + Suffix /\ bound.images = ImageTokens(grid)
      /\ DOMAIN bound.spans = DOMAIN regions
      /\ \A k \in DOMAIN regions :
           /\ bound.spans[k].id = regions[k].id
           /\ bound.spans[k].cover = regions[k].cover
           /\ bound.spans[k].text = regions[k].first..(regions[k].first + regions[k].size - 1)
  BY <1>1 DEF Bind
<1>. HIDE DEF plan, bound
<1>3. p.words \in Nat /\ p.regions \in Seq(RegionDefinition) /\ p.loras \in Seq(LoraSpecification)
  BY DEF Planned
<1>4. /\ a \in Seq(RegionDefinition) /\ N \in Nat /\ DOMAIN a = 1..N
      /\ DistinctIds(a)
      /\ \A k \in 1..N : \E i \in Live(p.regions) : a[k] = p.regions[i]
  <2>. DEFINE all == p.regions
  <2>1. all \in Seq(RegionDefinition) /\ DistinctIds(all)
    BY DEF Planned
  <2>. HIDE DEF all
  <2>2. /\ Active(all) \in Seq(RegionDefinition) /\ DistinctIds(Active(all))
        /\ \A k \in DOMAIN Active(all) : \E i \in Live(all) : Active(all)[k] = all[i]
    BY <2>1, ActiveRegions
  <2>3. QED
    BY <2>2, LenProperties DEF all
<1>5. \A k \in 1..N : a[k] \in RegionDefinition /\ Described(a[k])
                      /\ OnCanvas(a[k].box, p.width, p.height)
  <2>1. \A k \in 1..N : a[k] \in RegionDefinition
    BY <1>4, ElementOfSeq
  <2>2. \A k \in 1..N : Described(a[k])
    BY <1>4 DEF Live
  <2>3. \A k \in 1..N : OnCanvas(a[k].box, p.width, p.height)
    BY <1>4 DEF Planned
  <2>4. QED
    BY <2>1, <2>2, <2>3
<1>6. \A r \in RegionDefinition : r.id \in STRING /\ r.id # Shared /\ r.box \in PixelBox
  BY DEF RegionDefinition
<1>. HIDE DEF a, N
<1>7. \A k \in 1..N : clauses[k] \in Seq(Of(a[k].id)) /\ Len(clauses[k]) >= 2
  <2>. DEFINE loras == p.loras
  <2>. SUFFICES ASSUME NEW k \in 1..N
                PROVE  Clause(a[k], loras) \in Seq(Of(a[k].id)) /\ Len(Clause(a[k], loras)) >= 2
    BY <1>4
  <2>1. loras \in Seq(LoraSpecification)
    BY <1>3
  <2>. DEFINE r == a[k]
  <2>2. r \in RegionDefinition /\ Described(r)
    BY <1>5
  <2>. HIDE DEF loras, r
  <2>3. Clause(r, loras) \in Seq(Of(r.id)) /\ Len(Clause(r, loras)) >= 2
    BY <2>1, <2>2, ClauseOf
  <2>4. QED
    BY <2>3 DEF r
<1>8. clauses \in Seq(Seq(Token)) /\ Len(clauses) = N
  <2>1. \A k \in 1..N : clauses[k] \in Seq(Token)
    <3>1. \A id : Of(id) \subseteq Token
      BY DEF Of
    <3>. SUFFICES ASSUME NEW k \in 1..N PROVE clauses[k] \in Seq(Token)
      OBVIOUS
    <3>. DEFINE s == clauses[k]
                Y == Of(a[k].id)
    <3>2. s \in Seq(Y) /\ Y \subseteq Token
      BY <1>7, <3>1
    <3>. HIDE DEF s, Y
    <3>3. s \in Seq(Token)
      BY <3>2, SeqMonotonic
    <3>4. QED
      BY <3>3 DEF s
  <2>2. DOMAIN clauses = 1..N /\ clauses = [k \in 1..N |-> clauses[k]]
    BY <1>4
  <2>. HIDE DEF clauses
  <2>3. clauses \in [1..N -> Seq(Token)]
    BY <2>1, <2>2
  <2>4. clauses \in Seq(Seq(Token))
    BY <1>4, <2>3, SeqDef
  <2>5. QED
    BY <1>4, <2>2, <2>4, LenProperties
<1>. DEFINE F == FlattenSeq(clauses)
            L == Relation(regions)
            off(k) == Offset(clauses, k)
<1>9. \A k \in 1..N :
        /\ regions[k].id = a[k].id
        /\ regions[k].cover = Rasterized(Clip(a[k].box, p.width, p.height), grid)
        /\ regions[k].first = p.words + off(k) /\ regions[k].size = Len(clauses[k])
  BY <1>4 DEF Offset
<1>10. DOMAIN regions = 1..N
  BY <1>4
<1>11. L \in Seq(Of(Shared))
  <2>1. "relation" \in Labels
    BY DEF Labels
  <2>. DEFINE two == Cardinality(Subjects(regions)) >= 2
  <2>2. L = Words("relation", Shared, two)
    BY DEF Relation
  <2>. HIDE DEF L, regions
  <2>3. CASE two
    <3>1. Words("relation", Shared, TRUE) \in Seq(Of(Shared))
      BY <2>1, WordsOf
    <3>2. L = Words("relation", Shared, TRUE)
      BY <2>2, <2>3 DEF Words
    <3>3. QED
      BY <3>1, <3>2
  <2>4. CASE ~two
    <3>1. Words("relation", Shared, FALSE) \in Seq(Of(Shared))
      BY <2>1, WordsOf
    <3>2. L = Words("relation", Shared, FALSE)
      BY <2>2, <2>4 DEF Words
    <3>3. QED
      BY <3>1, <3>2
  <2>5. QED
    BY <2>3, <2>4
<1>12. global \in Seq(Of(Shared)) /\ Len(global) = p.words
  <2>. DEFINE x == Tagged("global", Shared)
              Y == Of(Shared)
              n == p.words
  <2>1. "global" \in Labels /\ n \in Nat
    BY <1>3 DEF Labels
  <2>2. x \in Y
    BY <2>1, TaggedOf
  <2>. HIDE DEF x, Y, n
  <2>3. [k \in 1..n |-> x] \in Seq(Y) /\ Len([k \in 1..n |-> x]) = n
    BY <2>1, <2>2
  <2>4. QED
    BY <2>3 DEF x, Y, n
<1>. HIDE DEF regions, global, clauses, grid
<1>13. /\ F \in Seq(Token)
       /\ \A k \in 1..N :
            /\ off(k) \in Nat /\ off(k) + Len(clauses[k]) <= Len(F)
            /\ \A i \in 1..Len(clauses[k]) : F[off(k) + i] = clauses[k][i]
       /\ \A m \in 1..Len(F) : \E k \in 1..N : m - off(k) \in 1..Len(clauses[k])
  BY <1>8, Flattened
<1>. HIDE DEF F, L
<1>14. global \in Seq(Token) /\ L \in Seq(Token)
  <2>1. Of(Shared) \subseteq Token
    BY DEF Of
  <2>2. QED
    BY <1>11, <1>12, <2>1, SeqMonotonic
<1>15. /\ prompt \in Seq(Token)
       /\ Len(prompt) = p.words + Len(F) + Len(L) /\ Len(F) \in Nat /\ Len(L) \in Nat
       /\ \A m \in 1..p.words : prompt[m] = global[m]
       /\ \A m \in 1..Len(F) : prompt[p.words + m] = F[m]
       /\ \A m \in 1..Len(L) : prompt[p.words + Len(F) + m] = L[m]
  <2>. DEFINE gf == global \o F
              w == p.words
  <2>1. gf \in Seq(Token) /\ Len(gf) = w + Len(F)
        /\ \A m \in 1..(w + Len(F)) : gf[m] = IF m <= w THEN global[m] ELSE F[m - w]
    <3>. HIDE DEF w
    <3>1. Len(global) = w
      BY <1>12 DEF w
    <3>2. /\ global \o F \in Seq(Token) /\ Len(global \o F) = Len(global) + Len(F)
          /\ \A m \in 1..(Len(global) + Len(F)) :
               (global \o F)[m] = IF m <= Len(global) THEN global[m] ELSE F[m - Len(global)]
      BY <1>13, <1>14, ConcatProperties
    <3>3. QED
      BY <3>1, <3>2
  <2>2. w \in Nat /\ Len(F) \in Nat /\ Len(L) \in Nat
    BY <1>3, <1>13, <1>14, LenProperties
  <2>3. prompt = gf \o L
    BY DEF F, L
  <2>. HIDE DEF gf, prompt
  <2>4. gf \o L \in Seq(Token) /\ Len(gf \o L) = Len(gf) + Len(L)
        /\ \A m \in 1..(Len(gf) + Len(L)) :
             (gf \o L)[m] = IF m <= Len(gf) THEN gf[m] ELSE L[m - Len(gf)]
    BY <1>14, <2>1, ConcatProperties
  <2>. HIDE DEF w
  <2>. DEFINE lf == Len(F)
              ll == Len(L)
  <2>5. /\ prompt \in Seq(Token) /\ Len(prompt) = w + lf + ll
        /\ \A m \in 1..(w + lf + ll) :
             prompt[m] = IF m <= w + lf THEN gf[m] ELSE L[m - (w + lf)]
    BY <2>1, <2>3, <2>4
  <2>6. /\ lf \in Nat /\ ll \in Nat
        /\ \A m \in 1..(w + lf) : gf[m] = IF m <= w THEN global[m] ELSE F[m - w]
    BY <2>1, <2>2
  <2>. HIDE DEF lf, ll
  <2>7. \A m \in 1..w : prompt[m] = global[m]
    BY <2>2, <2>5, <2>6
  <2>8. ASSUME NEW m \in 1..lf PROVE prompt[w + m] = F[m]
    <3>1. /\ w + m \in 1..(w + lf + ll) /\ w + m \in 1..(w + lf) /\ w + m <= w + lf
          /\ ~(w + m <= w) /\ (w + m) - w = m
      BY <2>2, <2>6
    <3>2. QED
      BY <2>5, <2>6, <3>1
  <2>9. ASSUME NEW m \in 1..ll PROVE prompt[w + lf + m] = L[m]
    <3>1. /\ w + lf + m \in 1..(w + lf + ll) /\ ~(w + lf + m <= w + lf)
          /\ (w + lf + m) - (w + lf) = m
      BY <2>2, <2>6
    <3>2. QED
      BY <2>5, <3>1
  <2>10. QED
    BY <2>2, <2>5, <2>7, <2>8, <2>9 DEF w, lf, ll
<1>. HIDE DEF prompt
<1>. DEFINE n == Len(prompt)
            w == p.words
<1>16. ASSUME NEW k \in 1..N
       PROVE  /\ bound.spans[k].id # Shared /\ n >= 2
              /\ \A t \in bound.spans[k].text :
                   t \in 0..(n - 1) /\ prompt[t + 1].region = bound.spans[k].id
              /\ \A t \in Int : t + 1 - w - off(k) \in 1..Len(clauses[k]) =>
                                t \in bound.spans[k].text
  <2>. DEFINE s == clauses[k]
              o == off(k)
              f == Len(F)
              id == a[k].id
              l == Len(s)
  <2>1. s \in Seq(Of(id)) /\ l >= 2 /\ l \in Nat
    BY <1>7, LenProperties
  <2>2. o \in Nat /\ o + l <= f /\ \A i \in 1..l : F[o + i] = s[i]
    BY <1>13
  <2>3. w \in Nat /\ f \in Nat /\ n \in Nat /\ n >= w + f
    BY <1>3, <1>15
  <2>4. bound.spans[k].text = (w + o)..(w + o + l - 1) /\ bound.spans[k].id = id
    BY <1>2, <1>9, <1>10
  <2>5. \A i \in 1..l : s[i].region = id
    <3>. HIDE DEF s
    <3>1. \A i \in 1..l : s[i] \in Of(id)
      BY <2>1, ElementOfSeq
    <3>2. QED
      BY <3>1 DEF Of
  <2>6. \A m \in 1..f : prompt[w + m] = F[m]
    BY <1>15
  <2>7. id # Shared
    BY <1>5, <1>6
  <2>. HIDE DEF s, o, f, id, l, w, n
  <2>8. n >= 2
    BY <2>1, <2>2, <2>3
  <2>9. ASSUME NEW t \in (w + o)..(w + o + l - 1)
        PROVE  t \in 0..(n - 1) /\ prompt[t + 1].region = id
    <3>. DEFINE i == t + 1 - w - o
    <3>1. i \in 1..l /\ t + 1 = w + (o + i) /\ o + i \in 1..f /\ t \in 0..(n - 1)
      BY <2>1, <2>2, <2>3
    <3>. HIDE DEF i
    <3>2. prompt[t + 1] = s[i]
      BY <2>2, <2>6, <3>1
    <3>3. QED
      BY <2>5, <3>1, <3>2
  <2>10. \A t \in Int : t + 1 - w - o \in 1..l => t \in (w + o)..(w + o + l - 1)
    <3>1. w \in Nat /\ o \in Nat /\ l \in Nat
      BY <2>1, <2>2, <2>3
    <3>2. QED
      BY ONLY <3>1
  <2>11. \A t \in bound.spans[k].text :
           t \in 0..(n - 1) /\ prompt[t + 1].region = bound.spans[k].id
    BY <2>4, <2>9
  <2>12. \A t \in Int : t + 1 - w - o \in 1..l => t \in bound.spans[k].text
    BY <2>4, <2>10
  <2>13. bound.spans[k].id # Shared
    BY <2>4, <2>7
  <2>14. QED
    BY <2>8, <2>11, <2>12, <2>13 DEF o, l, s
<1>17. ASSUME NEW k \in 1..N, NEW v \in bound.spans[k].cover
       PROVE  /\ v \in bound.images
              /\ \E i \in DOMAIN p.regions :
                   /\ p.regions[i].id = bound.spans[k].id
                   /\ Overlap(Cell(v, grid), Clip(p.regions[i].box, p.width, p.height)) > 0
  <2>1. PICK i \in Live(p.regions) : a[k] = p.regions[i]
    BY <1>4
  <2>. DEFINE b == a[k].box
              x == p.width
              y == p.height
  <2>2. b \in PixelBox /\ x \in Nat \ {0} /\ y \in Nat \ {0} /\ OnCanvas(b, x, y)
    BY <1>5, <1>6 DEF Planned
  <2>3. v \in Rasterized(Clip(b, x, y), Grid(x, y))
    BY <1>2, <1>9, <1>10 DEF grid
  <2>4. v \in ImageTokens(Grid(x, y)) /\ Overlap(Cell(v, Grid(x, y)), Clip(b, x, y)) > 0
    <3>. HIDE DEF b, x, y
    <3>. QED
      BY <2>2, <2>3, CoveredTokens
  <2>5. i \in DOMAIN p.regions /\ p.regions[i].id = bound.spans[k].id /\ p.regions[i].box = b
    BY <1>2, <1>9, <1>10, <2>1 DEF Live
  <2>6. QED
    BY <1>2, <2>4, <2>5 DEF grid
<1>18. ASSUME NEW j \in 1..N, NEW k \in 1..N, bound.spans[j].id = bound.spans[k].id
       PROVE  j = k
  <2>1. \A i \in 1..N : bound.spans[i].id = a[i].id
    BY <1>2, <1>9, <1>10
  <2>2. a[j].id = a[k].id
    BY <1>18, <2>1
  <2>3. QED
    BY <1>4, <2>2 DEF DistinctIds
<1>19. ASSUME NEW t \in 0..(n - 1)
       PROVE  prompt[t + 1].region = Shared \/ \E k \in 1..N : t \in bound.spans[k].text
  <2>. DEFINE f == Len(F)
              l == Len(L)
              m == t + 1
  <2>1. w \in Nat /\ f \in Nat /\ l \in Nat /\ n = w + f + l
    BY <1>3, <1>15
  <2>2. m \in 1..(w + f + l) /\ t \in Int
    BY <2>1
  <2>3. CASE m <= w
    <3>1. m \in 1..Len(global)
      BY <1>12, <2>1, <2>2, <2>3
    <3>2. global[m] \in Of(Shared)
      BY <1>12, <3>1, ElementOfSeq
    <3>3. QED
      BY <1>12, <1>15, <3>1, <3>2 DEF Of
  <2>4. CASE m > w /\ m <= w + f
    <3>1. m - w \in 1..f
      BY <2>1, <2>2, <2>4
    <3>2. PICK k \in 1..N : (m - w) - off(k) \in 1..Len(clauses[k])
      BY <1>13, <3>1
    <3>3. off(k) \in Nat
      BY <1>13
    <3>4. t + 1 - w - off(k) \in 1..Len(clauses[k])
      <4>. DEFINE o == off(k)
      <4>1. o \in Nat /\ (m - w) - o \in 1..Len(clauses[k])
        BY <3>2, <3>3
      <4>2. (m - w) - o = t + 1 - w - o
        <5>. HIDE DEF o
        <5>. HIDE DEF w
        <5>1. o \in Nat /\ w \in Nat /\ t \in Int
          BY <2>1, <2>2, <4>1
        <5>2. QED
          BY <5>1
      <4>3. QED
        BY <4>1, <4>2
    <3>5. t \in Int
      BY <2>2
    <3>6. t \in bound.spans[k].text
      <4>. HIDE DEF m, w, off
      <4>. QED
        BY <1>16, <3>4, <3>5
    <3>7. QED
      BY <3>6
  <2>5. CASE m > w + f
    <3>. DEFINE i == m - (w + f)
    <3>1. i \in 1..l /\ m = w + f + i
      BY <2>1, <2>2, <2>5
    <3>2. L[i] \in Of(Shared)
      <4>. HIDE DEF i
      <4>. QED
        BY <1>11, <3>1, ElementOfSeq
    <3>3. prompt[m] = L[i]
      <4>. HIDE DEF i, m
      <4>. QED
        BY <1>15, <3>1
    <3>4. QED
      BY <3>2, <3>3 DEF Of
  <2>6. QED
    BY <2>1, <2>2, <2>3, <2>4, <2>5
<1>20. DOMAIN bound.spans = 1..N /\ n \in Nat
  BY <1>2, <1>3, <1>10, <1>15
<1>21. Spanned(p, plan, bound)
  <2>1. plan.prompt = prompt /\ plan.grid = grid /\ grid = Grid(p.width, p.height)
    BY <1>1 DEF grid
  <2>2. bound.texts = Len(prompt) + Suffix /\ bound.images = ImageTokens(grid)
        /\ Len(prompt) \in Nat /\ N \in Nat
    BY <1>2, <1>4, <1>20
  <2>. HIDE DEF plan, bound
  <2>3. QED
    BY <2>1, <2>2, <1>16, <1>17, <1>18, <1>19, <1>20 DEF Spanned
<1>22. QED
  BY <1>21 DEF plan, bound

-----------------------------------------------------------------------------
(* Who owns the tokens of a bound prompt.                                  *)

LEMMA SubjectNumbers ==
  ASSUME NEW b, NEW n \in Nat, DOMAIN b.spans = 1..n
  PROVE  \A j, k \in SubjectSpans(b) :
           /\ OwnerNumber(b, k) \in Nat \ {0}
           /\ OwnerNumber(b, j) = OwnerNumber(b, k) => j = k
<1>. DEFINE U(k) == {j \in 1..k : b.spans[j].role = "subject"}
<1>1. ASSUME NEW k \in SubjectSpans(b)
      PROVE  /\ k \in 1..n /\ k \in U(k) /\ IsFiniteSet(U(k)) /\ Cardinality(U(k)) \in Nat
             /\ Cardinality(U(k)) # 0
  <2>1. k \in 1..n /\ k \in U(k)
    BY DEF SubjectSpans
  <2>2. IsFiniteSet(1..k) /\ U(k) \in SUBSET (1..k)
    BY <2>1, FS_Interval
  <2>. HIDE DEF U
  <2>3. IsFiniteSet(U(k))
    BY <2>2, FS_Subset
  <2>4. QED
    BY <2>1, <2>3, FS_CardinalityType, FS_EmptySet
<1>2. ASSUME NEW j \in SubjectSpans(b), NEW k \in SubjectSpans(b), j < k
      PROVE  Cardinality(U(j)) # Cardinality(U(k))
  <2>1. U(j) \in SUBSET U(k) /\ k \notin U(j)
    <3>1. j \in 1..n /\ k \in 1..n
      BY <1>1
    <3>2. 1..j \subseteq 1..k /\ k \notin 1..j
      BY <1>2, <3>1
    <3>3. QED
      BY <3>2
  <2>. HIDE DEF U
  <2>2. U(j) # U(k)
    BY <1>1, <2>1
  <2>3. QED
    BY <1>1, <2>1, <2>2, FS_Subset
<1>3. \A k : OwnerNumber(b, k) = Cardinality(U(k))
  BY DEF OwnerNumber
<1>. HIDE DEF U
<1>4. ASSUME NEW j \in SubjectSpans(b), NEW k \in SubjectSpans(b),
             Cardinality(U(j)) = Cardinality(U(k))
      PROVE  j = k
  <2>1. j \in Int /\ k \in Int
    BY <1>1
  <2>2. ~(j < k) /\ ~(k < j)
    BY <1>2, <1>4
  <2>3. QED
    BY <2>1, <2>2
<1>5. QED
  BY <1>1, <1>3, <1>4

LEMMA FirstOf ==
  ASSUME NEW n \in Nat, NEW S \in SUBSET (1..n), S # {}
  PROVE  \E k \in S : \A j \in S : k <= j
<1>1. IsWellFoundedOn(Below, Nat)
  BY NatLessThanWellFounded DEF Below, OpToRel
<1>2. S \subseteq Nat
  OBVIOUS
<1>3. PICK k \in S : \A j \in S : <<j, k>> \notin Below
  BY <1>1, <1>2, WFMin
<1>4. ASSUME NEW j \in S PROVE k <= j
  <2>1. j \in Nat /\ k \in Nat /\ <<j, k>> \notin Below
    BY <1>2, <1>3
  <2>2. QED
    BY <2>1 DEF Below
<1>5. QED
  BY <1>4

(* The override tells the streams apart by their lengths.                  *)
LEMMA StreamsAreRecognized ==
  ASSUME NEW b, b.texts \in Nat, Cardinality(b.images) \in Nat, Layers < Cardinality(b.images)
  PROVE  /\ Recognized(Call("layerwise", b), b) = "original"
         /\ b.texts >= 2 => \A stream \in {"refiner", "main"} :
                              Recognized(Call(stream, b), b) = stream
<1>. DEFINE x == b.texts
            y == Cardinality(b.images)
<1>1. x \in Nat /\ y \in Nat /\ Layers \in Nat \ {0} /\ Layers < y
  BY ShapeAssumption
<1>2. Layers = x => x % x = 0
  <2>. HIDE DEF x
  <2>. SUFFICES ASSUME x \in Nat \ {0} PROVE x % x = 0
    BY <1>1
  <2>1. (1 * x + 0) % x = 0
    <3>1. 1 \in Nat /\ 0 \in 0..(x - 1)
      OBVIOUS
    <3>2. QED
      BY <3>1, QuotientOfSum
  <2>2. 1 * x + 0 = x
    OBVIOUS
  <2>3. QED
    BY <2>1, <2>2
<1>3. /\ Call("layerwise", b) = [length |-> Layers, batch |-> x]
      /\ Call("refiner", b) = [length |-> x, batch |-> 1]
      /\ Call("main", b) = [length |-> x + y, batch |-> 1]
  BY DEF Call
<1>. HIDE DEF x, y
<1>4. ASSUME NEW l, NEW c
      PROVE  Recognized([length |-> l, batch |-> c], b) =
               IF l = x + y THEN "main"
               ELSE IF l = x /\ ~(l = Layers /\ c >= x /\ c % x = 0) THEN "refiner"
               ELSE "original"
  <2>1. /\ x = b.texts /\ y = Cardinality(b.images)
        /\ x # x + y
    BY <1>1 DEF x, y
  <2>3. CASE l = x + y
    BY <2>1, <2>3 DEF Recognized
  <2>4. CASE l # x + y /\ l = x /\ ~(l = Layers /\ c >= x /\ c % x = 0)
    BY <2>1, <2>4 DEF Recognized
  <2>5. CASE l # x + y /\ ~(l = x /\ ~(l = Layers /\ c >= x /\ c % x = 0))
    BY <2>1, <2>5 DEF Recognized
  <2>6. QED
    BY <2>3, <2>4, <2>5
<1>5. Recognized(Call("layerwise", b), b) = "original"
  BY <1>1, <1>2, <1>3, <1>4
<1>6. x >= 2 => Recognized(Call("refiner", b), b) = "refiner"
  BY <1>1, <1>3, <1>4
<1>7. Recognized(Call("main", b), b) = "main"
  BY <1>1, <1>3, <1>4
<1>8. QED
  BY <1>5, <1>6, <1>7 DEF x

(* A standard LoRA of subject regions changes tokens of its own only, and   *)
(* no other token reads their text or a key that a target changes.         *)
LEMMA DeltaOfRoute ==
  ASSUME NEW p, NEW plan, NEW bound, Spanned(p, plan, bound),
         Cardinality(bound.images) \in Nat, Layers < Cardinality(bound.images),
         NEW l, l.strength # 0, ~l.global, ~RouteRefused(l, bound), l.mode = "standard",
         \A id \in l.regions : SpanOf(bound, id).role = "subject"
  PROVE  /\ \A t \in l.targets : RouteAllows(Route(l, bound), t) =>
              Gated(Route(l, bound), t, bound) \subseteq Home(l, p, plan)
         /\ \A stream \in {"refiner", "main"} :
              \A query \in Positions(stream, bound) \ Home(l, p, plan),
                 key \in PrivateKeys(Route(l, bound), Home(l, p, plan), stream, bound) :
                   Hidden(stream, bound, query, key)
<1>. DEFINE n == Len(plan.prompt)
            home == Home(l, p, plan)
            r == Route(l, bound)
            N == n + Suffix
<1>1. /\ n \in Nat /\ Suffix \in Nat /\ bound.texts = N /\ N \in Nat /\ N >= n
      /\ bound.images = ImageTokens(plan.grid)
  BY ShapeAssumption DEF Spanned
<1>2. PICK m \in Nat : DOMAIN bound.spans = 1..m
  BY DEF Spanned
<1>3. \A v \in bound.images : v \in Nat
  BY <1>1 DEF ImageTokens
<1>4. /\ r.lora = l /\ r.global = FALSE /\ r.mode = "standard"
      /\ r.text = UNION {SpanOf(bound, id).text : id \in l.regions}
      /\ r.image = UNION {SpanOf(bound, id).cover : id \in l.regions}
  BY DEF Route
<1>5. l.regions # {} /\ \A id \in l.regions : HasSpan(bound, id)
  BY DEF RouteRefused
<1>6. ASSUME NEW id \in l.regions
      PROVE  \E k \in 1..m : /\ SpanOf(bound, id) = bound.spans[k] /\ bound.spans[k].id = id
                             /\ k \in SubjectSpans(bound)
  <2>1. \E s \in Range(bound.spans) : s.id = id
    BY <1>5 DEF HasSpan
  <2>2. SpanOf(bound, id) \in Range(bound.spans) /\ SpanOf(bound, id).id = id
    BY <2>1 DEF SpanOf
  <2>3. PICK k \in 1..m : SpanOf(bound, id) = bound.spans[k]
    BY <1>2, <2>2 DEF Range
  <2>4. QED
    BY <1>2, <2>2, <2>3 DEF SubjectSpans
<1>7. n >= 2
  BY <1>2, <1>5, <1>6 DEF Spanned
<1>8. home = {t \in 0..(n - 1) : plan.prompt[t + 1].region \in l.regions}
               \cup {N + v : v \in {v \in bound.images : \E i \in DOMAIN p.regions :
                        /\ p.regions[i].id \in l.regions
                        /\ Overlap(Cell(v, plan.grid),
                                   Clip(p.regions[i].box, p.width, p.height)) > 0}}
  BY <1>1 DEF Home
<1>. HIDE DEF home, r, n, N
<1>9. ASSUME NEW k \in 1..m, bound.spans[k].id \in l.regions
      PROVE  /\ bound.spans[k].text \subseteq home
             /\ \A v \in bound.spans[k].cover : N + v \in home
  <2>1. \A t \in bound.spans[k].text :
          t \in 0..(n - 1) /\ plan.prompt[t + 1].region = bound.spans[k].id
    BY <1>2 DEF Spanned, n
  <2>2. \A v \in bound.spans[k].cover :
          /\ v \in bound.images
          /\ \E i \in DOMAIN p.regions :
               /\ p.regions[i].id = bound.spans[k].id
               /\ Overlap(Cell(v, plan.grid), Clip(p.regions[i].box, p.width, p.height)) > 0
    BY <1>2 DEF Spanned
  <2>3. QED
    BY <1>8, <1>9, <2>1, <2>2
<1>10. r.text \subseteq home /\ \A v \in r.image : N + v \in home
  BY <1>4, <1>6, <1>9
<1>11. ASSUME NEW t \in l.targets PROVE Gated(r, t, bound) \subseteq home
  BY <1>1, <1>10 DEF Gated, SequenceMask
<1>12. ASSUME NEW stream \in {"refiner", "main"}, NEW key \in PrivateKeys(r, home, stream, bound)
       PROVE  key \in home /\ key < N
  BY <1>1, <1>4 DEF PrivateKeys, IsText, RouteAllows
<1>13. ASSUME NEW key \in home, key < N
       PROVE  \E k \in SubjectSpans(bound) : /\ bound.spans[k].id \in l.regions
                                             /\ Owner(bound, key) = OwnerNumber(bound, k)
  <2>1. key \in 0..(n - 1) /\ plan.prompt[key + 1].region \in l.regions
    BY <1>1, <1>3, <1>8, <1>13
  <2>2. plan.prompt[key + 1].region # Shared
    <3>1. PICK k \in 1..m : bound.spans[k].id = plan.prompt[key + 1].region
      BY <1>6, <2>1
    <3>2. QED
      BY <1>2, <3>1 DEF Spanned
  <2>3. PICK j \in 1..m : key \in bound.spans[j].text
    BY <1>2, <2>1, <2>2 DEF Spanned, n
  <2>4. bound.spans[j].id = plan.prompt[key + 1].region
    BY <1>2, <2>3 DEF Spanned
  <2>5. j \in SubjectSpans(bound)
    <3>1. PICK k \in SubjectSpans(bound) : k \in 1..m /\ bound.spans[k].id = bound.spans[j].id
      BY <1>6, <2>1, <2>4
    <3>2. j = k
      BY <1>2, <3>1 DEF Spanned
    <3>3. QED
      BY <3>1, <3>2
  <2>. DEFINE of == {k \in SubjectSpans(bound) : key \in bound.spans[k].text}
  <2>6. \A k \in of : k = j
    <3>1. \A k \in of : k \in 1..m /\ bound.spans[k].id = bound.spans[j].id
      BY <1>2, <2>4 DEF Spanned, SubjectSpans
    <3>2. QED
      BY <1>2, <3>1 DEF Spanned
  <2>7. of = {j}
    BY <2>3, <2>5, <2>6
  <2>8. TextOwner(bound, key) = IF of = {} THEN 0 ELSE OwnerNumber(bound, CHOOSE k \in of : TRUE)
    BY DEF TextOwner
  <2>. HIDE DEF of
  <2>9. TextOwner(bound, key) = OwnerNumber(bound, j)
    BY <2>7, <2>8
  <2>10. Owner(bound, key) = OwnerNumber(bound, j)
    BY <1>1, <1>13, <2>9 DEF Owner, IsText
  <2>11. QED
    BY <2>1, <2>4, <2>5, <2>10
<1>14. ASSUME NEW stream \in {"refiner", "main"}, NEW query \in Positions(stream, bound)
       PROVE  \/ Owner(bound, query) = 0
              \/ \E k \in SubjectSpans(bound) :
                   /\ Owner(bound, query) = OwnerNumber(bound, k)
                   /\ bound.spans[k].id \in l.regions => query \in home
  <2>1. query \in Nat
    BY <1>1 DEF Positions
  <2>2. CASE query < N
    <3>. DEFINE of == {k \in SubjectSpans(bound) : query \in bound.spans[k].text}
    <3>1. Owner(bound, query) = IF of = {} THEN 0 ELSE OwnerNumber(bound, CHOOSE k \in of : TRUE)
      BY <1>1, <2>2 DEF Owner, IsText, TextOwner
    <3>2. CASE of = {}
      BY <3>1, <3>2
    <3>3. CASE of # {}
      <4>1. PICK k \in of : Owner(bound, query) = OwnerNumber(bound, k)
        BY <3>1, <3>3
      <4>2. bound.spans[k].id \in l.regions => query \in home
        BY <1>2, <1>9 DEF SubjectSpans
      <4>3. QED
        BY <4>1, <4>2
    <3>4. QED
      BY <3>2, <3>3
  <2>3. CASE ~(query < N)
    <3>. DEFINE v == query - N
                of == {k \in SubjectSpans(bound) : v \in bound.spans[k].cover}
    <3>1. N + v = query
      BY <1>1, <2>1
    <3>2. Owner(bound, query) =
            IF of = {} THEN 0
            ELSE OwnerNumber(bound, CHOOSE k \in of : \A j \in of : k <= j)
      BY <1>1, <2>3 DEF Owner, IsText, ImageOwner
    <3>3. of \in SUBSET (1..m)
      BY <1>2 DEF SubjectSpans
    <3>. HIDE DEF v
    <3>4. CASE of = {}
      BY <3>2, <3>4
    <3>5. CASE of # {}
      <4>. DEFINE k == CHOOSE k \in of : \A j \in of : k <= j
      <4>1. \E i \in of : \A j \in of : i <= j
        <5>. HIDE DEF of
        <5>. QED
          BY <3>3, <3>5, FirstOf
      <4>2. k \in of
        <5>. HIDE DEF of
        <5>. QED
          BY <4>1
      <4>3. Owner(bound, query) = OwnerNumber(bound, k)
        BY <3>2, <3>5
      <4>. HIDE DEF k
      <4>4. k \in SubjectSpans(bound) /\ k \in 1..m /\ v \in bound.spans[k].cover
        BY <3>3, <4>2
      <4>5. bound.spans[k].id \in l.regions => query \in home
        BY <1>9, <3>1, <4>4
      <4>6. QED
        BY <4>3, <4>4, <4>5
    <3>6. QED
      BY <3>4, <3>5
  <2>4. QED
    BY <2>2, <2>3
<1>15. \A j, k \in SubjectSpans(bound) :
         /\ OwnerNumber(bound, k) \in Nat \ {0}
         /\ OwnerNumber(bound, j) = OwnerNumber(bound, k) => j = k
  BY <1>2, SubjectNumbers
<1>16. ASSUME NEW stream \in {"refiner", "main"},
              NEW query \in Positions(stream, bound) \ home,
              NEW key \in PrivateKeys(r, home, stream, bound)
       PROVE  Hidden(stream, bound, query, key)
  <2>1. key \in home /\ key < N
    BY <1>12
  <2>2. PICK k \in SubjectSpans(bound) : /\ bound.spans[k].id \in l.regions
                                         /\ Owner(bound, key) = OwnerNumber(bound, k)
    BY <1>13, <2>1
  <2>3. Owner(bound, key) > 0
    BY <1>15, <2>2
  <2>4. Owner(bound, query) # Owner(bound, key)
    BY <1>14, <1>15, <2>2
  <2>5. Blocked(bound, query, key)
    BY <1>1, <2>1, <2>3, <2>4 DEF Blocked, IsText
  <2>6. bound.texts \in Nat /\ bound.texts >= 2
    BY <1>1, <1>7
  <2>7. Recognized(Call(stream, bound), bound) = stream
    BY <2>6, StreamsAreRecognized
  <2>8. QED
    BY <2>5, <2>7 DEF Hidden
<1>17. QED
  BY <1>4, <1>11, <1>16 DEF home, r

-----------------------------------------------------------------------------
(* The regions of an edit keep their own identifiers.                      *)

LEMMA RegionsOfEdit ==
  ASSUME NEW references \in Seq(RegionDefinition), NEW edits \in Seq(RegionDefinition),
         DistinctIds(references), DistinctIds(edits),
         \A i \in DOMAIN references, j \in DOMAIN edits : references[i].id # edits[j].id,
         NEW instruction \in Nat, NEW preserve \in BOOLEAN
  PROVE  /\ EditRegions(references, edits, instruction, preserve) \in Seq(RegionDefinition)
         /\ DistinctIds(EditRegions(references, edits, instruction, preserve))
<1>. DEFINE Kept(r) == [r EXCEPT !.identity = @ /\ preserve]
            Local(r) == [r EXCEPT !.prompt = @ \/ instruction > 0, !.role = "edit"]
            kept == [k \in DOMAIN references |-> Kept(references[k])]
            local == [k \in DOMAIN edits |-> Local(edits[k])]
            added == Chosen(local, Live(local))
            all == EditRegions(references, edits, instruction, preserve)
<1>1. all = kept \o added
  BY DEF EditRegions
<1>2. ASSUME NEW r \in RegionDefinition
      PROVE  Kept(r) \in RegionDefinition /\ Kept(r).id = r.id
  BY DEF RegionDefinition
<1>3. ASSUME NEW r \in RegionDefinition
      PROVE  Local(r) \in RegionDefinition /\ Local(r).id = r.id
  <2>1. (r.prompt \/ instruction > 0) \in BOOLEAN
    OBVIOUS
  <2>2. QED
    BY <2>1 DEF RegionDefinition
<1>. HIDE DEF Kept, Local
<1>4. PICK m \in Nat : DOMAIN references = 1..m
  BY LenProperties
<1>5. PICK n \in Nat : DOMAIN edits = 1..n
  BY LenProperties
<1>6. /\ \A k \in 1..m : references[k] \in RegionDefinition
      /\ \A k \in 1..n : edits[k] \in RegionDefinition
  BY <1>4, <1>5, LenProperties, ElementOfSeq
<1>7. /\ kept \in [1..m -> RegionDefinition] /\ \A k \in 1..m : kept[k].id = references[k].id
      /\ local \in [1..n -> RegionDefinition] /\ \A k \in 1..n : local[k].id = edits[k].id
  <2>1. ASSUME NEW k \in 1..m
        PROVE  kept[k] \in RegionDefinition /\ kept[k].id = references[k].id
    <3>1. kept[k] = Kept(references[k])
      BY <1>4
    <3>. HIDE DEF kept
    <3>2. QED
      BY <1>2, <1>6, <3>1
  <2>2. ASSUME NEW k \in 1..n
        PROVE  local[k] \in RegionDefinition /\ local[k].id = edits[k].id
    <3>1. local[k] = Local(edits[k])
      BY <1>5
    <3>. HIDE DEF local
    <3>2. QED
      BY <1>3, <1>6, <3>1
  <2>3. kept = [k \in 1..m |-> kept[k]] /\ local = [k \in 1..n |-> local[k]]
    BY <1>4, <1>5
  <2>. HIDE DEF kept, local
  <2>4. QED
    BY <2>1, <2>2, <2>3
<1>. HIDE DEF kept, local
<1>8. /\ kept \in Seq(RegionDefinition) /\ Len(kept) = m /\ DOMAIN kept = 1..m
      /\ local \in Seq(RegionDefinition) /\ DOMAIN local = 1..n
  <2>1. kept \in Seq(RegionDefinition) /\ local \in Seq(RegionDefinition)
    BY <1>7, SeqDef
  <2>2. DOMAIN kept = 1..m /\ DOMAIN local = 1..n
    BY <1>7
  <2>3. QED
    BY <2>1, <2>2, LenProperties
<1>9. Live(local) \in SUBSET (DOMAIN local)
  BY DEF Live
<1>10. \A i, j \in 1..n : local[i].id = local[j].id => i = j
  BY <1>5, <1>7 DEF DistinctIds
<1>11. /\ added \in Seq(RegionDefinition)
       /\ \A k \in DOMAIN added : \E i \in Live(local) : added[k] = local[i]
       /\ \A j, k \in DOMAIN added : added[j] = added[k] => j = k
  <2>1. \A i, j \in Live(local) : local[i] = local[j] => i = j
    BY <1>8, <1>9, <1>10
  <2>2. QED
    BY <1>8, <1>9, <2>1, ChosenOnes, ChosenOnce
<1>. HIDE DEF added, all
<1>12. PICK l \in Nat : DOMAIN added = 1..l /\ Len(added) = l
  BY <1>11, LenProperties
<1>13. /\ all \in Seq(RegionDefinition) /\ Len(all) = m + l
       /\ \A k \in 1..(m + l) : all[k] = IF k <= m THEN kept[k] ELSE added[k - m]
  <2>1. /\ kept \o added \in Seq(RegionDefinition) /\ Len(kept \o added) = Len(kept) + Len(added)
        /\ \A k \in 1..(Len(kept) + Len(added)) :
             (kept \o added)[k] = IF k <= Len(kept) THEN kept[k] ELSE added[k - Len(kept)]
    <3>1. kept \in Seq(RegionDefinition) /\ added \in Seq(RegionDefinition)
      BY <1>8, <1>11
    <3>2. QED
      BY <3>1, ConcatProperties
  <2>2. QED
    BY <1>1, <1>8, <1>12, <2>1
<1>14. DOMAIN all = 1..(m + l)
  BY <1>13, LenProperties
<1>15. ASSUME NEW k \in 1..(m + l)
       PROVE  \/ k \in 1..m /\ all[k].id = references[k].id
              \/ /\ k - m \in 1..l /\ all[k] = added[k - m]
                 /\ \E i \in 1..n : added[k - m] = local[i] /\ all[k].id = edits[i].id
  <2>1. CASE k <= m
    BY <1>7, <1>13, <2>1
  <2>2. CASE ~(k <= m)
    <3>. DEFINE q == k - m
    <3>1. q \in 1..l
      BY <2>2
    <3>2. all[k] = added[q]
      BY <1>13, <2>2
    <3>. HIDE DEF q
    <3>3. PICK i \in 1..n : added[q] = local[i]
      BY <1>8, <1>9, <1>11, <1>12, <3>1
    <3>4. QED
      BY <1>7, <3>1, <3>2, <3>3 DEF q
  <2>3. QED
    BY <2>1, <2>2
<1>16. ASSUME NEW j \in 1..(m + l), NEW k \in 1..(m + l), all[j].id = all[k].id
       PROVE  j = k
  <2>. DEFINE Apart(x) == \A i \in 1..n : x # edits[i].id
  <2>4. \A i \in 1..m : Apart(references[i].id)
    BY <1>4, <1>5
  <2>1. CASE j \in 1..m /\ all[j].id = references[j].id
    <3>1. k \in 1..m /\ all[k].id = references[k].id
      BY <1>15, <1>16, <2>1, <2>4
    <3>2. QED
      BY <1>4, <1>16, <2>1, <3>1 DEF DistinctIds
  <2>2. CASE j - m \in 1..l /\ \E i \in 1..n : added[j - m] = local[i] /\ all[j].id = edits[i].id
    <3>1. PICK i \in 1..n : added[j - m] = local[i] /\ all[j].id = edits[i].id
      BY <2>2
    <3>2. /\ k - m \in 1..l
          /\ \E h \in 1..n : added[k - m] = local[h] /\ all[k].id = edits[h].id
      BY <1>15, <1>16, <2>4, <3>1
    <3>3. PICK h \in 1..n : added[k - m] = local[h] /\ all[k].id = edits[h].id
      BY <3>2
    <3>4. h = i
      BY <1>5, <1>16, <3>1, <3>3 DEF DistinctIds
    <3>5. added[j - m] = added[k - m] /\ j - m \in DOMAIN added /\ k - m \in DOMAIN added
      BY <1>12, <2>2, <3>1, <3>2, <3>3, <3>4
    <3>6. j - m = k - m
      BY <1>11, <3>5
    <3>7. QED
      BY <3>6
  <2>3. QED
    BY <1>15, <2>1, <2>2
<1>17. DistinctIds(all)
  BY <1>14, <1>16 DEF DistinctIds
<1>18. QED
  BY <1>13, <1>17 DEF all

LEMMA NothingActive ==
  ASSUME NEW p, p.regions = <<>>
  PROVE  /\ DOMAIN Active(p.regions) = {}
         /\ Bind(CompilePlan(p)).spans = <<>>
<1>1. <<>> \in Seq(RegionDefinition) /\ DOMAIN <<>> = {}
  OBVIOUS
<1>2. Live(<<>>) = {}
  BY DEF Live
<1>. DEFINE a == Active(<<>>)
<1>3. /\ a \in Seq(RegionDefinition)
      /\ \A k \in DOMAIN a : \E i \in Live(<<>>) : a[k] = <<>>[i]
  BY <1>1, ActiveRegions
<1>4. DOMAIN a = {}
  BY <1>2, <1>3
<1>5. DOMAIN CompilePlan(p).regions = DOMAIN a
  BY DEF CompilePlan
<1>6. DOMAIN Bind(CompilePlan(p)).spans = DOMAIN CompilePlan(p).regions
  BY DEF Bind
<1>. HIDE DEF a
<1>7. DOMAIN Bind(CompilePlan(p)).spans = {}
  BY <1>4, <1>5, <1>6
<1>8. Bind(CompilePlan(p)).spans = <<>>
  <2>. DEFINE plan == CompilePlan(p)
              f == [k \in DOMAIN plan.regions |->
                     [id    |-> plan.regions[k].id,
                      role  |-> plan.regions[k].role,
                      cover |-> plan.regions[k].cover,
                      text  |-> plan.regions[k].first
                                  ..(plan.regions[k].first + plan.regions[k].size - 1)]]
  <2>1. Bind(plan).spans = f
    BY DEF Bind
  <2>2. DOMAIN f = {} /\ f = [k \in DOMAIN f |-> f[k]]
    BY <1>7, <2>1
  <2>. HIDE DEF f
  <2>3. f = <<>>
    BY <2>2
  <2>4. QED
    BY <2>1, <2>3
<1>9. QED
  BY <1>4, <1>8 DEF a
=============================================================================
