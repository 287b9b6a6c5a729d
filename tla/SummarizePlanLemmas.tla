-------------------------- MODULE SummarizePlanLemmas --------------------------
(***************************************************************************)
(* What the operators of SummarizePlan compute: the numbering of the pairs,*)
(* the union-find forest and the connected components. Everything here is  *)
(* about one state; the steps are in SummarizeGroupsProofs.                *)
(***************************************************************************)
EXTENDS SummarizePlan, FiniteSetTheorems, WellFoundedInduction, TLAPS

(* Induction over the naturals, for a set in place of a predicate *)

LEMMA LeastNatural ==
    ASSUME NEW T \in SUBSET Nat, T # {}
    PROVE  \E x \in T : \A y \in T : x <= y
<1>1. T \subseteq Nat
  OBVIOUS
<1>2. IsWellFoundedOn(OpToRel(<, Nat), Nat)
  BY NatLessThanWellFounded
<1>3. PICK x \in T : \A y \in T : ~ (<<y, x>> \in OpToRel(<, Nat))
  BY <1>2, WFMin
<1>4. \A y \in T : ~(y < x)
  BY <1>3 DEF OpToRel
<1>5. QED BY <1>1, <1>4

LEMMA NatInductionSet ==
    ASSUME NEW A, 0 \in A, \A n \in Nat : n \in A => n + 1 \in A
    PROVE  Nat \subseteq A
<1>1. SUFFICES ASSUME Nat \ A # {} PROVE FALSE
  OBVIOUS
<1>2. PICK x \in Nat \ A : \A y \in Nat \ A : x <= y
  BY <1>1, LeastNatural
<1>3. x # 0 /\ x - 1 \in Nat
  BY <1>2
<1>4. x - 1 \in A
  BY <1>2, <1>3
<1>5. QED BY <1>2, <1>3, <1>4

\* A recursive function of the form that Root uses satisfies its equation.
LEMMA PathExists ==
    ASSUME NEW u, NEW f, NEW d \in Nat, NEW path,
           path = CHOOSE p : p = [n \in 0 .. d |-> IF n = 0 THEN f ELSE u[p[n - 1]]]
    PROVE  path = [n \in 0 .. d |-> IF n = 0 THEN f ELSE u[path[n - 1]]]
<1> DEFINE Sol(p, k) == p = [n \in 0 .. k |-> IF n = 0 THEN f ELSE u[p[n - 1]]]
           A == {k \in Nat : \E p : Sol(p, k)}
<1>1. 0 \in A
  <2> DEFINE p == [n \in 0 .. 0 |-> f]
  <2>1. Sol(p, 0)
    OBVIOUS
  <2>2. QED BY <2>1
<1>2. ASSUME NEW k \in Nat, k \in A PROVE k + 1 \in A
  <2>1. PICK p : Sol(p, k)
    BY <1>2
  <2> DEFINE q == [n \in 0 .. k + 1 |-> IF n = k + 1 THEN u[p[k]] ELSE p[n]]
  <2>2. \A n \in 0 .. k : q[n] = p[n]
    OBVIOUS
  <2>3. \A n \in 0 .. k : p[n] = IF n = 0 THEN f ELSE u[p[n - 1]]
    BY <2>1
  <2>4. \A n \in 0 .. k + 1 : q[n] = IF n = 0 THEN f ELSE u[q[n - 1]]
    BY <2>2, <2>3
  <2>5. Sol(q, k + 1)
    BY <2>4
  <2> HIDE DEF q, Sol
  <2>6. \E s : Sol(s, k + 1)
    BY <2>5
  <2>7. QED BY <2>6
<1>3. d \in A
  <2> HIDE DEF A
  <2>1. QED BY <1>1, <1>2, NatInductionSet
<1>4. PICK p : Sol(p, d)
  BY <1>3
<1>5. QED BY <1>4

-----------------------------------------------------------------------------
(* The path of Root *)

RootTypes == parents \subseteq ParentRows /\ ranks \subseteq RankRows

LEMMA UpType ==
    ASSUME RootTypes, NEW seq
    PROVE  Up(seq) \in [Fibers -> Fibers]
<1> SUFFICES ASSUME NEW f \in Fibers
             PROVE  LET rows == Newest({r \in parents : r.child = f /\ r.seq < seq})
                    IN (IF rows = {} THEN f ELSE (CHOOSE r \in rows : TRUE).up) \in Fibers
  BY DEF Up
<1> DEFINE rows == Newest({r \in parents : r.child = f /\ r.seq < seq})
<1>1. rows \subseteq parents
  BY DEF Newest
<1>2. CASE rows = {}
  BY <1>2
<1>3. CASE rows # {}
  <2>1. (CHOOSE r \in rows : TRUE) \in rows
    BY <1>3
  <2>2. QED BY <1>1, <1>3, <2>1 DEF RootTypes, ParentRows
<1>4. QED BY <1>2, <1>3

LEMMA RankType ==
    ASSUME RootTypes, NEW f, NEW seq
    PROVE  Rank(f, seq) \in Nat
<1> DEFINE rows == Newest({r \in ranks : r.of = f /\ r.seq < seq})
<1>1. rows \subseteq ranks
  BY DEF Newest
<1>2. CASE rows = {}
  BY <1>2 DEF Rank
<1>3. CASE rows # {}
  <2>1. (CHOOSE r \in rows : TRUE) \in rows
    BY <1>3
  <2>2. (CHOOSE r \in rows : TRUE).rank \in Nat
    BY <1>1, <2>1 DEF RootTypes, RankRows
  <2>3. QED BY <1>3, <2>2 DEF Rank
<1>4. QED BY <1>2, <1>3

IsPath(path, f, u) ==
    /\ path \in [0 .. MaxDepth - 1 -> Fibers]
    /\ path[0] = f
    /\ \A n \in 1 .. MaxDepth - 1 : path[n] = u[path[n - 1]]

LEMMA RootPath ==
    ASSUME PlanAssumption, RootTypes, NEW f \in Fibers, NEW seq
    PROVE  \E path : IsPath(path, f, Up(seq)) /\ Root(f, seq) = path[MaxDepth - 1]
<1> DEFINE u == Up(seq)
           d == MaxDepth - 1
           path == CHOOSE p : p = [n \in 0 .. d |-> IF n = 0 THEN f ELSE u[p[n - 1]]]
           A == {n \in Nat : n <= d => path[n] \in Fibers}
<1>1. d \in Nat
  BY DEF PlanAssumption
<1>2. u \in [Fibers -> Fibers]
  BY UpType
<1>3. path = [n \in 0 .. d |-> IF n = 0 THEN f ELSE u[path[n - 1]]]
  <2> HIDE DEF u, d
  <2>1. QED BY <1>1, PathExists
<1>4. Root(f, seq) = path[d]
  BY DEF Root
<1> HIDE DEF path, u
<1>5. path[0] = f /\ \A n \in 1 .. d : path[n] = u[path[n - 1]]
  BY <1>1, <1>3
<1>6. Nat \subseteq A
  <2>1. 0 \in A
    BY <1>5
  <2>2. ASSUME NEW n \in Nat, n \in A PROVE n + 1 \in A
    BY <1>1, <1>2, <1>5, <2>2
  <2> HIDE DEF A
  <2>3. QED BY <2>1, <2>2, NatInductionSet
<1>7. path \in [0 .. d -> Fibers]
  <2>1. \A n \in 0 .. d : path[n] \in Fibers
    BY <1>1, <1>6
  <2>2. QED BY <1>3, <2>1
<1>8. QED BY <1>4, <1>5, <1>7 DEF IsPath, u

LEMMA RootType ==
    ASSUME PlanAssumption, RootTypes, NEW f \in Fibers, NEW seq
    PROVE  Root(f, seq) \in Fibers
<1>1. PICK path : IsPath(path, f, Up(seq)) /\ Root(f, seq) = path[MaxDepth - 1]
  BY RootPath
<1>2. MaxDepth - 1 \in 0 .. MaxDepth - 1
  BY DEF PlanAssumption
<1>3. QED BY <1>1, <1>2 DEF IsPath

-----------------------------------------------------------------------------
(* Pages, and positions in a page *)

LEMMA PageNumbers ==
    ASSUME PlanAssumption, NEW k \in Nat \ {0}, PageOf(k) # {}
    PROVE  k \in 1 .. NFibers
<1>1. PICK f \in Fibers : (k - 1) * PageSize < f
  BY DEF PageOf
<1>2. k - 1 <= (k - 1) * PageSize
  <2>1. k - 1 \in Nat /\ PageSize \in Nat /\ PageSize >= 1
    BY DEF PlanAssumption
  <2>2. QED BY <2>1
<1>3. QED BY <1>1, <1>2 DEF Fibers, PlanAssumption

LEMMA PagesEnd ==
    ASSUME PlanAssumption, NEW k \in Nat \ {0}, PageOf(k) = {}, NEW j \in Nat, j >= k
    PROVE  PageOf(j) = {}
<1> DEFINE a == k - 1
<1>1. /\ a \in Nat /\ PageSize \in Nat \ {0} /\ NFibers \in Nat
      /\ a * PageSize \in Nat /\ (j - 1) * PageSize \in Nat
  BY DEF PlanAssumption
<1>2. a * PageSize <= (j - 1) * PageSize
  <2>1. j - 1 = a + (j - k) /\ j - k \in Nat
    OBVIOUS
  <2>2. (j - 1) * PageSize = a * PageSize + (j - k) * PageSize /\ (j - k) * PageSize \in Nat
    BY <1>1, <2>1
  <2>3. QED BY <1>1, <2>2
<1>3. NFibers <= a * PageSize
  <2>1. SUFFICES ASSUME a * PageSize < NFibers PROVE FALSE
    BY <1>1
  <2>2. a * PageSize + 1 \in Fibers /\ k * PageSize = a * PageSize + PageSize
    BY <1>1, <2>1 DEF Fibers
  <2>3. a * PageSize + 1 \in PageOf(k)
    BY <1>1, <2>2 DEF PageOf
  <2>4. QED BY <2>3
<1>4. QED BY <1>1, <1>2, <1>3 DEF PageOf, Fibers

LEMMA PageOnly ==
    ASSUME PlanAssumption, NEW k \in Nat \ {0}, NEW j \in Nat \ {0},
           NEW f \in PageOf(k), f \in PageOf(j)
    PROVE  k = j
<1>1. ASSUME NEW m \in Nat \ {0}, NEW n \in Nat \ {0}, m < n, f \in PageOf(m), f \in PageOf(n)
      PROVE  FALSE
  <2>1. PageSize \in Nat /\ m \in Nat /\ n - 1 - m \in Nat
    BY <1>1 DEF PlanAssumption
  <2>2. (n - 1) * PageSize = m * PageSize + (n - 1 - m) * PageSize
        /\ (n - 1 - m) * PageSize \in Nat /\ m * PageSize \in Nat
    BY <2>1
  <2>3. f \in Nat /\ f <= m * PageSize /\ (n - 1) * PageSize < f
    BY <1>1 DEF PageOf, Fibers
  <2>4. QED BY <2>2, <2>3
<1>2. QED BY <1>1

LEMMA PageExists ==
    ASSUME PlanAssumption, NEW f \in Fibers
    PROVE  \E k \in 1 .. NFibers : f \in PageOf(k)
<1> DEFINE T == {k \in Nat : f <= k * PageSize}
<1>1. PageSize \in Nat \ {0} /\ f \in Nat \ {0} /\ NFibers \in Nat
  BY DEF PlanAssumption, Fibers
<1>2. f \in T
  BY <1>1
<1>3. PICK k \in T : \A j \in T : k <= j
  <2> HIDE DEF T
  <2>1. T \in SUBSET Nat
    BY DEF T
  <2>2. QED BY <1>2, <2>1, LeastNatural
<1>4. k # 0
  BY <1>1, <1>3
<1>5. k - 1 \in Nat /\ k - 1 \notin T
  BY <1>3, <1>4
<1>6. (k - 1) * PageSize < f /\ f <= k * PageSize
  BY <1>1, <1>3, <1>5
<1>7. f \in PageOf(k)
  BY <1>6 DEF PageOf
<1>8. QED BY <1>3, <1>4, <1>7, PageNumbers

LEMMA PageFinite ==
    ASSUME PlanAssumption, NEW k
    PROVE  IsFiniteSet(PageOf(k)) /\ PageOf(k) \subseteq Fibers /\ PageOf(k) \subseteq Int
<1>1. IsFiniteSet(Fibers) /\ Fibers \subseteq Int
  BY FS_Interval DEF Fibers, PlanAssumption
<1>2. PageOf(k) \subseteq Fibers
  BY DEF PageOf
<1>3. QED BY <1>1, <1>2, FS_Subset

\* The number of those before x tells x.
LEMMA PositionBelow ==
    ASSUME NEW S, IsFiniteSet(S), NEW x \in S, S \subseteq Int
    PROVE  Cardinality(Before(S, x)) \in Nat /\ Cardinality(Before(S, x)) < Cardinality(S)
<1>1. Before(S, x) \subseteq S \ {x}
  BY DEF Before
<1>2. IsFiniteSet(S \ {x}) /\ Cardinality(S \ {x}) = Cardinality(S) - 1 /\ Cardinality(S) \in Nat
  BY FS_RemoveElement, FS_CardinalityType
<1>3. IsFiniteSet(Before(S, x)) /\ Cardinality(Before(S, x)) <= Cardinality(S \ {x})
  BY <1>1, <1>2, FS_Subset
<1>4. Cardinality(Before(S, x)) \in Nat
  BY <1>3, FS_CardinalityType
<1>5. QED BY <1>2, <1>3, <1>4

LEMMA PositionTells ==
    ASSUME NEW S, IsFiniteSet(S), S \subseteq Int, NEW x \in S, NEW y \in S,
           Cardinality(Before(S, x)) = Cardinality(Before(S, y))
    PROVE  x = y
<1>1. ASSUME NEW a \in S, NEW b \in S, a < b
      PROVE  Cardinality(Before(S, a)) # Cardinality(Before(S, b))
  <2> DEFINE B == Before(S, b)
  <2>1. IsFiniteSet(B) /\ B \subseteq Int /\ a \in B
    <3>1. B \subseteq S /\ a \in B
      BY <1>1 DEF Before
    <3> HIDE DEF B
    <3>2. IsFiniteSet(B)
      BY <3>1, FS_Subset
    <3>3. QED BY <3>1, <3>2
  <2>2. Before(B, a) = Before(S, a)
    <3>1. ASSUME NEW z PROVE z \in Before(B, a) <=> z \in Before(S, a)
      <4>1. a \in Int /\ b \in Int /\ (z \in S => z \in Int)
        OBVIOUS
      <4>2. QED BY <1>1, <4>1 DEF Before
    <3> HIDE DEF B
    <3>2. QED BY <3>1 DEF Before
  <2> HIDE DEF B
  <2>3. Cardinality(Before(B, a)) \in Nat /\ Cardinality(Before(B, a)) < Cardinality(B)
    BY <2>1, PositionBelow
  <2>4. Cardinality(B) \in Nat
    BY <2>1, FS_CardinalityType
  <2>5. QED BY <2>2, <2>3, <2>4 DEF B
<1>2. QED BY <1>1

LEMMA BeyondFinite ==
    ASSUME PlanAssumption, NEW S \in SUBSET Fibers, NEW a
    PROVE  /\ IsFiniteSet(Beyond(S, a)) /\ Beyond(S, a) \subseteq S
           /\ Beyond(S, a) \subseteq Int /\ S \subseteq Int
<1>1. IsFiniteSet(Fibers) /\ Fibers \subseteq Int
  BY FS_Interval DEF Fibers, PlanAssumption
<1>2. Beyond(S, a) \subseteq Fibers /\ Beyond(S, a) \subseteq S
  BY DEF Beyond
<1>3. QED BY <1>1, <1>2, FS_Subset

-----------------------------------------------------------------------------
(* The pairs of the sources, numbered in the order they are read *)

SPosting(tag) == {f \in Sources : tag \in Tags[f]}
SPairs(tag) ==
    IF Cardinality(SPosting(tag)) > PostingLimit THEN {}
    ELSE {p \in SPosting(tag) \X SPosting(tag) : p[1] < p[2]}

\* a pair with the tag it is read under
Entries == {e \in (1 .. NTags) \X (Fibers \X Fibers) : e[2] \in SPairs(e[1])}
Sooner(d, e) == d[1] < e[1] \/ (d[1] = e[1] /\ Earlier(d[2], e[2]))
Ahead(e) == {d \in Entries : Sooner(d, e)}
UpTo(t) == {d \in Entries : d[1] <= t}

First(t) == Cardinality(UpTo(t))
Number == First(NTags)

\* e is the one that is read at q
At(e, q) == e \in Entries /\ q = Cardinality(Ahead(e))

LEMMA SPairsFinite ==
    ASSUME PlanAssumption, NEW t
    PROVE  /\ IsFiniteSet(SPairs(t)) /\ Cardinality(SPairs(t)) \in Nat
           /\ \A p \in SPairs(t) : /\ p = <<p[1], p[2]>> /\ p[1] \in Sources /\ p[2] \in Sources
                                   /\ p[1] \in Int /\ p[2] \in Int /\ p[1] < p[2]
<1>1. IsFiniteSet(Fibers) /\ Fibers \subseteq Int
  BY FS_Interval DEF Fibers, PlanAssumption
<1>2. SPosting(t) \subseteq Sources /\ SPosting(t) \subseteq Fibers
  BY DEF SPosting, Sources
<1>3. IsFiniteSet(SPosting(t))
  BY <1>1, <1>2, FS_Subset
<1>4. IsFiniteSet(SPosting(t) \X SPosting(t))
  BY <1>3, FS_Product
<1>5. SPairs(t) \subseteq {p \in SPosting(t) \X SPosting(t) : p[1] < p[2]}
  BY DEF SPairs
<1>6. IsFiniteSet(SPairs(t))
  BY <1>4, <1>5, FS_Subset
<1>7. QED BY <1>1, <1>2, <1>5, <1>6, FS_CardinalityType

LEMMA EntriesFinite ==
    ASSUME PlanAssumption
    PROVE  /\ IsFiniteSet(Entries)
           /\ \A e \in Entries : /\ e = <<e[1], e[2]>> /\ e[1] \in 1 .. NTags /\ e[2] \in SPairs(e[1])
                                 /\ e[2] = <<e[2][1], e[2][2]>> /\ e[2][1] \in Int /\ e[2][2] \in Int
<1>1. IsFiniteSet(Fibers) /\ IsFiniteSet(1 .. NTags)
  BY FS_Interval DEF Fibers, PlanAssumption
<1>2. IsFiniteSet((1 .. NTags) \X (Fibers \X Fibers))
  BY <1>1, FS_Product
<1>3. IsFiniteSet(Entries)
  <2>1. Entries \subseteq (1 .. NTags) \X (Fibers \X Fibers)
    BY DEF Entries
  <2>2. QED BY <1>2, <2>1, FS_Subset
<1>4. QED BY <1>3, SPairsFinite DEF Entries

LEMMA SoonerOrder ==
    ASSUME PlanAssumption, NEW d \in Entries, NEW e \in Entries
    PROVE  /\ ~Sooner(e, e)
           /\ Sooner(d, e) \/ Sooner(e, d) \/ d = e
           /\ \A c \in Entries : Sooner(c, d) /\ Sooner(d, e) => Sooner(c, e)
BY EntriesFinite DEF Sooner, Earlier

LEMMA AheadGrows ==
    ASSUME PlanAssumption, NEW d \in Entries, NEW e \in Entries, Sooner(d, e)
    PROVE  Cardinality(Ahead(d)) < Cardinality(Ahead(e))
<1>1. IsFiniteSet(Ahead(e)) /\ d \in Ahead(e) /\ Ahead(e) \subseteq Entries
  <2>1. Ahead(e) \subseteq Entries
    BY DEF Ahead
  <2>2. IsFiniteSet(Ahead(e))
    BY <2>1, EntriesFinite, FS_Subset
  <2>3. QED BY <2>1, <2>2 DEF Ahead
<1>2. Ahead(d) \subseteq Ahead(e) \ {d}
  BY SoonerOrder DEF Ahead
<1>3. /\ IsFiniteSet(Ahead(e) \ {d}) /\ Cardinality(Ahead(e)) \in Nat
      /\ Cardinality(Ahead(e) \ {d}) = Cardinality(Ahead(e)) - 1
  BY <1>1, FS_RemoveElement, FS_CardinalityType
<1>4. /\ IsFiniteSet(Ahead(d)) /\ Cardinality(Ahead(d)) <= Cardinality(Ahead(e) \ {d})
  BY <1>2, <1>3, FS_Subset
<1>5. Cardinality(Ahead(d)) \in Nat
  BY <1>4, FS_CardinalityType
<1>6. QED BY <1>3, <1>4, <1>5

\* The position tells the pair.
LEMMA AtTells ==
    ASSUME PlanAssumption, NEW q, NEW d, NEW e, At(d, q), At(e, q)
    PROVE  d = e
<1>1. \A x \in Entries : Cardinality(Ahead(x)) \in Nat
  <2>1. TAKE x \in Entries
  <2>2. Ahead(x) \subseteq Entries
    BY DEF Ahead
  <2>3. IsFiniteSet(Ahead(x))
    BY <2>2, EntriesFinite, FS_Subset
  <2>4. QED BY <2>3, FS_CardinalityType
<1>2. /\ d \in Entries /\ e \in Entries
      /\ Cardinality(Ahead(d)) = Cardinality(Ahead(e)) /\ Cardinality(Ahead(d)) \in Nat
  BY <1>1 DEF At
<1>3. ~Sooner(d, e) /\ ~Sooner(e, d)
  BY <1>2, AheadGrows
<1>4. QED BY <1>2, <1>3, SoonerOrder

LEMMA AtBelow ==
    ASSUME PlanAssumption, NEW q, NEW e, At(e, q)
    PROVE  q \in Nat /\ q < Number
<1>1. Ahead(e) \subseteq UpTo(NTags) \ {e} /\ e \in UpTo(NTags) /\ UpTo(NTags) \subseteq Entries
  BY EntriesFinite, SoonerOrder DEF At, Ahead, UpTo, PlanAssumption
<1>2. IsFiniteSet(UpTo(NTags))
  BY <1>1, EntriesFinite, FS_Subset
<1>3. /\ IsFiniteSet(UpTo(NTags) \ {e}) /\ Cardinality(UpTo(NTags)) \in Nat
      /\ Cardinality(UpTo(NTags) \ {e}) = Cardinality(UpTo(NTags)) - 1
  BY <1>1, <1>2, FS_RemoveElement, FS_CardinalityType
<1>4. IsFiniteSet(Ahead(e)) /\ Cardinality(Ahead(e)) <= Cardinality(UpTo(NTags) \ {e})
  BY <1>1, <1>3, FS_Subset
<1>5. Cardinality(Ahead(e)) \in Nat
  BY <1>4, FS_CardinalityType
<1>6. QED BY <1>3, <1>4, <1>5 DEF At, Number, First

\* The pairs of one tag, counted with their tag.
LEMMA TagPairs ==
    ASSUME PlanAssumption, NEW t, NEW S \in SUBSET SPairs(t)
    PROVE  /\ IsFiniteSet({t} \X S) /\ Cardinality({t} \X S) = Cardinality(S)
           /\ Cardinality(S) \in Nat
<1>1. IsFiniteSet({t}) /\ Cardinality({t}) = 1
  BY FS_Singleton
<1>2. IsFiniteSet(S) /\ Cardinality(S) \in Nat
  BY SPairsFinite, FS_Subset, FS_CardinalityType
<1>3. IsFiniteSet({t} \X S) /\ Cardinality({t} \X S) = 1 * Cardinality(S)
  BY <1>1, <1>2, FS_Product
<1>4. QED BY <1>2, <1>3

LEMMA FirstType ==
    ASSUME PlanAssumption, NEW t
    PROVE  IsFiniteSet(UpTo(t)) /\ First(t) \in Nat
<1>1. UpTo(t) \subseteq Entries
  BY DEF UpTo
<1>2. QED BY <1>1, EntriesFinite, FS_Subset, FS_CardinalityType DEF First

LEMMA FirstZero ==
    ASSUME PlanAssumption
    PROVE  First(0) = 0
<1>1. UpTo(0) = {}
  BY EntriesFinite DEF UpTo
<1>2. QED BY <1>1, FS_EmptySet DEF First

LEMMA FirstNext ==
    ASSUME PlanAssumption, NEW t \in 1 .. NTags
    PROVE  First(t) = First(t - 1) + Cardinality(SPairs(t))
<1>. NTags \in Nat /\ Sources \subseteq Fibers
  BY DEF PlanAssumption, Sources
<1>1. UpTo(t) = UpTo(t - 1) \cup ({t} \X SPairs(t))
  <2>1. ASSUME NEW d \in UpTo(t) PROVE d \in UpTo(t - 1) \cup ({t} \X SPairs(t))
    BY <2>1, EntriesFinite DEF UpTo
  <2>2. ASSUME NEW p \in SPairs(t) PROVE <<t, p>> \in UpTo(t)
    BY <2>2, SPairsFinite DEF UpTo, Entries
  <2>3. UpTo(t - 1) \subseteq UpTo(t)
    BY EntriesFinite DEF UpTo
  <2>4. QED BY <2>1, <2>2, <2>3
<1>2. UpTo(t - 1) \cap ({t} \X SPairs(t)) = {}
  BY DEF UpTo
<1>3. IsFiniteSet({t} \X SPairs(t)) /\ Cardinality({t} \X SPairs(t)) = Cardinality(SPairs(t))
  BY TagPairs
<1>4. IsFiniteSet(UpTo(t - 1)) /\ Cardinality(UpTo(t - 1)) \in Nat
  BY FirstType DEF First
<1>5. Cardinality({}) = 0
  BY FS_EmptySet
<1>6. Cardinality(UpTo(t)) = Cardinality(UpTo(t - 1)) + Cardinality({t} \X SPairs(t)) - 0
  BY <1>1, <1>2, <1>3, <1>4, <1>5, FS_Union
<1>7. Cardinality(SPairs(t)) \in Nat
  BY SPairsFinite
<1>8. QED BY <1>3, <1>4, <1>6, <1>7 DEF First

\* Where a worker finds a pair: behind the tags before, and behind the pairs of
\* its own tag that come earlier.
LEMMA AtPair ==
    ASSUME PlanAssumption, NEW t \in 1 .. NTags, NEW p \in SPairs(t)
    PROVE  At(<<t, p>>, First(t - 1) + Cardinality({o \in SPairs(t) : Earlier(o, p)}))
<1> DEFINE e == <<t, p>>
           S == {o \in SPairs(t) : Earlier(o, p)}
<1>. NTags \in Nat /\ Sources \subseteq Fibers
  BY DEF PlanAssumption, Sources
<1>1. e \in Entries
  BY SPairsFinite DEF Entries
<1>2. Ahead(e) = UpTo(t - 1) \cup ({t} \X S)
  <2>1. ASSUME NEW d \in Ahead(e) PROVE d \in UpTo(t - 1) \cup ({t} \X S)
    BY <2>1, EntriesFinite DEF UpTo, Ahead, Sooner
  <2>2. ASSUME NEW o \in S PROVE <<t, o>> \in Ahead(e)
    BY <2>2, SPairsFinite DEF Entries, Ahead, Sooner
  <2>3. UpTo(t - 1) \subseteq Ahead(e)
    BY EntriesFinite DEF UpTo, Ahead, Sooner
  <2> HIDE DEF S, e
  <2>4. QED BY <2>1, <2>2, <2>3
<1>3. UpTo(t - 1) \cap ({t} \X S) = {}
  BY DEF UpTo
<1>4. IsFiniteSet({t} \X S) /\ Cardinality({t} \X S) = Cardinality(S) /\ Cardinality(S) \in Nat
  <2>1. S \subseteq SPairs(t)
    OBVIOUS
  <2> HIDE DEF S
  <2>2. QED BY <2>1, TagPairs
<1>5. IsFiniteSet(UpTo(t - 1)) /\ Cardinality(UpTo(t - 1)) \in Nat
  BY FirstType DEF First
<1>6. Cardinality({}) = 0
  BY FS_EmptySet
<1> HIDE DEF S, e
<1>7. Cardinality(Ahead(e)) = Cardinality(UpTo(t - 1)) + Cardinality({t} \X S) - 0
  BY <1>2, <1>3, <1>4, <1>5, <1>6, FS_Union
<1>8. At(e, First(t - 1) + Cardinality(S))
  BY <1>1, <1>4, <1>5, <1>7 DEF First, At
<1>9. QED BY <1>8 DEF e, S

\* Two to the power of n.
Pow2(n) == Cardinality(SUBSET (1 .. n))

LEMMA Pow2Equation ==
    ASSUME NEW n \in Nat
    PROVE  Pow2(n) \in Nat \ {0} /\ Pow2(n) = 2 ^ n /\ Pow2(n + 1) = Pow2(n) + Pow2(n)
<1> DEFINE A == SUBSET (1 .. n)
           B == {T \cup {n + 1} : T \in A}
           f == [T \in A |-> T \cup {n + 1}]
<1>1. IsFiniteSet(1 .. n) /\ Cardinality(1 .. n) = n
  BY FS_Interval
<1>2. IsFiniteSet(A) /\ Cardinality(A) = 2 ^ n
  <2>1. IsFiniteSet(A) /\ Cardinality(A) = 2 ^ Cardinality(1 .. n)
    BY <1>1, FS_SUBSET
  <2>2. QED BY <1>1, <2>1
<1>3. Cardinality(A) \in Nat /\ Cardinality(A) # 0
  <2>1. {} \in A
    OBVIOUS
  <2>2. QED BY <1>2, <2>1, FS_EmptySet, FS_CardinalityType
<1>4. f \in Bijection(A, B)
  <2>1. ASSUME NEW S \in A, NEW T \in A, S \cup {n + 1} = T \cup {n + 1} PROVE S = T
    <3>1. n + 1 \notin S /\ n + 1 \notin T
      OBVIOUS
    <3>2. QED BY <2>1, <3>1
  <2>2. f \in [A -> B]
    OBVIOUS
  <2>3. \A T \in B : \E S \in A : f[S] = T
    OBVIOUS
  <2>4. QED BY <2>1, <2>2, <2>3 DEF Bijection, Injection, IsInjective, Surjection
<1>5. IsFiniteSet(B) /\ Cardinality(B) = Cardinality(A)
  <2>1. ExistsBijection(A, B)
    BY <1>4 DEF ExistsBijection
  <2> HIDE DEF A, B, f
  <2>2. QED BY <1>2, <2>1, FS_Bijection
<1>6. SUBSET (1 .. n + 1) = A \cup B
  <2>1. ASSUME NEW T \in SUBSET (1 .. n + 1) PROVE T \in A \cup B
    <3>1. CASE n + 1 \in T
      <4>1. T = (T \ {n + 1}) \cup {n + 1} /\ T \ {n + 1} \in A
        BY <3>1
      <4>2. QED BY <4>1
    <3>2. CASE n + 1 \notin T
      BY <3>2
    <3>3. QED BY <3>1, <3>2
  <2>2. ASSUME NEW T \in A PROVE T \in SUBSET (1 .. n + 1) /\ T \cup {n + 1} \in SUBSET (1 .. n + 1)
    OBVIOUS
  <2>3. \A T \in B : T \in SUBSET (1 .. n + 1)
    BY <2>2
  <2>4. \A T \in A : T \in SUBSET (1 .. n + 1)
    BY <2>2
  <2> HIDE DEF A, B
  <2>5. \A T : T \in SUBSET (1 .. n + 1) <=> T \in A \cup B
    BY <2>1, <2>3, <2>4
  <2>6. QED BY <2>5
<1>7. A \cap B = {}
  <2>1. n + 1 \notin 1 .. n
    OBVIOUS
  <2>2. QED BY <2>1
<1>8. Cardinality({}) = 0
  BY FS_EmptySet
<1> HIDE DEF A, B, f
<1>9. Cardinality(A \cup B) = Cardinality(A) + Cardinality(B) - 0
  BY <1>2, <1>5, <1>7, <1>8, FS_Union
<1>10. Pow2(n) = Cardinality(A) /\ Pow2(n + 1) = Cardinality(A \cup B)
  BY <1>6 DEF Pow2, A
<1>11. Cardinality(A \cup B) = Cardinality(A) + Cardinality(A)
  BY <1>3, <1>5, <1>9
<1>12. QED BY <1>2, <1>3, <1>10, <1>11

LEMMA Pow2Grows ==
    ASSUME NEW m \in Nat, NEW n \in Nat, m <= n
    PROVE  Pow2(m) <= Pow2(n)
<1>1. (1 .. m) \subseteq (1 .. n) /\ SUBSET (1 .. m) \subseteq SUBSET (1 .. n)
  OBVIOUS
<1>2. IsFiniteSet(1 .. n)
  BY FS_Interval
<1>3. IsFiniteSet(SUBSET (1 .. n))
  BY <1>2, FS_SUBSET
<1>4. Cardinality(SUBSET (1 .. m)) <= Cardinality(SUBSET (1 .. n))
  BY <1>1, <1>3, FS_Subset
<1>5. QED BY <1>4 DEF Pow2

-----------------------------------------------------------------------------
(* Connected components *)

Closed(S) == \A x \in S, y \in Sources : Linked(x, y) => y \in S

LEMMA ComponentIs ==
    ASSUME NEW f \in Sources, NEW g
    PROVE  g \in Component[f] <=>
            g \in Sources /\ \A S \in SUBSET Sources : f \in S /\ Closed(S) => g \in S
BY DEF Component, Closed

LEMMA LinkedSymmetric ==
    ASSUME NEW f \in Sources, NEW g \in Sources, Linked(f, g)
    PROVE  Linked(g, f)
<1>1. Tags[f] \cap Tags[g] = Tags[g] \cap Tags[f] /\ Tags[f] \cup Tags[g] = Tags[g] \cup Tags[f]
  OBVIOUS
<1>2. QED BY <1>1 DEF Linked, Similar

LEMMA ComponentClosed ==
    ASSUME NEW f \in Sources
    PROVE  /\ f \in Component[f] /\ Component[f] \subseteq Sources /\ Closed(Component[f])
<1>1. f \in Component[f] /\ Component[f] \subseteq Sources
  BY ComponentIs
<1>2. ASSUME NEW x \in Component[f], NEW y \in Sources, Linked(x, y)
      PROVE  y \in Component[f]
  <2>1. ASSUME NEW S \in SUBSET Sources, f \in S, Closed(S) PROVE y \in S
    BY <1>2, <2>1, ComponentIs DEF Closed
  <2>2. QED BY <2>1, ComponentIs
<1>3. QED BY <1>1, <1>2 DEF Closed

LEMMA ComponentSame ==
    ASSUME NEW f \in Sources, NEW g \in Component[f]
    PROVE  g \in Sources /\ Component[g] = Component[f]
<1>1. g \in Sources
  BY ComponentIs
<1>2. ASSUME NEW a \in Sources, NEW b \in Component[a] PROVE Component[b] \subseteq Component[a]
  <2>1. b \in Sources /\ Component[a] \in SUBSET Sources /\ Closed(Component[a])
    BY <1>2, ComponentIs, ComponentClosed
  <2>2. QED BY <1>2, <2>1, ComponentIs
<1>3. f \in Component[g]
  <2> DEFINE S == Sources \ Component[g]
  <2>1. ASSUME NEW x \in S, NEW y \in Sources, Linked(x, y), y \in Component[g] PROVE FALSE
    <3>1. Linked(y, x) /\ Closed(Component[g])
      BY <1>1, <2>1, LinkedSymmetric, ComponentClosed
    <3>2. QED BY <2>1, <3>1 DEF Closed
  <2>2. Closed(S)
    BY <2>1 DEF Closed
  <2>3. g \in Component[g] /\ S \in SUBSET Sources
    BY <1>1, ComponentClosed
  <2>4. f \in S => g \in S
    BY <2>2, <2>3, ComponentIs
  <2>5. QED BY <2>3, <2>4
<1>4. QED BY <1>1, <1>2, <1>3

-----------------------------------------------------------------------------
(* The rows of the union-find, and what is found with them *)

AtSimilar(p, q) == \E t \in 1 .. NTags : At(<<t, p>>, q) /\ Similar(p[1], p[2])

\* the rows that the pair read at q is due
JoinAt(p, q) ==
    IF Root(p[1], q) = Root(p[2], q) THEN NoRows ELSE Joining(Root(p[1], q), Root(p[2], q), q)

Shallow(p, q) == ~TooDeep(p[1], q) /\ ~TooDeep(p[2], q)

\* The rows of the pairs before F are there, and no others.
JoinedBefore(F) ==
    /\ \A r \in parents : r.seq < F /\ \E p \in Sources \X Sources :
            AtSimilar(p, r.seq) /\ r \in JoinAt(p, r.seq).parents
    /\ \A r \in ranks : r.seq < F /\ \E p \in Sources \X Sources :
            AtSimilar(p, r.seq) /\ r \in JoinAt(p, r.seq).ranks
    /\ \A q \in 0 .. F - 1, p \in Sources \X Sources : AtSimilar(p, q) =>
            /\ JoinAt(p, q).parents \subseteq parents /\ JoinAt(p, q).ranks \subseteq ranks
            /\ Shallow(p, q)

LEMMA AtSimilarFacts ==
    ASSUME PlanAssumption, NEW p, NEW q, AtSimilar(p, q)
    PROVE  /\ q \in Nat /\ q < Number
           /\ p \in Sources \X Sources /\ p[1] < p[2] /\ Similar(p[1], p[2])
           /\ \A o : AtSimilar(o, q) => o = p
           /\ \E t \in Tags[p[1]] \cap Tags[p[2]] : Cardinality(SPosting(t)) <= PostingLimit
<1>1. PICK t \in 1 .. NTags : At(<<t, p>>, q) /\ Similar(p[1], p[2])
  BY DEF AtSimilar
<1>2. q \in Nat /\ q < Number
  BY <1>1, AtBelow
<1>3. p \in SPairs(t)
  BY <1>1 DEF At, Entries
<1>4. ASSUME NEW o, AtSimilar(o, q) PROVE o = p
  <2>1. PICK u \in 1 .. NTags : At(<<u, o>>, q)
    BY <1>4 DEF AtSimilar
  <2>2. <<u, o>> = <<t, p>>
    BY <1>1, <2>1, AtTells
  <2>3. QED BY <2>2
<1>5. p[1] \in SPosting(t) /\ p[2] \in SPosting(t) /\ ~(Cardinality(SPosting(t)) > PostingLimit)
  BY <1>3 DEF SPairs
<1>6. Cardinality(SPosting(t)) \in Nat
  <2>1. SPosting(t) \subseteq Fibers
    BY DEF SPosting, Sources
  <2>2. IsFiniteSet(Fibers)
    BY FS_Interval DEF Fibers, PlanAssumption
  <2>3. IsFiniteSet(SPosting(t))
    BY <2>1, <2>2, FS_Subset
  <2>4. QED BY <2>3, FS_CardinalityType
<1>7. t \in Tags[p[1]] \cap Tags[p[2]] /\ Cardinality(SPosting(t)) <= PostingLimit
  BY <1>5, <1>6 DEF SPosting, PlanAssumption
<1>8. p \in Sources \X Sources /\ p[1] < p[2]
  BY <1>3, SPairsFinite
<1>9. QED BY <1>1, <1>2, <1>4, <1>7, <1>8

LEMMA PairLinked ==
    ASSUME PlanAssumption, NEW p, NEW q, AtSimilar(p, q)
    PROVE  Linked(p[1], p[2])
<1>1. PICK t \in Tags[p[1]] \cap Tags[p[2]] : Cardinality(SPosting(t)) <= PostingLimit
  BY AtSimilarFacts
<1>2. SPosting(t) = {h \in Sources : t \in Tags[h]}
  BY DEF SPosting
<1>3. Similar(p[1], p[2])
  BY AtSimilarFacts
<1>4. QED BY <1>1, <1>2, <1>3 DEF Linked

\* Every link is read under some tag.
LEMMA LinkedIsRead ==
    ASSUME PlanAssumption, NEW f \in Sources, NEW g \in Sources, f < g, Linked(f, g)
    PROVE  \E q \in Nat : q < Number /\ AtSimilar(<<f, g>>, q)
<1>1. PICK t \in Tags[f] \cap Tags[g] : Cardinality({h \in Sources : t \in Tags[h]}) <= PostingLimit
  BY DEF Linked
<1>2. t \in 1 .. NTags
  BY DEF PlanAssumption, Sources
<1>3. <<f, g>> \in SPairs(t)
  <2>1. Cardinality(SPosting(t)) <= PostingLimit /\ f \in SPosting(t) /\ g \in SPosting(t)
    BY <1>1 DEF SPosting
  <2>2. SPosting(t) \subseteq Fibers /\ IsFiniteSet(Fibers)
    BY FS_Interval DEF SPosting, Sources, Fibers, PlanAssumption
  <2>3. Cardinality(SPosting(t)) \in Nat
    <3>1. IsFiniteSet(SPosting(t))
      BY <2>2, FS_Subset
    <3>2. QED BY <3>1, FS_CardinalityType
  <2>4. ~(Cardinality(SPosting(t)) > PostingLimit)
    BY <2>1, <2>3 DEF PlanAssumption
  <2>5. QED BY <2>1, <2>4 DEF SPairs
<1>4. PICK q : At(<<t, <<f, g>>>>, q)
  BY <1>2, <1>3, AtPair
<1>5. AtSimilar(<<f, g>>, q)
  BY <1>2, <1>4 DEF AtSimilar, Linked
<1>6. QED BY <1>5, AtSimilarFacts

-----------------------------------------------------------------------------
(* The newest row of a fiber *)

LEMMA UpSame ==
    ASSUME RootTypes, NEW q \in Nat, NEW h \in Fibers,
           \A r \in parents : ~(r.child = h /\ r.seq = q)
    PROVE  Up(q + 1)[h] = Up(q)[h]
<1> DEFINE X == {r \in parents : r.child = h /\ r.seq < q + 1}
           Y == {r \in parents : r.child = h /\ r.seq < q}
           Last(rows) == IF rows = {} THEN h ELSE (CHOOSE r \in rows : TRUE).up
<1>1. X = Y
  <2>1. \A r \in parents : r.seq \in Nat
    BY DEF RootTypes, ParentRows
  <2>2. QED BY <2>1
<1>2. Up(q + 1)[h] = Last(Newest(X)) /\ Up(q)[h] = Last(Newest(Y))
  BY DEF Up
<1> HIDE DEF X, Y, Last
<1>3. QED BY <1>1, <1>2

LEMMA UpRow ==
    ASSUME RootTypes, NEW q \in Nat, NEW row \in parents, row.seq = q,
           \A r \in parents : r.child = row.child /\ r.seq = q => r = row
    PROVE  Up(q + 1)[row.child] = row.up
<1> DEFINE rows == {r \in parents : r.child = row.child /\ r.seq < q + 1}
<1>1. \A r \in parents : r.seq \in Nat /\ r.child \in Fibers
  BY DEF RootTypes, ParentRows
<1>2. row \in rows /\ \A r \in rows : r.seq <= q /\ (r.seq = q => r = row)
  BY <1>1
<1>3. Newest(rows) = {row}
  <2> HIDE DEF rows
  <2>1. row \in Newest(rows)
    BY <1>2 DEF Newest
  <2>2. \A r \in Newest(rows) : r = row
    <3>1. TAKE r \in Newest(rows)
    <3>2. r \in rows /\ row.seq <= r.seq /\ r.seq <= q
      BY <1>2 DEF Newest
    <3>3. r.seq \in Nat
      BY <1>1, <3>2 DEF rows
    <3>4. QED BY <1>2, <3>2, <3>3
  <2>3. QED BY <2>1, <2>2
<1>4. (CHOOSE r \in {row} : TRUE) = row
  OBVIOUS
<1>5. QED BY <1>1, <1>3, <1>4 DEF Up

LEMMA RankSame ==
    ASSUME RootTypes, NEW q \in Nat, NEW h,
           \A r \in ranks : ~(r.of = h /\ r.seq = q)
    PROVE  Rank(h, q + 1) = Rank(h, q)
<1> DEFINE X == {r \in ranks : r.of = h /\ r.seq < q + 1}
           Y == {r \in ranks : r.of = h /\ r.seq < q}
           Last(rows) == IF rows = {} THEN 0 ELSE (CHOOSE r \in rows : TRUE).rank
<1>1. X = Y
  <2>1. \A r \in ranks : r.seq \in Nat
    BY DEF RootTypes, RankRows
  <2>2. QED BY <2>1
<1>2. Rank(h, q + 1) = Last(Newest(X)) /\ Rank(h, q) = Last(Newest(Y))
  BY DEF Rank
<1> HIDE DEF X, Y, Last
<1>3. QED BY <1>1, <1>2

LEMMA RankRow ==
    ASSUME RootTypes, NEW q \in Nat, NEW row \in ranks, row.seq = q,
           \A r \in ranks : r.of = row.of /\ r.seq = q => r = row
    PROVE  Rank(row.of, q + 1) = row.rank
<1> DEFINE rows == {r \in ranks : r.of = row.of /\ r.seq < q + 1}
<1>1. \A r \in ranks : r.seq \in Nat /\ r.of \in Fibers
  BY DEF RootTypes, RankRows
<1>2. row \in rows /\ \A r \in rows : r.seq <= q /\ (r.seq = q => r = row)
  BY <1>1
<1>3. Newest(rows) = {row}
  <2> HIDE DEF rows
  <2>1. row \in Newest(rows)
    BY <1>2 DEF Newest
  <2>2. \A r \in Newest(rows) : r = row
    <3>1. TAKE r \in Newest(rows)
    <3>2. r \in rows /\ row.seq <= r.seq /\ r.seq <= q
      BY <1>2 DEF Newest
    <3>3. r.seq \in Nat
      BY <1>1, <3>2 DEF rows
    <3>4. QED BY <1>2, <3>2, <3>3
  <2>3. QED BY <2>1, <2>2
<1>4. (CHOOSE r \in {row} : TRUE) = row
  OBVIOUS
<1>5. QED BY <1>1, <1>3, <1>4 DEF Rank

LEMMA NothingBeforeZero ==
    ASSUME RootTypes, NEW h \in Fibers
    PROVE  Up(0)[h] = h /\ Rank(h, 0) = 0
<1>1. \A r \in parents : ~(r.seq < 0)
  BY DEF RootTypes, ParentRows
<1>2. \A r \in ranks : ~(r.seq < 0)
  BY DEF RootTypes, RankRows
<1>3. {r \in parents : r.child = h /\ r.seq < 0} = {} /\ {r \in ranks : r.of = h /\ r.seq < 0} = {}
  BY <1>1, <1>2
<1>4. Newest({}) = {}
  BY DEF Newest
<1>5. QED BY <1>3, <1>4 DEF Up, Rank

\* The rows at q are those of the pair that is read there.
LEMMA RowsAt ==
    ASSUME PlanAssumption, RootTypes, NEW F \in Nat, JoinedBefore(F), NEW q \in Nat
    PROVE  /\ \A p \in Sources \X Sources : q < F /\ AtSimilar(p, q) =>
                /\ {r \in parents : r.seq = q} = JoinAt(p, q).parents
                /\ {r \in ranks : r.seq = q} = JoinAt(p, q).ranks
           /\ (q >= F \/ ~ \E p \in Sources \X Sources : AtSimilar(p, q)) =>
                {r \in parents : r.seq = q} = {} /\ {r \in ranks : r.seq = q} = {}
<1>1. ASSUME NEW p \in Sources \X Sources, q < F, AtSimilar(p, q)
      PROVE  /\ {r \in parents : r.seq = q} = JoinAt(p, q).parents
             /\ {r \in ranks : r.seq = q} = JoinAt(p, q).ranks
  <2>1. JoinAt(p, q).parents \subseteq parents /\ JoinAt(p, q).ranks \subseteq ranks
    BY <1>1 DEF JoinedBefore
  <2>2. \A r \in JoinAt(p, q).parents \cup JoinAt(p, q).ranks : r.seq = q
    BY DEF JoinAt, Joining, NoRows
  <2>3. \A o : AtSimilar(o, q) => o = p
    BY <1>1, AtSimilarFacts
  <2>4. \A r \in parents : r.seq = q => r \in JoinAt(p, q).parents
    BY <2>3 DEF JoinedBefore
  <2>5. \A r \in ranks : r.seq = q => r \in JoinAt(p, q).ranks
    BY <2>3 DEF JoinedBefore
  <2>6. QED BY <2>1, <2>2, <2>4, <2>5
<1>2. ASSUME q >= F \/ ~ \E p \in Sources \X Sources : AtSimilar(p, q)
      PROVE  (\A r \in parents : r.seq # q) /\ (\A r \in ranks : r.seq # q)
  BY <1>2 DEF JoinedBefore
<1>3. QED BY <1>1, <1>2

-----------------------------------------------------------------------------
(* The forest: trees within the components, of logarithmic depth *)

Class(rho, h) == {g \in Fibers : rho[g] = rho[h]}

\* rho gives each fiber the root of its tree.
IsForest(rho, q) ==
    /\ rho \in [Fibers -> Fibers]
    /\ \A h \in Fibers :
        /\ rho[Up(q)[h]] = rho[h] /\ Up(q)[rho[h]] = rho[h]
        /\ Up(q)[h] = h => rho[h] = h
        /\ Up(q)[h] # h => Rank(h, q) < Rank(Up(q)[h], q)
        /\ Pow2(Rank(h, q)) <= Cardinality(Class(rho, h))
        /\ h \in Sources => rho[h] \in Component[h]
        /\ h \notin Sources => rho[h] = h
    /\ \A o \in Nat, p \in Sources \X Sources : o < q /\ AtSimilar(p, o) => rho[p[1]] = rho[p[2]]

LEMMA ClassFinite ==
    ASSUME PlanAssumption, NEW rho, NEW h \in Fibers
    PROVE  IsFiniteSet(Class(rho, h)) /\ Cardinality(Class(rho, h)) \in Nat
<1>1. IsFiniteSet(Fibers) /\ Class(rho, h) \subseteq Fibers
  BY FS_Interval DEF Fibers, PlanAssumption, Class
<1>2. IsFiniteSet(Class(rho, h))
  BY <1>1, FS_Subset
<1>3. QED BY <1>2, FS_CardinalityType

LEMMA ForestStarts ==
    ASSUME PlanAssumption, RootTypes
    PROVE  IsForest([h \in Fibers |-> h], 0)
<1> DEFINE rho == [h \in Fibers |-> h]
<1>1. ASSUME NEW h \in Fibers
      PROVE  Up(0)[h] = h /\ Rank(h, 0) = 0
  BY <1>1, NothingBeforeZero
<1>2. ASSUME NEW h \in Fibers
      PROVE  Pow2(Rank(h, 0)) <= Cardinality(Class(rho, h))
  <2>1. Class(rho, h) = {h} /\ Cardinality({h}) = 1
    <3>1. Class(rho, h) = {h}
      BY DEF Class
    <3>2. QED BY <3>1, FS_Singleton
  <2>2. Pow2(0) = 1
    <3>1. SUBSET (1 .. 0) = {{}}
      OBVIOUS
    <3>2. Cardinality({{}}) = 1
      BY FS_Singleton
    <3>3. QED BY <3>1, <3>2 DEF Pow2
  <2>3. Pow2(Rank(h, 0)) = 1
    BY <1>1, <2>2
  <2>4. Cardinality(Class(rho, h)) = 1
    <3>1. PICK x : x = Class(rho, h)
      OBVIOUS
    <3>2. QED BY <2>1, <3>1
  <2>5. 1 <= Cardinality(Class(rho, h))
    BY <2>4
  <2>6. QED BY <2>3, <2>5
<1>3. QED BY <1>1, <1>2, ComponentClosed DEF IsForest

\* Whatever find walks up to that is a root is the root.
LEMMA FoundIsRoot ==
    ASSUME PlanAssumption, RootTypes, NEW q \in Nat, NEW rho, IsForest(rho, q),
           NEW f \in Fibers, ~TooDeep(f, q)
    PROVE  Root(f, q) = rho[f]
<1>1. PICK path : IsPath(path, f, Up(q)) /\ Root(f, q) = path[MaxDepth - 1]
  BY RootPath
<1> DEFINE A == {n \in Nat : n <= MaxDepth - 1 => rho[path[n]] = rho[f]}
<1>2. MaxDepth - 1 \in Nat
  BY DEF PlanAssumption
<1>3. 0 \in A
  BY <1>1 DEF IsPath
<1>4. ASSUME NEW n \in Nat, n \in A PROVE n + 1 \in A
  <2>1. SUFFICES ASSUME n + 1 <= MaxDepth - 1 PROVE rho[path[n + 1]] = rho[f]
    OBVIOUS
  <2>2. path[n] \in Fibers /\ path[n + 1] = Up(q)[path[n]] /\ rho[path[n]] = rho[f]
    <3>1. n + 1 \in 1 .. MaxDepth - 1 /\ n \in 0 .. MaxDepth - 1 /\ (n + 1) - 1 = n
      BY <1>2, <2>1
    <3>2. QED BY <1>1, <1>4, <3>1 DEF IsPath
  <2>3. QED BY <2>2 DEF IsForest
<1>5. MaxDepth - 1 \in A
  <2> HIDE DEF A
  <2>1. QED BY <1>2, <1>3, <1>4, NatInductionSet
<1>6. rho[Root(f, q)] = rho[f] /\ Root(f, q) \in Fibers
  BY <1>1, <1>2, <1>5, RootType
<1>7. QED BY <1>6 DEF TooDeep, IsForest

\* A path of ascending ranks ends before the rank of the root is too large for
\* the tree.
LEMMA NotTooDeep ==
    ASSUME PlanAssumption, RootTypes, NEW q \in Nat, NEW rho, IsForest(rho, q),
           NEW f \in Fibers, Cardinality(Class(rho, f)) < Pow2(MaxDepth)
    PROVE  ~TooDeep(f, q)
<1>1. PICK path : IsPath(path, f, Up(q)) /\ Root(f, q) = path[MaxDepth - 1]
  BY RootPath
<1>2. MaxDepth - 1 \in Nat /\ MaxDepth \in Nat
  BY DEF PlanAssumption
<1> DEFINE Ok(n) == /\ path[n] \in Fibers /\ rho[path[n]] = rho[f]
                    /\ Up(q)[path[n]] = path[n] \/ Rank(path[n], q) >= n
           A == {n \in Nat : n <= MaxDepth - 1 => Ok(n)}
<1>3. 0 \in A
  BY <1>1, RankType DEF IsPath
<1>4. ASSUME NEW n \in Nat, n \in A PROVE n + 1 \in A
  <2>1. SUFFICES ASSUME n + 1 <= MaxDepth - 1 PROVE Ok(n + 1)
    OBVIOUS
  <2>2. path[n] \in Fibers /\ path[n + 1] \in Fibers /\ path[n + 1] = Up(q)[path[n]] /\ Ok(n)
    <3>1. n + 1 \in 1 .. MaxDepth - 1 /\ n \in 0 .. MaxDepth - 1 /\ (n + 1) - 1 = n
          /\ n + 1 \in 0 .. MaxDepth - 1
      BY <1>2, <2>1
    <3>2. QED BY <1>1, <1>4, <3>1 DEF IsPath
  <2>3. rho[path[n + 1]] = rho[f]
    BY <2>2 DEF IsForest
  <2>4. CASE Up(q)[path[n]] = path[n]
    BY <2>2, <2>3, <2>4
  <2>5. CASE Up(q)[path[n]] # path[n]
    <3>1. Rank(path[n], q) >= n /\ Rank(path[n], q) < Rank(path[n + 1], q)
      BY <2>2, <2>5 DEF IsForest
    <3>2. Rank(path[n], q) \in Nat /\ Rank(path[n + 1], q) \in Nat
      BY RankType
    <3>3. QED BY <2>2, <2>3, <3>1, <3>2
  <2>6. QED BY <2>4, <2>5
<1>5. Ok(MaxDepth - 1)
  <2>1. Nat \subseteq A
    <3> HIDE DEF A
    <3>1. QED BY <1>3, <1>4, NatInductionSet
  <2>2. QED BY <1>2, <2>1
<1> DEFINE g == path[MaxDepth - 1]
           u == Up(q)[g]
<1>6. SUFFICES ASSUME u # g PROVE FALSE
  BY <1>1 DEF TooDeep
<1>7. g \in Fibers /\ u \in Fibers /\ rho[u] = rho[f]
  BY <1>5, UpType DEF IsForest
<1>8. Rank(u, q) >= MaxDepth
  <2>1. Rank(g, q) < Rank(u, q) /\ Rank(g, q) >= MaxDepth - 1
    BY <1>5, <1>6 DEF IsForest
  <2>2. Rank(g, q) \in Nat /\ Rank(u, q) \in Nat
    BY RankType
  <2>3. QED BY <1>2, <2>1, <2>2
<1>9. Class(rho, u) = Class(rho, f)
  BY <1>7 DEF Class
<1>10. Pow2(Rank(u, q)) <= Cardinality(Class(rho, f))
  BY <1>7, <1>9 DEF IsForest
<1>11. Rank(u, q) \in Nat /\ Pow2(MaxDepth) <= Pow2(Rank(u, q))
  BY <1>2, <1>8, RankType, Pow2Grows
<1>12. /\ Pow2(MaxDepth) \in Nat /\ Pow2(Rank(u, q)) \in Nat
       /\ Cardinality(Class(rho, f)) \in Nat
  BY <1>2, <1>11, Pow2Equation, ClassFinite
<1>13. QED BY <1>10, <1>11, <1>12

\* The row of a join hangs one root below the other and leaves the rest alone.
LEMMA JoinStep ==
    ASSUME PlanAssumption, RootTypes, NEW F \in Nat, JoinedBefore(F),
           NEW q \in Nat, q < F, NEW p \in Sources \X Sources, AtSimilar(p, q),
           NEW f, NEW g, f = Root(p[1], q), g = Root(p[2], q), f # g
    PROVE  \E c \in {f, g}, r \in {f, g} :
            /\ c # r /\ Up(q + 1)[c] = r
            /\ \A h \in Fibers \ {c} : Up(q + 1)[h] = Up(q)[h]
            /\ \A h \in Fibers \ {r} : Rank(h, q + 1) = Rank(h, q)
            /\ \/ Rank(c, q) < Rank(r, q) /\ Rank(r, q + 1) = Rank(r, q)
               \/ Rank(c, q) = Rank(r, q) /\ Rank(r, q + 1) = Rank(r, q) + 1
<1> DEFINE c == IF GoesBelow(f, g, q) THEN f ELSE g
           r == IF GoesBelow(f, g, q) THEN g ELSE f
<1>1. JoinAt(p, q) = Joining(f, g, q)
  BY DEF JoinAt
<1>2. f \in Fibers /\ g \in Fibers
  BY RootType DEF Sources
<1>3. Rank(f, q) \in Nat /\ Rank(g, q) \in Nat
  BY RankType
<1>4. {x \in parents : x.seq = q} = {[child |-> c, seq |-> q, up |-> r]}
  BY <1>1, RowsAt DEF Joining
<1>5. {x \in ranks : x.seq = q} =
        IF Rank(f, q) = Rank(g, q) THEN {[of |-> r, seq |-> q, rank |-> Rank(r, q) + 1]} ELSE {}
  BY <1>1, RowsAt DEF Joining
<1>6. c \in {f, g} /\ r \in {f, g} /\ c # r /\ c \in Fibers /\ r \in Fibers
  BY <1>2
<1>7. Rank(c, q) < Rank(r, q) \/ Rank(c, q) = Rank(r, q)
  BY <1>3 DEF GoesBelow
<1>8. Rank(f, q) = Rank(g, q) <=> Rank(c, q) = Rank(r, q)
  OBVIOUS
<1> HIDE DEF c, r
<1>9. Up(q + 1)[c] = r
  <2> DEFINE row == [child |-> c, seq |-> q, up |-> r]
  <2>1. row \in parents /\ row.seq = q /\ row.child = c /\ row.up = r
    BY <1>4
  <2>2. \A x \in parents : x.child = row.child /\ x.seq = q => x = row
    BY <1>4
  <2> HIDE DEF row
  <2>3. QED BY <2>1, <2>2, UpRow
<1>10. ASSUME NEW h \in Fibers \ {c} PROVE Up(q + 1)[h] = Up(q)[h]
  <2>1. \A x \in parents : ~(x.child = h /\ x.seq = q)
    BY <1>4, <1>10
  <2>2. QED BY <2>1, UpSame
<1>11. ASSUME NEW h \in Fibers \ {r} PROVE Rank(h, q + 1) = Rank(h, q)
  <2>1. \A x \in ranks : ~(x.of = h /\ x.seq = q)
    BY <1>5, <1>11
  <2>2. QED BY <2>1, RankSame
<1>12. CASE Rank(f, q) = Rank(g, q)
  <2> DEFINE row == [of |-> r, seq |-> q, rank |-> Rank(r, q) + 1]
  <2>1. row \in ranks /\ row.seq = q /\ row.of = r /\ row.rank = Rank(r, q) + 1
    BY <1>5, <1>12
  <2>2. \A x \in ranks : x.of = row.of /\ x.seq = q => x = row
    BY <1>5, <1>12
  <2> HIDE DEF row
  <2>3. Rank(r, q + 1) = Rank(r, q) + 1
    BY <2>1, <2>2, RankRow
  <2>4. QED BY <1>6, <1>8, <1>9, <1>10, <1>11, <1>12, <2>3
<1>13. CASE Rank(f, q) # Rank(g, q)
  <2>1. \A x \in ranks : ~(x.of = r /\ x.seq = q)
    BY <1>5, <1>13
  <2>2. Rank(r, q + 1) = Rank(r, q)
    BY <2>1, RankSame
  <2>3. QED BY <1>6, <1>7, <1>8, <1>9, <1>10, <1>11, <1>13, <2>2
<1>14. QED BY <1>12, <1>13

LEMMA NoJoinStep ==
    ASSUME PlanAssumption, RootTypes, NEW F \in Nat, JoinedBefore(F), NEW q \in Nat,
           \/ q >= F \/ ~ \E p \in Sources \X Sources : AtSimilar(p, q)
           \/ \E p \in Sources \X Sources : q < F /\ AtSimilar(p, q) /\ Root(p[1], q) = Root(p[2], q),
           NEW h \in Fibers
    PROVE  Up(q + 1)[h] = Up(q)[h] /\ Rank(h, q + 1) = Rank(h, q)
<1>1. {x \in parents : x.seq = q} = {} /\ {x \in ranks : x.seq = q} = {}
  BY RowsAt DEF JoinAt, NoRows
<1>2. QED BY <1>1, UpSame, RankSame

LEMMA ForestSame ==
    ASSUME PlanAssumption, RootTypes, NEW F \in Nat, JoinedBefore(F), NEW q \in Nat,
           NEW rho, IsForest(rho, q),
           \A h \in Fibers : Up(q + 1)[h] = Up(q)[h] /\ Rank(h, q + 1) = Rank(h, q),
           \A p \in Sources \X Sources : AtSimilar(p, q) => rho[p[1]] = rho[p[2]]
    PROVE  IsForest(rho, q + 1)
<1>1. \A h \in Fibers : Up(q)[h] \in Fibers /\ rho[h] \in Fibers
  BY UpType DEF IsForest
<1>2. \A o \in Nat : o < q + 1 => o < q \/ o = q
  OBVIOUS
<1>3. \A o \in Nat, p \in Sources \X Sources : o < q + 1 /\ AtSimilar(p, o) => rho[p[1]] = rho[p[2]]
  BY <1>2 DEF IsForest
<1>4. QED BY <1>1, <1>3 DEF IsForest

LEMMA ForestJoin ==
    ASSUME PlanAssumption, RootTypes, NEW F \in Nat, JoinedBefore(F), NEW q \in Nat, q < F,
           NEW rho, IsForest(rho, q), NEW p \in Sources \X Sources, AtSimilar(p, q),
           rho[p[1]] # rho[p[2]]
    PROVE  \E rho2 : IsForest(rho2, q + 1)
<1> DEFINE f == rho[p[1]]
           g == rho[p[2]]
<1>1. p[1] \in Sources /\ p[2] \in Sources /\ p[1] \in Fibers /\ p[2] \in Fibers
  BY DEF Sources
<1>2. f = Root(p[1], q) /\ g = Root(p[2], q)
  <2>1. Shallow(p, q)
    BY DEF JoinedBefore
  <2>2. QED BY <1>1, <2>1, FoundIsRoot DEF Shallow
<1>3. /\ f \in Fibers /\ g \in Fibers /\ Up(q)[f] = f /\ Up(q)[g] = g /\ rho[f] = f /\ rho[g] = g
  BY <1>1 DEF IsForest
<1>4. PICK c \in {f, g}, r \in {f, g} :
            /\ c # r /\ Up(q + 1)[c] = r
            /\ \A h \in Fibers \ {c} : Up(q + 1)[h] = Up(q)[h]
            /\ \A h \in Fibers \ {r} : Rank(h, q + 1) = Rank(h, q)
            /\ \/ Rank(c, q) < Rank(r, q) /\ Rank(r, q + 1) = Rank(r, q)
               \/ Rank(c, q) = Rank(r, q) /\ Rank(r, q + 1) = Rank(r, q) + 1
  <2> HIDE DEF f, g
  <2>1. f # g
    BY DEF f, g
  <2>2. QED BY <1>2, <2>1, JoinStep
<1> DEFINE K == Component[p[1]]
<1>5. c \in K /\ r \in K /\ c \in Sources /\ r \in Sources
  <2>1. p[2] \in K
    BY <1>1, PairLinked, ComponentClosed DEF Closed
  <2>2. f \in K /\ g \in Component[p[2]]
    BY <1>1 DEF IsForest
  <2>3. Component[p[2]] = K
    BY <1>1, <2>1, ComponentSame
  <2>4. QED BY <1>1, <1>4, <2>2, <2>3, ComponentSame
<1>6. /\ c \in Fibers /\ r \in Fibers /\ Up(q)[c] = c /\ Up(q)[r] = r /\ rho[c] = c /\ rho[r] = r
      /\ (f = c /\ g = r) \/ (f = r /\ g = c)
  BY <1>3, <1>4
<1> DEFINE s == [h \in Fibers |-> IF rho[h] = c THEN r ELSE rho[h]]
<1>7. \A h \in Fibers : rho[h] \in Fibers /\ Up(q)[h] \in Fibers /\ s[h] = IF rho[h] = c THEN r ELSE rho[h]
  BY UpType DEF IsForest
<1>8. s \in [Fibers -> Fibers]
  BY <1>6, <1>7
<1>9. s[p[1]] = s[p[2]]
  BY <1>1, <1>4, <1>6, <1>7
<1> HIDE DEF f, g, K, s
<1>10. ASSUME NEW h \in Fibers
       PROVE  /\ s[Up(q + 1)[h]] = s[h] /\ Up(q + 1)[s[h]] = s[h]
              /\ Up(q + 1)[h] = h => s[h] = h
              /\ Up(q + 1)[h] # h => Rank(h, q + 1) < Rank(Up(q + 1)[h], q + 1)
  <2>1. /\ rho[Up(q)[h]] = rho[h] /\ Up(q)[rho[h]] = rho[h]
        /\ Up(q)[h] = h => rho[h] = h
        /\ Up(q)[h] # h => Rank(h, q) < Rank(Up(q)[h], q)
    BY DEF IsForest
  <2>2. s[Up(q + 1)[h]] = s[h]
    <3>1. CASE h = c
      BY <1>4, <1>6, <1>7, <3>1
    <3>2. CASE h # c
      BY <1>4, <1>7, <2>1, <3>2
    <3>3. QED BY <3>1, <3>2
  <2>3. Up(q + 1)[s[h]] = s[h]
    <3>1. CASE rho[h] = c
      BY <1>4, <1>6, <1>7, <3>1
    <3>2. CASE rho[h] # c
      BY <1>4, <1>7, <2>1, <3>2
    <3>3. QED BY <3>1, <3>2
  <2>4. Up(q + 1)[h] = h => s[h] = h
    BY <1>4, <1>6, <1>7, <2>1
  <2>5. ASSUME Up(q + 1)[h] # h PROVE Rank(h, q + 1) < Rank(Up(q + 1)[h], q + 1)
    <3>1. /\ Rank(c, q) \in Nat /\ Rank(r, q) \in Nat /\ Rank(c, q + 1) = Rank(c, q)
          /\ Rank(r, q + 1) \in {Rank(r, q), Rank(r, q) + 1}
      BY <1>4, <1>6, RankType
    <3>2. CASE h = c
      BY <1>4, <3>1, <3>2
    <3>3. CASE h # c
      <4>1. Up(q + 1)[h] = Up(q)[h] /\ h # r
        BY <1>4, <1>6, <2>5, <3>3
      <4>2. Rank(h, q + 1) = Rank(h, q) /\ Rank(h, q) < Rank(Up(q)[h], q)
        BY <1>4, <2>1, <2>5, <4>1
      <4>3. Rank(Up(q)[h], q) <= Rank(Up(q)[h], q + 1)
        <5>1. Rank(Up(q)[h], q) \in Nat
          BY RankType
        <5>2. CASE Up(q)[h] = r
          BY <3>1, <5>2
        <5>3. CASE Up(q)[h] # r
          BY <1>4, <1>7, <5>1, <5>3
        <5>4. QED BY <5>2, <5>3
      <4>4. Rank(h, q) \in Nat /\ Rank(Up(q)[h], q) \in Nat /\ Rank(Up(q)[h], q + 1) \in Nat
        BY RankType
      <4>5. QED BY <4>1, <4>2, <4>3, <4>4
    <3>4. QED BY <3>2, <3>3
  <2>6. QED BY <2>2, <2>3, <2>4, <2>5
<1>11. ASSUME NEW h \in Fibers PROVE Pow2(Rank(h, q + 1)) <= Cardinality(Class(s, h))
  <2>1. Class(rho, h) \subseteq Class(s, h)
    BY <1>7 DEF Class
  <2>2. /\ IsFiniteSet(Class(s, h)) /\ Cardinality(Class(s, h)) \in Nat
        /\ Cardinality(Class(rho, h)) \in Nat /\ Cardinality(Class(rho, h)) <= Cardinality(Class(s, h))
    BY <2>1, ClassFinite, FS_Subset
  <2>3. Pow2(Rank(h, q)) <= Cardinality(Class(rho, h))
    BY DEF IsForest
  <2>4. Rank(h, q) \in Nat /\ Pow2(Rank(h, q)) \in Nat
    BY RankType, Pow2Equation
  <2>5. CASE Rank(h, q + 1) = Rank(h, q)
    BY <2>2, <2>3, <2>4, <2>5
  <2>6. CASE Rank(h, q + 1) # Rank(h, q)
    <3>1. h = r /\ Rank(c, q) = Rank(r, q) /\ Rank(r, q + 1) = Rank(r, q) + 1
      BY <1>4, <2>6
    <3>2. Class(rho, c) \cup Class(rho, r) \subseteq Class(s, r)
      BY <1>6, <1>7 DEF Class
    <3>3. Class(rho, c) \cap Class(rho, r) = {}
      BY <1>4, <1>6 DEF Class
    <3>4. /\ IsFiniteSet(Class(rho, c)) /\ IsFiniteSet(Class(rho, r))
          /\ Cardinality(Class(rho, c)) \in Nat /\ Cardinality(Class(rho, r)) \in Nat
      BY <1>6, ClassFinite
    <3>5. Cardinality({}) = 0
      BY FS_EmptySet
    <3>6. Cardinality(Class(rho, c) \cup Class(rho, r))
            = Cardinality(Class(rho, c)) + Cardinality(Class(rho, r)) - 0
      BY <3>3, <3>4, <3>5, FS_Union
    <3>7. Cardinality(Class(rho, c) \cup Class(rho, r)) <= Cardinality(Class(s, r))
      BY <2>2, <3>1, <3>2, FS_Subset
    <3>8. Pow2(Rank(r, q)) <= Cardinality(Class(rho, c)) /\ Pow2(Rank(r, q)) <= Cardinality(Class(rho, r))
      BY <1>6, <3>1 DEF IsForest
    <3>9. Pow2(Rank(r, q) + 1) = Pow2(Rank(r, q)) + Pow2(Rank(r, q)) /\ Pow2(Rank(r, q)) \in Nat
      BY <2>4, <3>1, Pow2Equation
    <3>10. QED BY <2>2, <3>1, <3>4, <3>6, <3>7, <3>8, <3>9
  <2>7. QED BY <2>5, <2>6
<1>12. ASSUME NEW h \in Fibers
       PROVE  (h \in Sources => s[h] \in Component[h]) /\ (h \notin Sources => s[h] = h)
  <2>1. CASE h \notin Sources
    BY <1>5, <1>7, <2>1 DEF IsForest
  <2>2. CASE h \in Sources /\ rho[h] # c
    BY <1>7, <2>2 DEF IsForest
  <2>3. CASE h \in Sources /\ rho[h] = c
    <3>1. c \in Component[h]
      BY <2>3 DEF IsForest
    <3>2. Component[c] = Component[h]
      BY <2>3, <3>1, ComponentSame
    <3>3. Component[c] = K
      BY <1>1, <1>5, ComponentSame DEF K
    <3>4. QED BY <1>5, <1>7, <2>3, <3>2, <3>3
  <2>4. QED BY <2>1, <2>2, <2>3
<1>13. ASSUME NEW o \in Nat, NEW x \in Sources \X Sources, o < q + 1, AtSimilar(x, o)
       PROVE  s[x[1]] = s[x[2]]
  <2>1. x[1] \in Fibers /\ x[2] \in Fibers
    BY DEF Sources
  <2>2. CASE o = q
    <3>1. x = p
      BY <1>13, <2>2, AtSimilarFacts
    <3>2. QED BY <1>9, <3>1
  <2>3. CASE o < q
    <3>1. rho[x[1]] = rho[x[2]]
      BY <1>13, <2>3 DEF IsForest
    <3>2. QED BY <1>7, <2>1, <3>1
  <2>4. QED BY <1>13, <2>2, <2>3
<1>14. IsForest(s, q + 1)
  BY <1>8, <1>10, <1>11, <1>12, <1>13 DEF IsForest
<1>15. QED BY <1>14

LEMMA ForestNext ==
    ASSUME PlanAssumption, RootTypes, NEW F \in Nat, JoinedBefore(F), NEW q \in Nat, q < F,
           NEW rho, IsForest(rho, q)
    PROVE  \E rho2 : IsForest(rho2, q + 1)
<1>1. CASE ~ \E p \in Sources \X Sources : AtSimilar(p, q)
  <2>1. \A h \in Fibers : Up(q + 1)[h] = Up(q)[h] /\ Rank(h, q + 1) = Rank(h, q)
    BY <1>1, NoJoinStep
  <2>2. QED BY <1>1, <2>1, ForestSame
<1>2. ASSUME NEW p \in Sources \X Sources, AtSimilar(p, q), rho[p[1]] = rho[p[2]]
      PROVE  IsForest(rho, q + 1)
  <2>1. Shallow(p, q) /\ p[1] \in Fibers /\ p[2] \in Fibers
    BY <1>2 DEF JoinedBefore, Sources
  <2>2. Root(p[1], q) = Root(p[2], q)
    BY <1>2, <2>1, FoundIsRoot DEF Shallow
  <2>3. \A h \in Fibers : Up(q + 1)[h] = Up(q)[h] /\ Rank(h, q + 1) = Rank(h, q)
    BY <1>2, <2>2, NoJoinStep
  <2>4. \A o \in Sources \X Sources : AtSimilar(o, q) => rho[o[1]] = rho[o[2]]
    BY <1>2, AtSimilarFacts
  <2>5. QED BY <2>3, <2>4, ForestSame
<1>3. QED BY <1>1, <1>2, ForestJoin

\* Up to where the rows go there is a forest, by induction over the positions.
LEMMA ForestExists ==
    ASSUME PlanAssumption, RootTypes, NEW F \in Nat, JoinedBefore(F), NEW q \in Nat, q <= F
    PROVE  \E rho : IsForest(rho, q)
<1> DEFINE A == {n \in Nat : n <= F => \E rho : IsForest(rho, n)}
<1>1. 0 \in A
  BY ForestStarts
<1>2. ASSUME NEW n \in Nat, n \in A PROVE n + 1 \in A
  <2>1. SUFFICES ASSUME n + 1 <= F PROVE \E rho : IsForest(rho, n + 1)
    OBVIOUS
  <2>2. PICK rho : IsForest(rho, n)
    BY <1>2, <2>1
  <2>3. n < F
    BY <2>1
  <2>4. QED BY <2>2, <2>3, ForestNext
<1>3. Nat \subseteq A
  <2> HIDE DEF A
  <2>1. QED BY <1>1, <1>2, NatInductionSet
<1>4. QED BY <1>3

\* When all pairs are joined, trees are the components.
LEMMA TreesAreComponents ==
    ASSUME PlanAssumption, RootTypes, NEW rho, IsForest(rho, Number), NEW f \in Sources
    PROVE  rho[f] \in Sources /\ Component[f] = {g \in Sources : rho[g] = rho[f]}
<1>. Sources \subseteq Fibers
  BY DEF Sources
<1>1. \A g \in Sources : rho[g] \in Component[g] /\ Component[rho[g]] = Component[g] /\ rho[g] \in Sources
  BY ComponentSame DEF IsForest
<1>2. ASSUME NEW g \in Sources, rho[g] = rho[f] PROVE g \in Component[f]
  <2>1. Component[g] = Component[f]
    BY <1>1, <1>2
  <2>2. QED BY <2>1, ComponentClosed
<1> DEFINE S == {g \in Sources : rho[g] = rho[f]}
<1>3. Closed(S)
  <2>1. SUFFICES ASSUME NEW x \in S, NEW y \in Sources, Linked(x, y) PROVE rho[y] = rho[x]
    BY DEF Closed
  <2>2. x \in Int /\ y \in Int
    BY DEF Sources, Fibers
  <2>3. \A a, b \in Sources : a < b /\ Linked(a, b) => rho[a] = rho[b]
    <3>1. SUFFICES ASSUME NEW a \in Sources, NEW b \in Sources, a < b, Linked(a, b)
                   PROVE  rho[a] = rho[b]
      OBVIOUS
    <3>2. PICK q \in Nat : q < Number /\ AtSimilar(<<a, b>>, q)
      BY <3>1, LinkedIsRead
    <3>3. <<a, b>> \in Sources \X Sources
      OBVIOUS
    <3>4. rho[<<a, b>>[1]] = rho[<<a, b>>[2]]
      BY <3>2, <3>3 DEF IsForest
    <3>5. QED BY <3>4
  <2>4. CASE x = y
    BY <2>4
  <2>5. CASE x < y
    BY <2>1, <2>3, <2>5
  <2>6. CASE y < x
    BY <2>1, <2>3, <2>6, LinkedSymmetric
  <2>7. QED BY <2>2, <2>4, <2>5, <2>6
<1>4. ASSUME NEW g \in Component[f] PROVE g \in S
  <2>1. f \in S /\ S \in SUBSET Sources
    OBVIOUS
  <2> HIDE DEF S
  <2>2. QED BY <1>3, <1>4, <2>1, ComponentIs
<1>5. Component[f] \subseteq Sources
  BY ComponentClosed
<1>6. QED BY <1>1, <1>2, <1>4, <1>5
=============================================================================
