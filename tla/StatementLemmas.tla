--------------------------- MODULE StatementLemmas ---------------------------
(***************************************************************************)
(* What the walks over statement trees compute, for every tree.            *)
(*                                                                         *)
(* Each walk is a recursive function over the nodes, and a node looks only *)
(* at its children, which have smaller indices.  For each of them a lemma  *)
(* of its own shows that such a function exists, by the least number of    *)
(* nodes for which it would not, so that the definition may be unfolded.   *)
(***************************************************************************)
EXTENDS Statements, FiniteSetTheorems, WellFoundedInduction, TLAPS

Kinds == {"feature", "range", "and", "or", "some", "optional", "not"}

\* The children of a node come before it.
KidsBelow(node, i) == node.kids \in Seq(1..(i - 1))

\* A not has its one child.
NotHasKid(node) == node.kind = "not" => Len(node.kids) = 1

\* A node has the six fields and no other.
IsNode(node) ==
    node = Node(node.kind, node.kids, node.feat, node.count, node.max, node.scope)

\* The first root nodes form trees.
Shaped(nodes, root) ==
    /\ root \in Nat
    /\ \A i \in 1..root : IsNode(nodes[i]) /\ KidsBelow(nodes[i], i) /\ NotHasKid(nodes[i])

\* A set of addresses is finite.
FiniteLocations(fs) == \A f \in DOMAIN fs : IsFiniteSet(fs[f])

\* A set of natural numbers that is not empty has a least member.
LEMMA LeastMember ==
    ASSUME NEW S, S \subseteq Nat, S # {}
    PROVE  \E x \in S : \A y \in S : x <= y
  <1>1. PICK x \in S : \A y \in S : ~(<<y, x>> \in OpToRel(<, Nat))
    BY NatLessThanWellFounded, WFMin
  <1>2. \A y \in S : ~(y < x)
    BY <1>1 DEF OpToRel
  <1> QED BY <1>2

\* What the shape of the trees says of one child.
LEMMA KidFacts ==
    ASSUME NEW node, NEW i \in Nat, KidsBelow(node, i)
    PROVE  /\ Len(node.kids) \in Nat
           /\ DOMAIN node.kids = 1..Len(node.kids)
           /\ \A k \in DOMAIN node.kids : node.kids[k] \in 1..(i - 1)
  BY DEF KidsBelow

-----------------------------------------------------------------------------
(***************************************************************************)
(* evaluate_quick                                                          *)
(***************************************************************************)

\* A node of evaluate_quick depends on its children only.
LEMMA QuickNodeLocal ==
    ASSUME NEW node, NEW i \in Nat, NEW f, NEW g, NEW fs,
           KidsBelow(node, i), NotHasKid(node),
           \A j \in 1..(i - 1) : f[j] = g[j]
    PROVE  QuickNode(node, f, fs) = QuickNode(node, g, fs)
  <1>1. \A k \in DOMAIN node.kids : f[node.kids[k]] = g[node.kids[k]]
    BY KidFacts
  <1>2. {k \in DOMAIN node.kids : f[node.kids[k]]} = {k \in DOMAIN node.kids : g[node.kids[k]]}
    BY <1>1
  <1>3. node.kind = "not" => f[node.kids[1]] = g[node.kids[1]]
    BY <1>1, KidFacts DEF NotHasKid
  <1> QED BY <1>2, <1>3 DEF QuickNode

\* The function the probe's walk defines exists: were there a shortest prefix without one,
\* the function of the prefix before it could be extended by one node.
LEMMA QuickTableExists ==
    ASSUME NEW nodes, NEW root, Shaped(nodes, root), NEW fs
    PROVE  \E f : f = [i \in 1..root |-> QuickNode(nodes[i], f, fs)]
  <1> DEFINE Lacks == {m \in 0..root :
                          ~\E f : f = [i \in 1..m |-> QuickNode(nodes[i], f, fs)]}
  <1>1. SUFFICES ASSUME Lacks # {} PROVE FALSE
    BY DEF Shaped
  <1>0. Lacks \subseteq Nat /\ Lacks \subseteq 0..root
    OBVIOUS
  <1>2. PICK m \in Lacks : \A l \in Lacks : m <= l
    <2> HIDE DEF Lacks
    <2> QED BY <1>0, <1>1, LeastMember
  <1>3. m # 0
    <2> DEFINE f == [i \in 1..0 |-> QuickNode(nodes[i], {}, fs)]
    <2>1. f = [i \in 1..0 |-> QuickNode(nodes[i], f, fs)]
      OBVIOUS
    <2> QED BY <2>1
  <1>4. m - 1 \in 0..root /\ m \in 1..root /\ m - 1 \notin Lacks
    <2> HIDE DEF Lacks
    <2> QED BY <1>0, <1>2, <1>3 DEF Shaped
  <1>5. PICK f : f = [i \in 1..(m - 1) |-> QuickNode(nodes[i], f, fs)]
    BY <1>4
  <1> DEFINE g == [i \in 1..m |-> QuickNode(nodes[i], f, fs)]
  <1>6. \A j \in 1..(m - 1) : f[j] = g[j]
    <2>1. \A j \in 1..(m - 1) : f[j] = QuickNode(nodes[j], f, fs)
      BY <1>5, Zenon
    <2>2. \A j \in 1..(m - 1) : j \in 1..m
      BY <1>4
    <2> QED BY <2>1, <2>2
  <1>7. ASSUME NEW i \in 1..m
        PROVE  QuickNode(nodes[i], f, fs) = QuickNode(nodes[i], g, fs)
    <2>1. i \in Nat /\ KidsBelow(nodes[i], i) /\ NotHasKid(nodes[i])
      BY <1>4 DEF Shaped
    <2> HIDE DEF g
    <2>2. \A j \in 1..(i - 1) : f[j] = g[j]
      BY <1>4, <1>6
    <2> QED BY <2>1, <2>2, QuickNodeLocal
  <1>8. g = [i \in 1..m |-> QuickNode(nodes[i], g, fs)]
    BY <1>7
  <1> QED BY <1>8, <1>2

\* QuickTable unfolded.
LEMMA QuickTableDef ==
    ASSUME NEW nodes, NEW root, Shaped(nodes, root), NEW fs
    PROVE  \A i \in 1..root :
               QuickTable(nodes, root, fs)[i] = QuickNode(nodes[i], QuickTable(nodes, root, fs), fs)
  <1>1. PICK f : f = [i \in 1..root |-> QuickNode(nodes[i], f, fs)]
    BY QuickTableExists
  <1>2. QuickTable(nodes, root, fs)
            = [i \in 1..root |-> QuickNode(nodes[i], QuickTable(nodes, root, fs), fs)]
    BY <1>1, Zenon DEF QuickTable
  <1> QED BY <1>2, Zenon

-----------------------------------------------------------------------------
(***************************************************************************)
(* evaluate                                                                *)
(***************************************************************************)

\* With short circuit evaluate stops at the first child that settles the
\* statement, otherwise it visits them all.
LEMMA VisitedFacts ==
    ASSUME NEW node, NEW ok, NEW sc \in BOOLEAN, Len(node.kids) \in Nat
    PROVE  /\ Settling(node, ok) \subseteq 1..Len(node.kids)
           /\ Visited(node, ok, sc) \in 0..Len(node.kids)
           /\ sc /\ Settling(node, ok) # {} => Visited(node, ok, sc) \in Settling(node, ok)
           /\ ~sc \/ Settling(node, ok) = {} => Visited(node, ok, sc) = Len(node.kids)
  <1>1. Settling(node, ok) \subseteq 1..Len(node.kids)
    BY DEF Settling
  <1>2. PICK at : at = Settling(node, ok)
    OBVIOUS
  <1>3. PICK c : c = CHOOSE k \in at : \A j \in at : k <= j
    OBVIOUS
  <1>4. at # {} => c \in at
    BY <1>1, <1>2, <1>3, LeastMember
  <1>5. Visited(node, ok, sc) = IF sc /\ at # {} THEN c ELSE Len(node.kids)
    BY <1>2, <1>3 DEF Visited
  <1> QED BY <1>1, <1>2, <1>4, <1>5

\* Two tables of results agree below node i in one mode, and without short
\* circuit, in which a not evaluates its child.
SameBelow(f, g, i, s) ==
    \A j \in 1..(i - 1) : f[j][s] = g[j][s] /\ f[j][FALSE] = g[j][FALSE]

\* A node of evaluate depends on its children only.
LEMMA EvaluateNodeLocal ==
    ASSUME NEW node, NEW i \in Nat, NEW f, NEW g, NEW fs, NEW s \in BOOLEAN,
           KidsBelow(node, i), NotHasKid(node),
           SameBelow(f, g, i, s)
    PROVE  EvaluateNode(node, f, fs, s) = EvaluateNode(node, g, fs, s)
  <1>0. \A j \in 1..(i - 1) : f[j][s] = g[j][s] /\ f[j][FALSE] = g[j][FALSE]
    BY DEF SameBelow
  <1>1. \A k \in DOMAIN node.kids : f[node.kids[k]][s] = g[node.kids[k]][s]
    BY <1>0, KidFacts
  <1>2. node.kind = "not" => f[node.kids[1]][FALSE] = g[node.kids[1]][FALSE]
    <2>1. node.kind = "not" => node.kids[1] \in 1..(i - 1)
      BY KidFacts DEF NotHasKid
    <2> QED BY <1>0, <2>1, Zenon
  <1>3. [k \in DOMAIN node.kids |-> f[node.kids[k]][s].ok]
            = [k \in DOMAIN node.kids |-> g[node.kids[k]][s].ok]
    BY <1>1
  <1>4. PICK v : v = Visited(node, [k \in DOMAIN node.kids |-> f[node.kids[k]][s].ok], s)
    OBVIOUS
  <1>5. v = Visited(node, [k \in DOMAIN node.kids |-> g[node.kids[k]][s].ok], s)
    BY <1>3, <1>4
  <1>6. v \in 0..Len(node.kids)
    BY <1>4, VisitedFacts, KidFacts
  <1>7. \A k \in 1..v : f[node.kids[k]][s] = g[node.kids[k]][s]
    BY <1>1, <1>6, KidFacts
  <1>8. {k \in 1..v : f[node.kids[k]][s].ok} = {k \in 1..v : g[node.kids[k]][s].ok}
    BY <1>7
  <1>9. UNION {f[node.kids[k]][s].locs : k \in {k \in 1..v : f[node.kids[k]][s].ok}}
            = UNION {g[node.kids[k]][s].locs : k \in {k \in 1..v : g[node.kids[k]][s].ok}}
    BY <1>7, <1>8
  <1> QED BY <1>2, <1>4, <1>5, <1>8, <1>9 DEF EvaluateNode

\* A node's two results depend on its children only.
LEMMA EvaluateBothLocal ==
    ASSUME NEW node, NEW i \in Nat, NEW f, NEW g, NEW fs,
           KidsBelow(node, i), NotHasKid(node),
           \A j \in 1..(i - 1) : f[j] = g[j]
    PROVE  EvaluateBoth(node, f, fs) = EvaluateBoth(node, g, fs)
  <1>2. ASSUME NEW s \in BOOLEAN
        PROVE  EvaluateNode(node, f, fs, s) = EvaluateNode(node, g, fs, s)
    <2>1. SameBelow(f, g, i, s)
      BY Zenon DEF SameBelow
    <2> QED BY <2>1, EvaluateNodeLocal
  <1> QED BY <1>2 DEF EvaluateBoth

\* The function the walk of evaluate defines exists: were there a shortest
\* prefix without one, the function of the prefix before it could be extended
\* by one node.
LEMMA EvaluateTableExists ==
    ASSUME NEW nodes, NEW root, Shaped(nodes, root), NEW fs
    PROVE  \E f : f = [i \in 1..root |-> EvaluateBoth(nodes[i], f, fs)]
  <1> DEFINE Lacks == {m \in 0..root :
                          ~\E f : f = [i \in 1..m |-> EvaluateBoth(nodes[i], f, fs)]}
  <1>1. SUFFICES ASSUME Lacks # {} PROVE FALSE
    BY DEF Shaped
  <1>0. Lacks \subseteq Nat /\ Lacks \subseteq 0..root
    OBVIOUS
  <1>2. PICK m \in Lacks : \A l \in Lacks : m <= l
    <2> HIDE DEF Lacks
    <2> QED BY <1>0, <1>1, LeastMember
  <1>3. m # 0
    <2> DEFINE f == [i \in 1..0 |-> EvaluateBoth(nodes[i], {}, fs)]
    <2>1. f = [i \in 1..0 |-> EvaluateBoth(nodes[i], f, fs)]
      OBVIOUS
    <2> QED BY <2>1
  <1>4. m - 1 \in 0..root /\ m \in 1..root /\ m - 1 \notin Lacks
    <2> HIDE DEF Lacks
    <2> QED BY <1>0, <1>2, <1>3 DEF Shaped
  <1>5. PICK f : f = [i \in 1..(m - 1) |-> EvaluateBoth(nodes[i], f, fs)]
    BY <1>4
  <1> DEFINE g == [i \in 1..m |-> EvaluateBoth(nodes[i], f, fs)]
  <1>6. \A j \in 1..(m - 1) : f[j] = g[j]
    <2>1. \A j \in 1..(m - 1) : f[j] = EvaluateBoth(nodes[j], f, fs)
      BY <1>5, Zenon
    <2>2. \A j \in 1..(m - 1) : j \in 1..m
      BY <1>4
    <2> QED BY <2>1, <2>2
  <1>7. ASSUME NEW i \in 1..m
        PROVE  EvaluateBoth(nodes[i], f, fs) = EvaluateBoth(nodes[i], g, fs)
    <2>1. i \in Nat /\ KidsBelow(nodes[i], i) /\ NotHasKid(nodes[i])
      BY <1>4 DEF Shaped
    <2> HIDE DEF g
    <2>2. \A j \in 1..(i - 1) : f[j] = g[j]
      BY <1>4, <1>6
    <2> QED BY <2>1, <2>2, EvaluateBothLocal
  <1>8. g = [i \in 1..m |-> EvaluateBoth(nodes[i], g, fs)]
    BY <1>7
  <1> QED BY <1>8, <1>2

\* EvaluateTable unfolded.
LEMMA EvaluateTableDef ==
    ASSUME NEW nodes, NEW root, Shaped(nodes, root), NEW fs
    PROVE  \A i \in 1..root :
               EvaluateTable(nodes, root, fs)[i] = EvaluateBoth(nodes[i], EvaluateTable(nodes, root, fs), fs)
  <1>1. PICK f : f = [i \in 1..root |-> EvaluateBoth(nodes[i], f, fs)]
    BY EvaluateTableExists
  <1>2. EvaluateTable(nodes, root, fs)
            = [i \in 1..root |-> EvaluateBoth(nodes[i], EvaluateTable(nodes, root, fs), fs)]
    BY <1>1, Zenon DEF EvaluateTable
  <1> QED BY <1>2, Zenon

-----------------------------------------------------------------------------
(***************************************************************************)
(* evaluate and evaluate_quick agree                                       *)
(***************************************************************************)

\* A part of a finite set has no more members.
LEMMA FewerIn ==
    ASSUME NEW n \in Nat, NEW S, NEW T, S \subseteq T, T \subseteq 1..n
    PROVE  /\ Cardinality(S) \in Nat /\ Cardinality(T) \in Nat
           /\ Cardinality(S) <= Cardinality(T)
  <1>1. IsFiniteSet(1..n)
    BY FS_Interval
  <1>2. IsFiniteSet(T) /\ IsFiniteSet(S)
    BY <1>1, FS_Subset
  <1> QED BY <1>2, FS_Subset, FS_CardinalityType

\* A count of matches, in evaluate and in evaluate_quick.
LEMMA RangeAgrees ==
    ASSUME NEW node, NEW fs, FiniteLocations(fs), node.count \in Nat, node.max \in Nat
    PROVE  InRange(node, fs) =
               LET cnt == Occurrences(node.feat, fs)
               IN  IF node.count = 0 /\ cnt = 0 THEN TRUE
                   ELSE cnt >= node.count /\ cnt <= node.max
  <1>1. Occurrences(node.feat, fs) \in Nat
    BY FS_CardinalityType DEF Occurrences, FiniteLocations
  <1> QED BY <1>1 DEF InRange

\* Whether a node holds is the same for the visited children of evaluate, in
\* either mode, and for all the children.
LEMMA NodeAgrees ==
    ASSUME NEW node, NEW i \in Nat, KidsBelow(node, i), NotHasKid(node),
           node.kind \in Kinds, node.count \in Nat, node.max \in Nat,
           NEW fs, FiniteLocations(fs), NEW r, NEW q, NEW s \in BOOLEAN,
           \A j \in 1..(i - 1) : \A t \in BOOLEAN : r[j][t].ok = q[j]
    PROVE  EvaluateNode(node, r, fs, s).ok = QuickNode(node, q, fs)
  <1>n. PICK n : n = Len(node.kids)
    OBVIOUS
  <1>o. PICK ok : ok = [k \in DOMAIN node.kids |-> r[node.kids[k]][s].ok]
    OBVIOUS
  <1>v. PICK v : v = Visited(node, ok, s)
    OBVIOUS
  <1>h. PICK hits : hits = {k \in 1..v : r[node.kids[k]][s].ok}
    OBVIOUS
  <1>a. PICK all : all = {k \in DOMAIN node.kids : q[node.kids[k]]}
    OBVIOUS
  <1>1. n \in Nat /\ DOMAIN node.kids = 1..n /\ \A k \in 1..n : node.kids[k] \in 1..(i - 1)
    BY <1>n, KidFacts
  <1>2. \A k \in 1..n : r[node.kids[k]][s].ok = q[node.kids[k]] /\ ok[k] = q[node.kids[k]]
    BY <1>1, <1>o
  <1>3. /\ Settling(node, ok) \subseteq 1..n
        /\ v \in 0..n
        /\ s /\ Settling(node, ok) # {} => v \in Settling(node, ok)
        /\ ~s \/ Settling(node, ok) = {} => v = n
    BY <1>1, <1>n, <1>v, VisitedFacts
  <1>k. \A k \in 1..v : k \in 1..n
    BY <1>1, <1>3
  <1>4. \A k : k \in hits <=> k \in 1..v /\ q[node.kids[k]]
    BY <1>2, <1>h, <1>k
  <1>b. \A k : k \in all <=> k \in 1..n /\ q[node.kids[k]]
    BY <1>1, <1>a
  <1>5. hits \subseteq all /\ all \subseteq 1..n
    BY <1>4, <1>b, <1>k
  <1>6. v = n => hits = all
    BY <1>4, <1>b
  <1>7. CASE node.kind = "feature"
    BY <1>7 DEF EvaluateNode, QuickNode, FeatureEvaluate, FeatureMatches
  <1>8. CASE node.kind = "range"
    BY <1>8, RangeAgrees DEF EvaluateNode, QuickNode
  <1>9. CASE node.kind = "not"
    <2>1. Len(node.kids) = 1
      BY <1>9 DEF NotHasKid
    <2>2. r[node.kids[1]][FALSE].ok = q[node.kids[1]]
      <3>1. node.kids[1] \in 1..(i - 1)
        BY <1>1, <1>n, <2>1
      <3>2. FALSE \in BOOLEAN
        OBVIOUS
      <3> QED BY <3>1, <3>2, Zenon
    <2> QED BY <1>9, <2>2 DEF EvaluateNode, QuickNode
  <1>10. CASE node.kind = "optional"
    BY <1>10 DEF EvaluateNode, QuickNode
  <1>11. CASE node.kind = "and"
    <2>1. \A k : k \in Settling(node, ok) <=> k \in 1..n /\ ~q[node.kids[k]]
      BY <1>2, <1>n, <1>11 DEF Settling
    <2>2. hits = 1..v <=> all = 1..n
      <3>1. CASE v = n
        BY <1>6, <3>1
      <3>2. CASE v # n
        <4>1. v \in 1..n /\ ~q[node.kids[v]]
          BY <1>3, <2>1, <3>2
        <4>2. v \in 1..v
          BY <1>1, <4>1
        <4> QED BY <1>4, <1>b, <4>1, <4>2
      <3> QED BY <3>1, <3>2
    <2>3. EvaluateNode(node, r, fs, s).ok = (hits = 1..v)
      BY <1>11, <1>h, <1>o, <1>v DEF EvaluateNode
    <2>4. QuickNode(node, q, fs) = (all = 1..n)
      BY <1>1, <1>11, <1>a DEF QuickNode
    <2> QED BY <2>2, <2>3, <2>4
  <1>12. CASE node.kind = "or"
    <2>1. \A k : k \in Settling(node, ok) <=> k \in 1..n /\ q[node.kids[k]]
      BY <1>2, <1>n, <1>12 DEF Settling
    <2>2. hits # {} <=> all # {}
      <3>1. CASE v = n
        BY <1>6, <3>1
      <3>2. CASE v # n
        <4>1. v \in 1..n /\ q[node.kids[v]]
          BY <1>3, <2>1, <3>2
        <4>2. v \in 1..v
          BY <1>1, <4>1
        <4> QED BY <1>4, <1>b, <4>1, <4>2
      <3> QED BY <3>1, <3>2
    <2>3. EvaluateNode(node, r, fs, s).ok = (hits # {})
      BY <1>12, <1>h, <1>o, <1>v DEF EvaluateNode
    <2>4. QuickNode(node, q, fs) = (all # {})
      BY <1>12, <1>a DEF QuickNode
    <2> QED BY <2>2, <2>3, <2>4
  <1>13. CASE node.kind = "some"
    <2>1. \A k \in Settling(node, ok) :
              Cardinality({j \in 1..k : ok[j]}) >= node.count
      BY <1>13 DEF Settling
    <2>2. hits = {j \in 1..v : ok[j]}
      BY <1>2, <1>h, <1>k
    <2>3. v # n => Cardinality(hits) >= node.count
      BY <1>3, <2>1, <2>2
    <2>4. /\ Cardinality(hits) \in Nat /\ Cardinality(all) \in Nat
          /\ Cardinality(hits) <= Cardinality(all)
      BY <1>1, <1>5, FewerIn
    <2>5. Cardinality(hits) >= node.count <=> Cardinality(all) >= node.count
      BY <1>6, <2>3, <2>4
    <2>6. EvaluateNode(node, r, fs, s).ok = (Cardinality(hits) >= node.count)
      BY <1>13, <1>h, <1>o, <1>v DEF EvaluateNode
    <2>7. QuickNode(node, q, fs) = (Cardinality(all) >= node.count)
      BY <1>13, <1>a DEF QuickNode
    <2> QED BY <2>5, <2>6, <2>7
  <1> QED BY <1>7, <1>8, <1>9, <1>10, <1>11, <1>12, <1>13 DEF Kinds

\* A tree of statements without Subscope, with natural thresholds and bounds.
\* A "some" asks for one child at least: with 0 it is "optional".
Ground(nodes, root) ==
    \A i \in 1..root :
        /\ nodes[i].kind \in Kinds /\ nodes[i].count \in Nat /\ nodes[i].max \in Nat
        /\ nodes[i].kind = "some" => nodes[i].count # 0

\* evaluate in either mode and evaluate_quick give one verdict at every node.
LEMMA TablesAgree ==
    ASSUME NEW nodes, NEW root, Shaped(nodes, root), Ground(nodes, root),
           NEW fs, FiniteLocations(fs)
    PROVE  \A i \in 1..root : \A s \in BOOLEAN :
               EvaluateTable(nodes, root, fs)[i][s].ok = QuickTable(nodes, root, fs)[i]
  <1>1. PICK r : r = EvaluateTable(nodes, root, fs)
    OBVIOUS
  <1>2. PICK q : q = QuickTable(nodes, root, fs)
    OBVIOUS
  <1> DEFINE Differ == {i \in 1..root : \E s \in BOOLEAN : r[i][s].ok # q[i]}
  <1>3. SUFFICES ASSUME Differ # {} PROVE FALSE
    BY <1>1, <1>2
  <1>4. Differ \subseteq Nat /\ Differ \subseteq 1..root
    OBVIOUS
  <1>5. PICK i \in Differ : \A j \in Differ : i <= j
    <2> HIDE DEF Differ
    <2> QED BY <1>3, <1>4, LeastMember
  <1>6. i \in 1..root /\ i \in Nat /\ root \in Nat
    BY <1>5 DEF Shaped
  <1>7. \A j \in 1..(i - 1) : j \in 1..root /\ j \notin Differ
    BY <1>4, <1>5, <1>6
  <1>8. \A j \in 1..(i - 1) : \A s \in BOOLEAN : r[j][s].ok = q[j]
    BY <1>7
  <1>9. ASSUME NEW s \in BOOLEAN PROVE r[i][s].ok = q[i]
    <2>1. r[i] = EvaluateBoth(nodes[i], r, fs) /\ q[i] = QuickNode(nodes[i], q, fs)
      BY <1>1, <1>2, <1>6, EvaluateTableDef, QuickTableDef
    <2>2. r[i][s] = EvaluateNode(nodes[i], r, fs, s)
      BY <2>1 DEF EvaluateBoth
    <2>3. EvaluateNode(nodes[i], r, fs, s).ok = QuickNode(nodes[i], q, fs)
      <3>1. /\ KidsBelow(nodes[i], i) /\ NotHasKid(nodes[i])
            /\ nodes[i].kind \in Kinds /\ nodes[i].count \in Nat /\ nodes[i].max \in Nat
        BY <1>6 DEF Shaped, Ground
      <3> QED BY <1>6, <1>8, <3>1, NodeAgrees
    <2> QED BY <2>1, <2>2, <2>3
  <1> QED BY <1>5, <1>9

-----------------------------------------------------------------------------
(***************************************************************************)
(* need                                                                    *)
(***************************************************************************)

\* The loop of need over the children of an And.
LEMMA BestSoFarExists ==
    ASSUME NEW needs, Len(needs) \in Nat
    PROVE  \E f : f = [k \in 0..Len(needs) |->
                         IF k = 0 THEN NoNeed
                         ELSE IF Better(f[k - 1], needs[k]) THEN needs[k] ELSE f[k - 1]]
  <1>n. PICK n : n = Len(needs)
    OBVIOUS
  <1> DEFINE Step(f, k) == IF k = 0 THEN NoNeed
                           ELSE IF Better(f[k - 1], needs[k]) THEN needs[k] ELSE f[k - 1]
             Lacks == {m \in 0..n : ~\E f : f = [k \in 0..m |-> Step(f, k)]}
  <1>1. SUFFICES ASSUME Lacks # {} PROVE FALSE
    <2> HIDE DEF Step
    <2>1. Lacks = {} => \E f : f = [k \in 0..n |-> Step(f, k)]
      BY <1>n
    <2> QED BY <1>n, <2>1 DEF Step
  <1>0. Lacks \subseteq Nat /\ Lacks \subseteq 0..n
    BY <1>n
  <1>2. PICK m \in Lacks : \A l \in Lacks : m <= l
    <2> HIDE DEF Lacks
    <2> QED BY <1>0, <1>1, LeastMember
  <1>3. m # 0
    <2> DEFINE f == [k \in 0..0 |-> NoNeed]
    <2>1. f = [k \in 0..0 |-> Step(f, k)]
      OBVIOUS
    <2> QED BY <2>1
  <1>4. m - 1 \in 0..n /\ m \in 1..n /\ m - 1 \notin Lacks
    <2> HIDE DEF Lacks
    <2> QED BY <1>0, <1>2, <1>3, <1>n
  <1>5. PICK f : f = [k \in 0..(m - 1) |-> Step(f, k)]
    BY <1>4
  <1> DEFINE g == [k \in 0..m |-> Step(f, k)]
  <1>6. \A k \in 0..(m - 1) : f[k] = g[k]
    <2>1. \A k \in 0..(m - 1) : f[k] = Step(f, k)
      BY <1>5, Zenon
    <2>2. \A k \in 0..(m - 1) : k \in 0..m
      BY <1>4
    <2> QED BY <2>1, <2>2
  <1>7. ASSUME NEW k \in 0..m PROVE Step(f, k) = Step(g, k)
    <2>1. k # 0 => k - 1 \in 0..(m - 1)
      BY <1>4
    <2> HIDE DEF g
    <2> QED BY <1>6, <2>1
  <1>8. g = [k \in 0..m |-> Step(g, k)]
    BY <1>7
  <1> QED BY <1>8, <1>2

\* The best need is one of the children's, or none.
LEMMA BestNeedFrom ==
    ASSUME NEW needs, Len(needs) \in Nat
    PROVE  BestNeed(needs) = NoNeed \/ \E k \in 1..Len(needs) : BestNeed(needs) = needs[k]
  <1>n. PICK n : n = Len(needs)
    OBVIOUS
  <1> DEFINE Step(f, k) == IF k = 0 THEN NoNeed
                           ELSE IF Better(f[k - 1], needs[k]) THEN needs[k] ELSE f[k - 1]
  <1>1. PICK f : f = [k \in 0..Len(needs) |-> Step(f, k)]
    BY BestSoFarExists
  <1>b. PICK best : best = BestSoFar(needs)
    OBVIOUS
  <1>2. best = [k \in 0..Len(needs) |-> Step(best, k)]
    BY <1>1, <1>b, Zenon DEF BestSoFar
  <1>3. \A k \in 0..n : best[k] = Step(best, k)
    BY <1>2, <1>n, Zenon
  <1> DEFINE Strange == {k \in 0..n : best[k] # NoNeed /\ ~\E j \in 1..n : best[k] = needs[j]}
  <1>4. SUFFICES ASSUME Strange # {} PROVE FALSE
    BY <1>b, <1>n DEF BestNeed
  <1>5. Strange \subseteq Nat
    BY <1>n
  <1>6. PICK k \in Strange : \A j \in Strange : k <= j
    <2> HIDE DEF Strange
    <2> QED BY <1>4, <1>5, LeastMember
  <1>7. k # 0
    BY <1>3, <1>6
  <1>8. k - 1 \in 0..n /\ k \in 1..n /\ k - 1 \notin Strange
    BY <1>6, <1>7, <1>n
  <1>9. best[k] = needs[k] \/ best[k] = best[k - 1]
    BY <1>3, <1>6, <1>7
  <1> QED BY <1>6, <1>8, <1>9

\* A node of need depends on its children only.
LEMMA NeedNodeLocal ==
    ASSUME NEW node, NEW i \in Nat, NEW f, NEW g,
           KidsBelow(node, i), NotHasKid(node),
           \A j \in 1..(i - 1) : f[j] = g[j]
    PROVE  NeedNode(node, f) = NeedNode(node, g)
  <1>1. [k \in DOMAIN node.kids |-> f[node.kids[k]]] = [k \in DOMAIN node.kids |-> g[node.kids[k]]]
    BY KidFacts
  <1> QED BY <1>1 DEF NeedNode

\* The function the need analysis defines exists: were there a shortest prefix without one,
\* the function of the prefix before it could be extended by one node.
LEMMA NeedTableExists ==
    ASSUME NEW nodes, NEW root, Shaped(nodes, root)
    PROVE  \E f : f = [i \in 1..root |-> NeedNode(nodes[i], f)]
  <1> DEFINE Lacks == {m \in 0..root :
                          ~\E f : f = [i \in 1..m |-> NeedNode(nodes[i], f)]}
  <1>1. SUFFICES ASSUME Lacks # {} PROVE FALSE
    BY DEF Shaped
  <1>0. Lacks \subseteq Nat /\ Lacks \subseteq 0..root
    OBVIOUS
  <1>2. PICK m \in Lacks : \A l \in Lacks : m <= l
    <2> HIDE DEF Lacks
    <2> QED BY <1>0, <1>1, LeastMember
  <1>3. m # 0
    <2> DEFINE f == [i \in 1..0 |-> NeedNode(nodes[i], {})]
    <2>1. f = [i \in 1..0 |-> NeedNode(nodes[i], f)]
      OBVIOUS
    <2> QED BY <2>1
  <1>4. m - 1 \in 0..root /\ m \in 1..root /\ m - 1 \notin Lacks
    <2> HIDE DEF Lacks
    <2> QED BY <1>0, <1>2, <1>3 DEF Shaped
  <1>5. PICK f : f = [i \in 1..(m - 1) |-> NeedNode(nodes[i], f)]
    BY <1>4
  <1> DEFINE g == [i \in 1..m |-> NeedNode(nodes[i], f)]
  <1>6. \A j \in 1..(m - 1) : f[j] = g[j]
    <2>1. \A j \in 1..(m - 1) : f[j] = NeedNode(nodes[j], f)
      BY <1>5, Zenon
    <2>2. \A j \in 1..(m - 1) : j \in 1..m
      BY <1>4
    <2> QED BY <2>1, <2>2
  <1>7. ASSUME NEW i \in 1..m
        PROVE  NeedNode(nodes[i], f) = NeedNode(nodes[i], g)
    <2>1. i \in Nat /\ KidsBelow(nodes[i], i) /\ NotHasKid(nodes[i])
      BY <1>4 DEF Shaped
    <2> HIDE DEF g
    <2>2. \A j \in 1..(i - 1) : f[j] = g[j]
      BY <1>4, <1>6
    <2> QED BY <2>1, <2>2, NeedNodeLocal
  <1>8. g = [i \in 1..m |-> NeedNode(nodes[i], g)]
    BY <1>7
  <1> QED BY <1>8, <1>2

\* NeedTable unfolded.
LEMMA NeedTableDef ==
    ASSUME NEW nodes, NEW root, Shaped(nodes, root)
    PROVE  \A i \in 1..root : NeedTable(nodes, root)[i] = NeedNode(nodes[i], NeedTable(nodes, root))
  <1>1. PICK f : f = [i \in 1..root |-> NeedNode(nodes[i], f)]
    BY NeedTableExists
  <1>2. NeedTable(nodes, root) = [i \in 1..root |-> NeedNode(nodes[i], NeedTable(nodes, root))]
    BY <1>1, Zenon DEF NeedTable
  <1> QED BY <1>2, Zenon

\* A feature of the set is in the needs, if there are any.
Met(need, fs) == need.feats = {} \/ need.feats \cap DOMAIN fs # {}

\* A leaf that a lookup decides is met by its own feature.
LEMMA LeafMet ==
    ASSUME NEW f, NEW fs, FeatureMatches(f, fs)
    PROVE  Met(LeafNeed(f), fs)
  <1>1. CASE Indexable(f.tag)
    <2>1. f.tag \notin {"Substring", "Regex"} /\ f.tag # "Bytes" /\ f.tag # "Os"
      BY <1>1 DEF Indexable
    <2>2. Witnesses(f, fs) = {f} \cap DOMAIN fs
      BY <2>1 DEF Witnesses
    <2> QED BY <1>1, <2>2 DEF FeatureMatches, LeafNeed, Met
  <1>2. CASE ~Indexable(f.tag)
    BY <1>2 DEF LeafNeed, Met, NoNeed
  <1> QED BY <1>1, <1>2

\* A node that holds, over children whose needs are met if they hold, has its
\* own needs met.
LEMMA NodeMet ==
    ASSUME NEW node, NEW i \in Nat, KidsBelow(node, i), NotHasKid(node),
           node.count \in Nat, node.kind = "some" => node.count # 0,
           NEW fs, NEW q, NEW n,
           \A j \in 1..(i - 1) : q[j] => Met(n[j], fs),
           QuickNode(node, q, fs)
    PROVE  Met(NeedNode(node, n), fs)
  <1>k. PICK kids : kids = [k \in DOMAIN node.kids |-> n[node.kids[k]]]
    OBVIOUS
  <1>h. PICK hits : hits = {k \in DOMAIN node.kids : q[node.kids[k]]}
    OBVIOUS
  <1>1. /\ Len(node.kids) \in Nat /\ DOMAIN node.kids = 1..Len(node.kids)
        /\ \A k \in DOMAIN node.kids : node.kids[k] \in 1..(i - 1)
    BY KidFacts
  <1>2. DOMAIN kids = DOMAIN node.kids /\ Len(kids) = Len(node.kids)
    BY <1>1, <1>k
  <1>3. \A k \in hits : k \in DOMAIN kids /\ Met(kids[k], fs)
    BY <1>1, <1>2, <1>h, <1>k
  <1>4. CASE node.kind = "feature"
    <2>1. FeatureMatches(node.feat, fs)
      BY <1>4 DEF QuickNode
    <2> QED BY <1>4, <2>1, LeafMet DEF NeedNode
  <1>5. CASE node.kind = "range"
    <2>1. CASE node.count = 0
      BY <1>5, <2>1 DEF NeedNode, Met, NoNeed
    <2>2. CASE node.count # 0
      <3>1. Occurrences(node.feat, fs) >= node.count
        BY <1>5, <2>2 DEF QuickNode
      <3>2. node.feat \in DOMAIN fs
        BY <2>2, <3>1 DEF Occurrences
      <3>3. Met(LeafNeed(node.feat), fs)
        BY <3>2 DEF LeafNeed, Met, NoNeed
      <3> QED BY <1>5, <2>2, <3>3 DEF NeedNode
    <2> QED BY <2>1, <2>2
  <1>6. CASE node.kind = "and"
    <2>1. hits = DOMAIN node.kids
      BY <1>6, <1>h DEF QuickNode
    <2>2. NeedNode(node, n) = BestNeed(kids)
      BY <1>6, <1>k DEF NeedNode
    <2>3. BestNeed(kids) = NoNeed \/ \E k \in DOMAIN node.kids : BestNeed(kids) = kids[k]
      BY <1>1, <1>2, BestNeedFrom
    <2> QED BY <1>3, <2>1, <2>2, <2>3 DEF Met, NoNeed
  <1>7. CASE node.kind \in {"or", "some"}
    <2>1. hits # {}
      <3>1. CASE node.kind = "or"
        BY <3>1, <1>h DEF QuickNode
      <3>2. CASE node.kind = "some"
        <4>1. Cardinality(hits) >= node.count
          BY <3>2, <1>h DEF QuickNode
        <4>2. node.count # 0
          BY <3>2
        <4>3. hits = {} => Cardinality(hits) = 0
          BY FS_EmptySet
        <4>4. ~(0 >= node.count)
          BY <4>2
        <4> QED BY <4>1, <4>3, <4>4
      <3> QED BY <1>7, <3>1, <3>2
    <2>2. NeedNode(node, n) = AnyNeed(kids)
      BY <1>7, <1>k DEF NeedNode
    <2>3. PICK k \in DOMAIN kids : Met(kids[k], fs)
      BY <1>3, <2>1
    <2>4. PICK all : all = {kids[j] : j \in DOMAIN kids}
      OBVIOUS
    <2>5. \/ AnyNeed(kids) = NoNeed
          \/ /\ NoNeed.feats \notin {m.feats : m \in all}
             /\ AnyNeed(kids).feats = UNION {m.feats : m \in all}
      BY <2>4 DEF AnyNeed
    <2>6. kids[k] \in all
      BY <2>4
    <2> QED BY <2>2, <2>3, <2>5, <2>6 DEF Met, NoNeed
  <1>8. CASE node.kind \notin {"feature", "range", "and", "or", "some"}
    <2>1. NeedNode(node, n) = NoNeed
      BY <1>8 DEF NeedNode
    <2> QED BY <2>1 DEF Met, NoNeed
  <1> QED BY <1>4, <1>5, <1>6, <1>7, <1>8

\* At every node, a tree that holds has its needs met.
LEMMA NeedsMet ==
    ASSUME NEW nodes, NEW root, Shaped(nodes, root), Ground(nodes, root), NEW fs
    PROVE  \A i \in 1..root :
               QuickTable(nodes, root, fs)[i] => Met(NeedTable(nodes, root)[i], fs)
  <1>1. PICK q : q = QuickTable(nodes, root, fs)
    OBVIOUS
  <1>2. PICK n : n = NeedTable(nodes, root)
    OBVIOUS
  <1> DEFINE Unmet == {i \in 1..root : q[i] /\ ~Met(n[i], fs)}
  <1>3. SUFFICES ASSUME Unmet # {} PROVE FALSE
    BY <1>1, <1>2
  <1>4. Unmet \subseteq Nat /\ Unmet \subseteq 1..root
    OBVIOUS
  <1>5. PICK i \in Unmet : \A j \in Unmet : i <= j
    <2> HIDE DEF Unmet
    <2> QED BY <1>3, <1>4, LeastMember
  <1>6. i \in 1..root /\ i \in Nat /\ root \in Nat
    BY <1>5 DEF Shaped
  <1>7. \A j \in 1..(i - 1) : j \in 1..root /\ j \notin Unmet
    BY <1>4, <1>5, <1>6
  <1>8. \A j \in 1..(i - 1) : q[j] => Met(n[j], fs)
    BY <1>7
  <1>9. n[i] = NeedNode(nodes[i], n) /\ q[i] = QuickNode(nodes[i], q, fs)
    BY <1>1, <1>2, <1>6, NeedTableDef, QuickTableDef
  <1>10. /\ KidsBelow(nodes[i], i) /\ NotHasKid(nodes[i])
         /\ nodes[i].count \in Nat /\ (nodes[i].kind = "some" => nodes[i].count # 0)
    BY <1>6 DEF Shaped, Ground
  <1>11. q[i] => Met(n[i], fs)
    BY <1>6, <1>8, <1>9, <1>10, NodeMet
  <1> QED BY <1>5, <1>11

\* What a tree requires a structural lookup decides.
LEMMA NeedsIndexable ==
    ASSUME NEW nodes, NEW root, Shaped(nodes, root)
    PROVE  \A i \in 1..root : \A f \in NeedTable(nodes, root)[i].feats : Indexable(f.tag)
  <1>2. PICK n : n = NeedTable(nodes, root)
    OBVIOUS
  <1> DEFINE Bare(need) == \A f \in need.feats : Indexable(f.tag)
             Differ == {i \in 1..root : ~Bare(n[i])}
  <1>3. SUFFICES ASSUME Differ # {} PROVE FALSE
    BY <1>2
  <1>4. Differ \subseteq Nat /\ Differ \subseteq 1..root
    OBVIOUS
  <1>5. PICK i \in Differ : \A j \in Differ : i <= j
    <2> HIDE DEF Differ
    <2> QED BY <1>3, <1>4, LeastMember
  <1>6. i \in 1..root /\ i \in Nat /\ root \in Nat
    BY <1>5 DEF Shaped
  <1>7. \A j \in 1..(i - 1) : j \in 1..root /\ j \notin Differ
    <2> HIDE DEF Differ
    <2> QED BY <1>4, <1>5, <1>6
  <1>8. \A j \in 1..(i - 1) : Bare(n[j])
    BY <1>7
  <1>9. PICK node : node = nodes[i]
    OBVIOUS
  <1>10. n[i] = NeedNode(node, n) /\ KidsBelow(node, i)
    BY <1>2, <1>6, <1>9, NeedTableDef DEF Shaped
  <1>11. PICK kids : kids = [k \in DOMAIN node.kids |-> n[node.kids[k]]]
    OBVIOUS
  <1>12. /\ Len(node.kids) \in Nat /\ DOMAIN node.kids = 1..Len(node.kids)
         /\ \A k \in DOMAIN node.kids : node.kids[k] \in 1..(i - 1)
    BY <1>6, <1>10, KidFacts
  <1>13. DOMAIN kids = DOMAIN node.kids /\ Len(kids) = Len(node.kids)
    BY <1>11, <1>12
  <1>14. \A k \in DOMAIN kids : Bare(kids[k])
    BY <1>8, <1>11, <1>12, <1>13
  <1> HIDE DEF Differ
  <1>15. Bare(NoNeed) /\ Bare(LeafNeed(node.feat))
    BY DEF NoNeed, LeafNeed
  <1>16. Bare(NeedNode(node, n))
    <2>1. CASE node.kind \in {"feature", "range"}
      BY <1>15, <2>1 DEF NeedNode
    <2>2. CASE node.kind = "and"
      <3>1. NeedNode(node, n) = BestNeed(kids)
        BY <2>2, <1>11 DEF NeedNode
      <3>2. BestNeed(kids) = NoNeed \/ \E k \in DOMAIN node.kids : BestNeed(kids) = kids[k]
        BY <1>12, <1>13, BestNeedFrom
      <3> QED BY <1>13, <1>14, <1>15, <3>1, <3>2
    <2>3. CASE node.kind \in {"or", "some"}
      <3>1. NeedNode(node, n) = AnyNeed(kids)
        BY <2>3, <1>11 DEF NeedNode
      <3>2. PICK all : all = {kids[j] : j \in DOMAIN kids}
        OBVIOUS
      <3>3. \/ AnyNeed(kids) = NoNeed
            \/ AnyNeed(kids).feats = UNION {m.feats : m \in all}
        BY <3>2 DEF AnyNeed
      <3>4. \A m \in all : Bare(m)
        BY <1>14, <3>2
      <3>5. \A f \in UNION {m.feats : m \in all} : Indexable(f.tag)
        BY <3>4
      <3> QED BY <1>15, <3>1, <3>3, <3>5
    <2>4. CASE node.kind \notin {"feature", "range", "and", "or", "some"}
      <3>1. NeedNode(node, n) = NoNeed
        BY <2>4 DEF NeedNode
      <3> QED BY <1>15, <3>1
    <2> QED BY <2>1, <2>2, <2>3, <2>4
  <1> QED BY <1>5, <1>10, <1>16 DEF Differ

-----------------------------------------------------------------------------
(***************************************************************************)
(* node_cost                                                               *)
(***************************************************************************)

\* The running sum of a list of costs exists.
LEMMA SumSoFarExists ==
    ASSUME NEW costs, Len(costs) \in Nat
    PROVE  \E f : f = [k \in 0..Len(costs) |->
                         IF k = 0 THEN 1 ELSE f[k - 1] + costs[k]]
  <1>n. PICK n : n = Len(costs)
    OBVIOUS
  <1> DEFINE Step(f, k) == IF k = 0 THEN 1 ELSE f[k - 1] + costs[k]
             Lacks == {m \in 0..n : ~\E f : f = [k \in 0..m |-> Step(f, k)]}
  <1>1. SUFFICES ASSUME Lacks # {} PROVE FALSE
    <2> HIDE DEF Step
    <2>1. Lacks = {} => \E f : f = [k \in 0..n |-> Step(f, k)]
      BY <1>n
    <2> QED BY <1>n, <2>1 DEF Step
  <1>0. Lacks \subseteq Nat /\ Lacks \subseteq 0..n
    BY <1>n
  <1>2. PICK m \in Lacks : \A l \in Lacks : m <= l
    <2> HIDE DEF Lacks
    <2> QED BY <1>0, <1>1, LeastMember
  <1>3. m # 0
    <2> DEFINE f == [k \in 0..0 |-> 1]
    <2>1. f = [k \in 0..0 |-> Step(f, k)]
      OBVIOUS
    <2> QED BY <2>1
  <1>4. m - 1 \in 0..n /\ m \in 1..n /\ m - 1 \notin Lacks
    <2> HIDE DEF Lacks
    <2> QED BY <1>0, <1>2, <1>3, <1>n
  <1>5. PICK f : f = [k \in 0..(m - 1) |-> Step(f, k)]
    BY <1>4
  <1> DEFINE g == [k \in 0..m |-> Step(f, k)]
  <1>6. \A k \in 0..(m - 1) : f[k] = g[k]
    <2>1. \A k \in 0..(m - 1) : f[k] = Step(f, k)
      BY <1>5, Zenon
    <2>2. \A k \in 0..(m - 1) : k \in 0..m
      BY <1>4
    <2> QED BY <2>1, <2>2
  <1>7. ASSUME NEW k \in 0..m PROVE Step(f, k) = Step(g, k)
    <2>1. k # 0 => k - 1 \in 0..(m - 1)
      BY <1>4
    <2> HIDE DEF g
    <2> QED BY <1>6, <2>1
  <1>8. g = [k \in 0..m |-> Step(g, k)]
    BY <1>7
  <1> QED BY <1>8, <1>2

\* A sum of costs is a natural number.
LEMMA SumType ==
    ASSUME NEW costs, Len(costs) \in Nat, \A k \in 1..Len(costs) : costs[k] \in Nat
    PROVE  SumSoFar(costs)[Len(costs)] \in Nat
  <1>n. PICK n : n = Len(costs)
    OBVIOUS
  <1> DEFINE Step(f, k) == IF k = 0 THEN 1 ELSE f[k - 1] + costs[k]
  <1>1. PICK f : f = [k \in 0..Len(costs) |-> Step(f, k)]
    BY SumSoFarExists
  <1>s. PICK sum : sum = SumSoFar(costs)
    OBVIOUS
  <1>2. sum = [k \in 0..Len(costs) |-> Step(sum, k)]
    BY <1>1, <1>s, Zenon DEF SumSoFar
  <1>3. \A k \in 0..n : sum[k] = Step(sum, k)
    BY <1>2, <1>n, Zenon
  <1> DEFINE Strange == {k \in 0..n : sum[k] \notin Nat}
  <1>4. SUFFICES ASSUME Strange # {} PROVE FALSE
    BY <1>s, <1>n
  <1>5. Strange \subseteq Nat
    BY <1>n
  <1>6. PICK k \in Strange : \A j \in Strange : k <= j
    <2> HIDE DEF Strange
    <2> QED BY <1>4, <1>5, LeastMember
  <1>7. k # 0
    BY <1>3, <1>6
  <1>8. k - 1 \in 0..n /\ k \in 1..n /\ k - 1 \notin Strange
    BY <1>6, <1>7, <1>n
  <1>9. sum[k] = sum[k - 1] + costs[k]
    BY <1>3, <1>6, <1>7
  <1>10. sum[k - 1] \in Nat /\ costs[k] \in Nat
    BY <1>8, <1>n
  <1> QED BY <1>6, <1>9, <1>10

\* A node of node_cost depends on its children only.
LEMMA CostNodeLocal ==
    ASSUME NEW node, NEW i \in Nat, NEW f, NEW g,
           KidsBelow(node, i), NotHasKid(node),
           \A j \in 1..(i - 1) : f[j] = g[j]
    PROVE  CostNode(node, f) = CostNode(node, g)
  <1>1. [k \in DOMAIN node.kids |-> f[node.kids[k]]] = [k \in DOMAIN node.kids |-> g[node.kids[k]]]
    BY KidFacts
  <1> QED BY <1>1 DEF CostNode

\* The function node_cost defines exists: were there a shortest prefix without one,
\* the function of the prefix before it could be extended by one node.
LEMMA NodeCostExists ==
    ASSUME NEW nodes, NEW root, root = Len(nodes), Shaped(nodes, root)
    PROVE  \E f : f = [i \in 1..root |-> CostNode(nodes[i], f)]
  <1> DEFINE Lacks == {m \in 0..root :
                          ~\E f : f = [i \in 1..m |-> CostNode(nodes[i], f)]}
  <1>1. SUFFICES ASSUME Lacks # {} PROVE FALSE
    BY DEF Shaped
  <1>0. Lacks \subseteq Nat /\ Lacks \subseteq 0..root
    OBVIOUS
  <1>2. PICK m \in Lacks : \A l \in Lacks : m <= l
    <2> HIDE DEF Lacks
    <2> QED BY <1>0, <1>1, LeastMember
  <1>3. m # 0
    <2> DEFINE f == [i \in 1..0 |-> CostNode(nodes[i], {})]
    <2>1. f = [i \in 1..0 |-> CostNode(nodes[i], f)]
      OBVIOUS
    <2> QED BY <2>1
  <1>4. m - 1 \in 0..root /\ m \in 1..root /\ m - 1 \notin Lacks
    <2> HIDE DEF Lacks
    <2> QED BY <1>0, <1>2, <1>3 DEF Shaped
  <1>5. PICK f : f = [i \in 1..(m - 1) |-> CostNode(nodes[i], f)]
    BY <1>4
  <1> DEFINE g == [i \in 1..m |-> CostNode(nodes[i], f)]
  <1>6. \A j \in 1..(m - 1) : f[j] = g[j]
    <2>1. \A j \in 1..(m - 1) : f[j] = CostNode(nodes[j], f)
      BY <1>5, Zenon
    <2>2. \A j \in 1..(m - 1) : j \in 1..m
      BY <1>4
    <2> QED BY <2>1, <2>2
  <1>7. ASSUME NEW i \in 1..m
        PROVE  CostNode(nodes[i], f) = CostNode(nodes[i], g)
    <2>1. i \in Nat /\ KidsBelow(nodes[i], i) /\ NotHasKid(nodes[i])
      BY <1>4 DEF Shaped
    <2> HIDE DEF g
    <2>2. \A j \in 1..(i - 1) : f[j] = g[j]
      BY <1>4, <1>6
    <2> QED BY <2>1, <2>2, CostNodeLocal
  <1>8. g = [i \in 1..m |-> CostNode(nodes[i], g)]
    BY <1>7
  <1> QED BY <1>8, <1>2

\* NodeCost unfolded.
LEMMA NodeCostDef ==
    ASSUME NEW nodes, NEW root, root = Len(nodes), Shaped(nodes, root)
    PROVE  \A i \in 1..root : NodeCost(nodes)[i] = CostNode(nodes[i], NodeCost(nodes))
  <1>1. PICK f : f = [i \in 1..root |-> CostNode(nodes[i], f)]
    BY NodeCostExists
  <1>2. NodeCost(nodes) = [i \in 1..root |-> CostNode(nodes[i], NodeCost(nodes))]
    BY <1>1, Zenon DEF NodeCost
  <1> QED BY <1>2, Zenon

\* The cost of every node is a natural number.
LEMMA CostType ==
    ASSUME NEW nodes, NEW root, root = Len(nodes), Shaped(nodes, root)
    PROVE  \A i \in 1..root : NodeCost(nodes)[i] \in Nat
  <1>1. PICK cost : cost = NodeCost(nodes)
    OBVIOUS
  <1> DEFINE Strange == {i \in 1..root : cost[i] \notin Nat}
  <1>3. SUFFICES ASSUME Strange # {} PROVE FALSE
    BY <1>1
  <1>4. Strange \subseteq Nat /\ Strange \subseteq 1..root
    OBVIOUS
  <1>5. PICK i \in Strange : \A j \in Strange : i <= j
    <2> HIDE DEF Strange
    <2> QED BY <1>3, <1>4, LeastMember
  <1>6. i \in 1..root /\ i \in Nat /\ root \in Nat
    BY <1>5 DEF Shaped
  <1>7. \A j \in 1..(i - 1) : j \in 1..root /\ j \notin Strange
    BY <1>4, <1>5, <1>6
  <1>8. \A j \in 1..(i - 1) : cost[j] \in Nat
    BY <1>7
  <1>9. cost[i] = CostNode(nodes[i], cost)
    BY <1>1, <1>6, NodeCostDef
  <1>10. PICK costs : costs = [k \in DOMAIN nodes[i].kids |-> cost[nodes[i].kids[k]]]
    OBVIOUS
  <1>11. /\ Len(nodes[i].kids) \in Nat /\ DOMAIN nodes[i].kids = 1..Len(nodes[i].kids)
         /\ \A k \in DOMAIN nodes[i].kids : nodes[i].kids[k] \in 1..(i - 1)
    BY <1>6, KidFacts DEF Shaped
  <1>12. Len(costs) \in Nat /\ \A k \in 1..Len(costs) : costs[k] \in Nat
    <2>1. DOMAIN costs = 1..Len(nodes[i].kids) /\ Len(costs) = Len(nodes[i].kids)
      BY <1>10, <1>11
    <2>2. \A k \in 1..Len(nodes[i].kids) : costs[k] = cost[nodes[i].kids[k]]
      BY <1>10, <1>11
    <2> QED BY <1>8, <1>11, <2>1, <2>2
  <1>13. SumSoFar(costs)[Len(costs)] \in Nat
    BY <1>12, SumType
  <1>14. FeatureCost(nodes[i].feat) \in Nat
    BY DEF FeatureCost
  <1>15. CostNode(nodes[i], cost) \in Nat
    BY <1>10, <1>13, <1>14 DEF CostNode
  <1> QED BY <1>5, <1>9, <1>15

-----------------------------------------------------------------------------
(***************************************************************************)
(* optimize                                                                *)
(***************************************************************************)

\* Children that come earlier have a smaller place.
LEMMA RankIncreases ==
    ASSUME NEW n \in Nat, NEW kids, DOMAIN kids = 1..n,
           NEW cost, \A k \in 1..n : cost[kids[k]] \in Nat
    PROVE  /\ Rank(kids, cost) \in [1..n -> 1..n]
           /\ \A j, k \in 1..n : Rank(kids, cost)[j] = Rank(kids, cost)[k] => j = k
  <1>1. IsFiniteSet(1..n) /\ Cardinality(1..n) = n
    BY FS_Interval
  <1>2. ASSUME NEW k \in 1..n
        PROVE  /\ IsFiniteSet(Before(kids, cost, k)) /\ Cardinality(Before(kids, cost, k)) \in Nat
               /\ Cardinality(Before(kids, cost, k)) < n
    <2>1. Before(kids, cost, k) \subseteq 1..n /\ k \notin Before(kids, cost, k)
      BY DEF Before
    <2>2. PICK S : S = Before(kids, cost, k)
      OBVIOUS
    <2>3. IsFiniteSet(S) /\ Cardinality(S) <= n /\ Cardinality(S) # n
      BY <1>1, <2>1, <2>2, FS_Subset
    <2>4. Cardinality(S) \in Nat
      BY <2>3, FS_CardinalityType
    <2> QED BY <2>2, <2>3, <2>4
  <1>3. ASSUME NEW j \in 1..n, NEW k \in 1..n, j \in Before(kids, cost, k)
        PROVE  Cardinality(Before(kids, cost, j)) < Cardinality(Before(kids, cost, k))
    <2>1. Before(kids, cost, j) \subseteq Before(kids, cost, k)
      BY <1>3 DEF Before
    <2>2. j \notin Before(kids, cost, j)
      BY DEF Before
    <2>3. PICK S, T : S = Before(kids, cost, j) /\ T = Before(kids, cost, k)
      OBVIOUS
    <2>4. IsFiniteSet(T) /\ S \in SUBSET T /\ S # T
      BY <1>2, <1>3, <2>1, <2>2, <2>3
    <2>5. Cardinality(S) <= Cardinality(T) /\ Cardinality(S) # Cardinality(T)
      BY <2>4, FS_Subset
    <2>6. Cardinality(S) \in Nat /\ Cardinality(T) \in Nat
      BY <1>2, <2>3
    <2> QED BY <2>3, <2>5, <2>6
  <1>4. \A j, k \in 1..n : j = k \/ j \in Before(kids, cost, k) \/ k \in Before(kids, cost, j)
    BY DEF Before
  <1>5. Rank(kids, cost) \in [1..n -> 1..n]
    BY <1>2 DEF Rank
  <1>6. ASSUME NEW j \in 1..n, NEW k \in 1..n, Rank(kids, cost)[j] = Rank(kids, cost)[k]
        PROVE  j = k
    <2>1. Cardinality(Before(kids, cost, j)) = Cardinality(Before(kids, cost, k))
      BY <1>2, <1>6 DEF Rank
    <2> QED BY <1>2, <1>3, <1>4, <2>1
  <1> QED BY <1>5, <1>6

\* pi rearranges 1..n.
Permutes(pi, n) ==
    /\ pi \in [1..n -> 1..n]
    /\ \A j, k \in 1..n : pi[j] = pi[k] => j = k
    /\ \A k \in 1..n : \E p \in 1..n : pi[p] = k

Rearranged(kids, pi) == [p \in 1..Len(kids) |-> kids[pi[p]]]

\* std::stable_sort permutes the children.
LEMMA SortPermutes ==
    ASSUME NEW n \in Nat, NEW kids, DOMAIN kids = 1..n, Len(kids) = n,
           NEW cost, \A k \in 1..n : cost[kids[k]] \in Nat
    PROVE  \E pi : Permutes(pi, n) /\ StableByCost(kids, cost) = Rearranged(kids, pi)
  <1>1. PICK rank \in [1..n -> 1..n] :
            rank = Rank(kids, cost) /\ \A j, k \in 1..n : rank[j] = rank[k] => j = k
    BY RankIncreases
  <1>2. \A p \in 1..n : \E k \in 1..n : rank[k] = p
    <2>1. rank \in Injection(1..n, 1..n)
      BY <1>1 DEF Injection, IsInjective
    <2>2. IsFiniteSet(1..n)
      BY FS_Interval
    <2>3. rank \in Surjection(1..n, 1..n)
      BY <2>1, <2>2, FS_Injection
    <2> QED BY <2>3 DEF Surjection
  <1>3. PICK pi : pi = [p \in 1..n |-> CHOOSE k \in 1..n : rank[k] = p]
    OBVIOUS
  <1>4. \A p \in 1..n : pi[p] \in 1..n /\ rank[pi[p]] = p
    BY <1>2, <1>3
  <1>5. pi \in [1..n -> 1..n]
    BY <1>3, <1>4
  <1>6. \A j, k \in 1..n : pi[j] = pi[k] => j = k
    BY <1>4
  <1>7. \A k \in 1..n : rank[k] \in 1..n /\ pi[rank[k]] = k
    BY <1>1, <1>4
  <1>8. StableByCost(kids, cost) = Rearranged(kids, pi)
    BY <1>1, <1>3 DEF StableByCost, Rearranged
  <1>9. Permutes(pi, n)
    BY <1>5, <1>6, <1>7 DEF Permutes
  <1> QED BY <1>8, <1>9

\* other is the operator node over the same n children, rearranged.
SameChildren(node, other, pi, n) ==
    /\ Len(node.kids) = n /\ DOMAIN node.kids = 1..n
    /\ node.kind \in {"and", "or", "some", "optional"}
    /\ Permutes(pi, n)
    /\ other.kind = node.kind /\ other.count = node.count
    /\ other.kids = Rearranged(node.kids, pi)

\* The mode without short circuit.
Exhaustive(s) == s = FALSE

\* What evaluate returns at an operator without short circuit does not depend
\* on the order of its children.
LEMMA OrderNeutral ==
    ASSUME NEW node, NEW other, NEW n \in Nat, NEW pi, SameChildren(node, other, pi, n),
           NEW r, NEW fs, NEW s, Exhaustive(s)
    PROVE  EvaluateNode(other, r, fs, s) = EvaluateNode(node, r, fs, s)
  <1> SUFFICES EvaluateNode(other, r, fs, FALSE) = EvaluateNode(node, r, fs, FALSE)
    BY Zenon DEF Exhaustive
  <1> USE DEF SameChildren
  <1>p. /\ pi \in [1..n -> 1..n]
        /\ \A j, k \in 1..n : pi[j] = pi[k] => j = k
        /\ \A k \in 1..n : \E p \in 1..n : pi[p] = k
    BY DEF Permutes
  <1>h. PICK hits : hits = {k \in 1..n : r[node.kids[k]][FALSE].ok}
    OBVIOUS
  <1>w. PICK won : won = UNION {r[node.kids[k]][FALSE].locs : k \in hits}
    OBVIOUS
  <1>i. PICK hits2 : hits2 = {k \in 1..n : r[other.kids[k]][FALSE].ok}
    OBVIOUS
  <1>x. PICK won2 : won2 = UNION {r[other.kids[k]][FALSE].locs : k \in hits2}
    OBVIOUS
  <1>1. Len(other.kids) = n /\ DOMAIN other.kids = 1..n
    BY DEF Rearranged
  <1>2. \A p \in 1..n : other.kids[p] = node.kids[pi[p]] /\ pi[p] \in 1..n
    BY <1>p DEF Rearranged
  <1>3. \A p \in 1..n : p \in hits2 <=> pi[p] \in hits
    BY <1>2, <1>h, <1>i
  <1>4. hits \subseteq 1..n /\ hits2 \subseteq 1..n
    BY <1>h, <1>i
  <1>5. Cardinality(hits2) = Cardinality(hits)
    <2>1. PICK f : f = [p \in hits2 |-> pi[p]]
      OBVIOUS
    <2>2. f \in [hits2 -> hits]
      BY <1>3, <1>4, <2>1
    <2>3. \A a, b \in hits2 : f[a] = f[b] => a = b
      BY <1>p, <1>4, <2>1
    <2>4. \A k \in hits : \E p \in hits2 : f[p] = k
      BY <1>p, <1>3, <1>4, <2>1
    <2>5. f \in Bijection(hits2, hits)
      BY <2>2, <2>3, <2>4 DEF Bijection, Injection, IsInjective, Surjection
    <2>6. ExistsBijection(hits2, hits)
      BY <2>5 DEF ExistsBijection
    <2>7. IsFiniteSet(hits2)
      <3>1. IsFiniteSet(1..n)
        BY FS_Interval
      <3> QED BY <1>4, <3>1, FS_Subset
    <2> QED BY <2>6, <2>7, FS_Bijection
  <1>q. \A k \in 1..n : \E p \in 1..n : pi[p] = k /\ (p \in hits2 <=> k \in hits)
    <2> SUFFICES ASSUME NEW k \in 1..n
                 PROVE  \E p \in 1..n : pi[p] = k /\ (p \in hits2 <=> k \in hits)
      OBVIOUS
    <2>1. PICK p \in 1..n : pi[p] = k
      BY <1>p
    <2> QED BY <1>3, <2>1
  <1>6. hits2 = 1..n <=> hits = 1..n
    <2>1. ASSUME hits2 = 1..n PROVE hits = 1..n
      BY <1>4, <1>q, <2>1
    <2>2. ASSUME hits = 1..n PROVE hits2 = 1..n
      BY <1>2, <1>3, <1>4, <2>2
    <2> QED BY <2>1, <2>2
  <1>7. hits2 = {} <=> hits = {}
    <2>1. ASSUME hits2 = {} PROVE hits = {}
      BY <1>4, <1>q, <2>1
    <2>2. ASSUME hits = {} PROVE hits2 = {}
      BY <1>2, <1>3, <1>4, <2>2
    <2> QED BY <2>1, <2>2
  <1>8. won2 = won
    <2>1. ASSUME NEW x \in won PROVE x \in won2
      <3>1. PICK k \in hits : x \in r[node.kids[k]][FALSE].locs
        <4>1. x \in UNION {r[node.kids[k]][FALSE].locs : k \in hits}
          BY <1>w, <2>1
        <4> QED BY <4>1, Zenon
      <3>2. PICK p \in 1..n : pi[p] = k
        BY <1>p, <1>4
      <3>3. p \in hits2 /\ other.kids[p] = node.kids[k]
        BY <1>2, <1>3, <3>2
      <3>4. x \in r[other.kids[p]][FALSE].locs
        BY <3>1, <3>3, Zenon
      <3> QED BY <1>x, <3>3, <3>4, Zenon
    <2>2. ASSUME NEW x \in won2 PROVE x \in won
      <3>1. PICK p \in hits2 : x \in r[other.kids[p]][FALSE].locs
        <4>1. x \in UNION {r[other.kids[k]][FALSE].locs : k \in hits2}
          BY <1>x, <2>2
        <4> QED BY <4>1, Zenon
      <3>2. pi[p] \in hits /\ other.kids[p] = node.kids[pi[p]]
        BY <1>2, <1>3, <1>4
      <3>3. x \in r[node.kids[pi[p]]][FALSE].locs
        BY <3>1, <3>2, Zenon
      <3> QED BY <1>w, <3>2, <3>3, Zenon
    <2> QED BY <2>1, <2>2
  <1>9. \A ok : Visited(node, ok, FALSE) = n /\ Visited(other, ok, FALSE) = n
    BY <1>1 DEF Visited
  <1>10. CASE node.kind = "and"
    <2>1. EvaluateNode(node, r, fs, FALSE) = [ok |-> hits = 1..n, locs |-> IF hits = 1..n THEN won ELSE {}]
      <3>1. PICK ok : ok = [k \in DOMAIN node.kids |-> r[node.kids[k]][FALSE].ok]
        OBVIOUS
      <3>2. Visited(node, ok, FALSE) = n
        BY <1>9
      <3>3. EvaluateNode(node, r, fs, FALSE) =
                LET seen == 1..Visited(node, ok, FALSE)
                    those == {k \in seen : r[node.kids[k]][FALSE].ok}
                IN  [ok   |-> those = seen,
                     locs |-> IF those = seen THEN UNION {r[node.kids[k]][FALSE].locs : k \in those} ELSE {}]
        BY <1>10, <3>1 DEF EvaluateNode
      <3> QED BY <1>h, <1>w, <3>2, <3>3
    <2>2. EvaluateNode(other, r, fs, FALSE) = [ok |-> hits2 = 1..n, locs |-> IF hits2 = 1..n THEN won2 ELSE {}]
      BY <1>9, <1>10, <1>i, <1>x DEF EvaluateNode
    <2> QED BY <1>6, <1>8, <2>1, <2>2
  <1>11. CASE node.kind = "or"
    <2>1. EvaluateNode(node, r, fs, FALSE) = [ok |-> hits # {}, locs |-> won]
      BY <1>9, <1>11, <1>h, <1>w DEF EvaluateNode
    <2>2. EvaluateNode(other, r, fs, FALSE) = [ok |-> hits2 # {}, locs |-> won2]
      BY <1>9, <1>11, <1>i, <1>x DEF EvaluateNode
    <2> QED BY <1>7, <1>8, <2>1, <2>2
  <1>12. CASE node.kind = "some"
    <2>1. EvaluateNode(node, r, fs, FALSE) = [ok |-> Cardinality(hits) >= node.count, locs |-> won]
      BY <1>9, <1>12, <1>h, <1>w DEF EvaluateNode
    <2>2. EvaluateNode(other, r, fs, FALSE) = [ok |-> Cardinality(hits2) >= node.count, locs |-> won2]
      BY <1>9, <1>12, <1>i, <1>x DEF EvaluateNode
    <2> QED BY <1>5, <1>8, <2>1, <2>2
  <1>13. CASE node.kind = "optional"
    <2>1. EvaluateNode(node, r, fs, FALSE) = [ok |-> TRUE, locs |-> won]
      BY <1>9, <1>13, <1>h, <1>w DEF EvaluateNode
    <2>2. EvaluateNode(other, r, fs, FALSE) = [ok |-> TRUE, locs |-> won2]
      BY <1>9, <1>13, <1>i, <1>x DEF EvaluateNode
    <2> QED BY <1>8, <2>1, <2>2
  <1> QED BY <1>10, <1>11, <1>12, <1>13

\* A node whose children were reordered.
LEMMA SortedNode ==
    ASSUME NEW node, IsNode(node), NEW kids, NEW other, other = [node EXCEPT !.kids = kids]
    PROVE  /\ other.kids = kids /\ other.kind = node.kind /\ other.feat = node.feat
           /\ other.count = node.count /\ other.max = node.max /\ other.scope = node.scope
           /\ IsNode(other)
  BY DEF IsNode, Node

\* other is the operator node with its children in another order.
Reordered(node, other) ==
    /\ node.kind \in {"and", "or", "some", "optional"}
    /\ \E pi : /\ Permutes(pi, Len(node.kids))
               /\ other = [node EXCEPT !.kids = Rearranged(node.kids, pi)]

\* What optimize does: at most one node has its children reordered.
LEMMA OptimizeFacts ==
    ASSUME NEW nodes, NEW root, root = Len(nodes), DOMAIN nodes = 1..root, Shaped(nodes, root),
           NEW top
    PROVE  /\ DOMAIN Optimize(nodes, top) = 1..root
           /\ \A i \in 1..root : \/ Optimize(nodes, top)[i] = nodes[i]
                                 \/ Reordered(nodes[i], Optimize(nodes, top)[i])
  <1>0. PICK n : n = BelowNots(nodes, top)[top]
    OBVIOUS
  <1>1. CASE nodes[n].kind \notin {"and", "or", "some", "optional"}
    BY <1>0, <1>1 DEF Optimize
  <1>2. CASE nodes[n].kind \in {"and", "or", "some", "optional"}
    <2>1. PICK cost : cost = NodeCost(nodes)
      OBVIOUS
    <2>2. PICK opt : opt = [nodes EXCEPT ![n].kids = StableByCost(@, cost)]
      OBVIOUS
    <2>3. Optimize(nodes, top) = opt
      BY <1>0, <1>2, <2>1, <2>2 DEF Optimize
    <2>4. DOMAIN opt = 1..root /\ \A i \in 1..root : i # n => opt[i] = nodes[i]
      BY <2>2
    <2>5. n \in 1..root => opt[n] = [nodes[n] EXCEPT !.kids = StableByCost(nodes[n].kids, cost)]
      BY <2>2
    <2>6. ASSUME n \in 1..root PROVE Reordered(nodes[n], opt[n])
      <3>1. PICK kids, l : kids = nodes[n].kids /\ l = Len(nodes[n].kids)
        OBVIOUS
      <3>2. n \in Nat /\ root \in Nat /\ KidsBelow(nodes[n], n)
        BY <2>6 DEF Shaped
      <3>3. l \in Nat /\ DOMAIN kids = 1..l /\ Len(kids) = l /\ \A k \in 1..l : kids[k] \in 1..(n - 1)
        BY <3>1, <3>2, KidFacts
      <3>4. \A k \in 1..l : cost[kids[k]] \in Nat
        <4>1. \A k \in 1..l : kids[k] \in 1..root
          BY <2>6, <3>2, <3>3
        <4> QED BY <2>1, <4>1, CostType
      <3>5. PICK pi : Permutes(pi, l) /\ StableByCost(kids, cost) = Rearranged(kids, pi)
        BY <3>3, <3>4, SortPermutes
      <3>6. opt[n] = [nodes[n] EXCEPT !.kids = Rearranged(nodes[n].kids, pi)]
        BY <2>5, <2>6, <3>1, <3>5
      <3> QED BY <1>2, <3>1, <3>5, <3>6 DEF Reordered
    <2> QED BY <2>3, <2>4, <2>6
  <1> QED BY <1>1, <1>2

\* A reordered operator is an operator over the same children.
LEMMA ReorderedShape ==
    ASSUME NEW node, NEW other, NEW i \in Nat, IsNode(node), KidsBelow(node, i), NotHasKid(node),
           Reordered(node, other)
    PROVE  IsNode(other) /\ KidsBelow(other, i) /\ NotHasKid(other)
  <1>1. PICK pi : /\ Permutes(pi, Len(node.kids))
                  /\ other = [node EXCEPT !.kids = Rearranged(node.kids, pi)]
    BY DEF Reordered
  <1>2. PICK kids : kids = Rearranged(node.kids, pi)
    OBVIOUS
  <1>3. PICK l : l = Len(node.kids)
    OBVIOUS
  <1>4. l \in Nat /\ DOMAIN node.kids = 1..l /\ \A k \in 1..l : node.kids[k] \in 1..(i - 1)
    BY <1>3, KidFacts
  <1>5. kids = [p \in 1..l |-> node.kids[pi[p]]] /\ \A p \in 1..l : pi[p] \in 1..l
    BY <1>1, <1>2, <1>3 DEF Rearranged, Permutes
  <1>6. kids \in Seq(1..(i - 1))
    BY <1>4, <1>5
  <1>7. other.kids = kids /\ other.kind = node.kind /\ IsNode(other)
    BY <1>1, <1>2, SortedNode
  <1>8. node.kind # "not"
    BY DEF Reordered
  <1> QED BY <1>6, <1>7, <1>8 DEF KidsBelow, NotHasKid

\* An optimized tree is a tree.
LEMMA OptimizeShaped ==
    ASSUME NEW nodes, NEW root, root = Len(nodes), DOMAIN nodes = 1..root, Shaped(nodes, root),
           NEW top
    PROVE  Shaped(Optimize(nodes, top), root)
  <1>1. PICK opt : opt = Optimize(nodes, top)
    OBVIOUS
  <1>2. \A i \in 1..root : opt[i] = nodes[i] \/ Reordered(nodes[i], opt[i])
    BY <1>1, OptimizeFacts
  <1>3. \A i \in 1..root : IsNode(nodes[i]) /\ KidsBelow(nodes[i], i) /\ NotHasKid(nodes[i])
    BY DEF Shaped
  <1>4. \A i \in 1..root : IsNode(opt[i]) /\ KidsBelow(opt[i], i) /\ NotHasKid(opt[i])
    BY <1>2, <1>3, ReorderedShape
  <1> QED BY <1>1, <1>4 DEF Shaped

\* An optimized tree evaluates without short circuit as the tree did, at every
\* node: the verdict and the locations.
LEMMA OptimizedSame ==
    ASSUME NEW nodes, NEW root, root = Len(nodes), DOMAIN nodes = 1..root, Shaped(nodes, root),
           NEW fs, NEW s \in BOOLEAN, Exhaustive(s)
    PROVE  \A i \in 1..root :
               EvaluateTable(Optimize(nodes, root), root, fs)[i][s]
                   = EvaluateTable(nodes, root, fs)[i][s]
  <1>0. PICK opt : opt = Optimize(nodes, root)
    OBVIOUS
  <1>1. PICK r : r = EvaluateTable(nodes, root, fs)
    OBVIOUS
  <1>2. PICK o : o = EvaluateTable(opt, root, fs)
    OBVIOUS
  <1> DEFINE Differ == {i \in 1..root : o[i][s] # r[i][s]}
  <1>3. SUFFICES ASSUME Differ # {} PROVE FALSE
    BY <1>0, <1>1, <1>2
  <1>4. Differ \subseteq Nat /\ Differ \subseteq 1..root
    OBVIOUS
  <1>5. PICK i \in Differ : \A j \in Differ : i <= j
    <2> HIDE DEF Differ
    <2> QED BY <1>3, <1>4, LeastMember
  <1>6. i \in 1..root /\ i \in Nat /\ root \in Nat
    BY <1>5 DEF Shaped
  <1>7. \A j \in 1..(i - 1) : j \in 1..root /\ j \notin Differ
    BY <1>4, <1>5, <1>6
  <1>8. SameBelow(o, r, i, s)
    <2>1. \A j \in 1..(i - 1) : o[j][s] = r[j][s]
      BY <1>7
    <2> QED BY <2>1, Zenon DEF SameBelow, Exhaustive
  <1>9. /\ IsNode(nodes[i]) /\ KidsBelow(nodes[i], i) /\ NotHasKid(nodes[i])
        /\ KidsBelow(opt[i], i) /\ NotHasKid(opt[i]) /\ Shaped(opt, root)
    BY <1>0, <1>6, OptimizeShaped DEF Shaped
  <1>10. r[i] = EvaluateBoth(nodes[i], r, fs) /\ o[i] = EvaluateBoth(opt[i], o, fs)
    BY <1>1, <1>2, <1>6, <1>9, EvaluateTableDef
  <1>12. /\ r[i][s] = EvaluateNode(nodes[i], r, fs, s)
         /\ o[i][s] = EvaluateNode(opt[i], o, fs, s)
    BY <1>10 DEF EvaluateBoth
  <1>13. EvaluateNode(opt[i], o, fs, s) = EvaluateNode(opt[i], r, fs, s)
    BY <1>6, <1>8, <1>9, EvaluateNodeLocal
  <1>14. EvaluateNode(opt[i], r, fs, s) = EvaluateNode(nodes[i], r, fs, s)
    <2>1. CASE opt[i] = nodes[i]
      BY <2>1
    <2>2. CASE Reordered(nodes[i], opt[i])
      <3>1. PICK pi : /\ Permutes(pi, Len(nodes[i].kids))
                      /\ opt[i] = [nodes[i] EXCEPT !.kids = Rearranged(nodes[i].kids, pi)]
        BY <2>2 DEF Reordered
      <3>2. PICK l : l = Len(nodes[i].kids)
        OBVIOUS
      <3>3. l \in Nat /\ DOMAIN nodes[i].kids = 1..l
        BY <1>6, <1>9, <3>2, KidFacts
      <3>4. /\ opt[i].kids = Rearranged(nodes[i].kids, pi)
            /\ opt[i].kind = nodes[i].kind /\ opt[i].count = nodes[i].count
        BY <1>9, <3>1, SortedNode
      <3>5. nodes[i].kind \in {"and", "or", "some", "optional"}
        BY <2>2 DEF Reordered
      <3>6. SameChildren(nodes[i], opt[i], pi, l)
        BY <3>1, <3>2, <3>3, <3>4, <3>5 DEF SameChildren
      <3> QED BY <3>3, <3>6, OrderNeutral
    <2>3. opt[i] = nodes[i] \/ Reordered(nodes[i], opt[i])
      BY <1>0, <1>6, OptimizeFacts
    <2> QED BY <2>1, <2>2, <2>3
  <1> QED BY <1>5, <1>12, <1>13, <1>14
-----------------------------------------------------------------------------
(***************************************************************************)
(* collect_match_refs                                                      *)
(***************************************************************************)

\* A node of collect_match_refs depends on its children only.
LEMMA RefsNodeLocal ==
    ASSUME NEW node, NEW i \in Nat, NEW f, NEW g, KidsBelow(node, i),
           \A j \in 1..(i - 1) : f[j] = g[j]
    PROVE  RefsNode(node, f) = RefsNode(node, g)
  <1>1. \A k \in DOMAIN node.kids : f[node.kids[k]] = g[node.kids[k]]
    BY KidFacts
  <1>2. {f[node.kids[k]] : k \in DOMAIN node.kids} = {g[node.kids[k]] : k \in DOMAIN node.kids}
    BY <1>1
  <1> QED BY <1>2 DEF RefsNode

\* The function collect_match_refs defines exists: were there a shortest prefix without one,
\* the function of the prefix before it could be extended by one node.
LEMMA RefsTableExists ==
    ASSUME NEW nodes, NEW root, Shaped(nodes, root)
    PROVE  \E f : f = [i \in 1..root |-> RefsNode(nodes[i], f)]
  <1> DEFINE Lacks == {m \in 0..root : ~\E f : f = [i \in 1..m |-> RefsNode(nodes[i], f)]}
  <1>1. SUFFICES ASSUME Lacks # {} PROVE FALSE
    BY DEF Shaped
  <1>0. Lacks \subseteq Nat /\ Lacks \subseteq 0..root
    OBVIOUS
  <1>2. PICK m \in Lacks : \A l \in Lacks : m <= l
    <2> HIDE DEF Lacks
    <2> QED BY <1>0, <1>1, LeastMember
  <1>3. m # 0
    <2> DEFINE f == [i \in 1..0 |-> RefsNode(nodes[i], {})]
    <2>1. f = [i \in 1..0 |-> RefsNode(nodes[i], f)]
      OBVIOUS
    <2> QED BY <2>1
  <1>4. m - 1 \in 0..root /\ m \in 1..root /\ m - 1 \notin Lacks
    <2> HIDE DEF Lacks
    <2> QED BY <1>0, <1>2, <1>3 DEF Shaped
  <1>5. PICK f : f = [i \in 1..(m - 1) |-> RefsNode(nodes[i], f)]
    BY <1>4
  <1> DEFINE g == [i \in 1..m |-> RefsNode(nodes[i], f)]
  <1>6. \A j \in 1..(m - 1) : f[j] = g[j]
    <2>1. \A j \in 1..(m - 1) : f[j] = RefsNode(nodes[j], f)
      BY <1>5, Zenon
    <2>2. \A j \in 1..(m - 1) : j \in 1..m
      BY <1>4
    <2> QED BY <2>1, <2>2
  <1>7. ASSUME NEW i \in 1..m
        PROVE  RefsNode(nodes[i], f) = RefsNode(nodes[i], g)
    <2>1. i \in Nat /\ KidsBelow(nodes[i], i)
      BY <1>4 DEF Shaped
    <2> HIDE DEF g
    <2>2. \A j \in 1..(i - 1) : f[j] = g[j]
      BY <1>4, <1>6
    <2> QED BY <2>1, <2>2, RefsNodeLocal
  <1>8. g = [i \in 1..m |-> RefsNode(nodes[i], g)]
    BY <1>7
  <1> QED BY <1>8, <1>2

\* RefsTable unfolded.
LEMMA RefsTableDef ==
    ASSUME NEW nodes, NEW root, Shaped(nodes, root)
    PROVE  \A i \in 1..root : RefsTable(nodes, root)[i] = RefsNode(nodes[i], RefsTable(nodes, root))
  <1>1. PICK f : f = [i \in 1..root |-> RefsNode(nodes[i], f)]
    BY RefsTableExists
  <1>2. RefsTable(nodes, root) = [i \in 1..root |-> RefsNode(nodes[i], RefsTable(nodes, root))]
    BY <1>1, Zenon DEF RefsTable
  <1> QED BY <1>2, Zenon

\* Two feature sets agree but for the match features that refs does not name.
Alike(refs, one, two) ==
    \A f : f.tag # "MatchedRule" \/ f.datum \in refs =>
        (f \in DOMAIN one <=> f \in DOMAIN two) /\ (f \in DOMAIN one => one[f] = two[f])

\* A leaf matches the same in both.
LEMMA LeafAlike ==
    ASSUME NEW refs, NEW one, NEW two, Alike(refs, one, two),
           NEW f, f.tag = "MatchedRule" => f.datum \in refs
    PROVE  /\ FeatureMatches(f, one) = FeatureMatches(f, two)
           /\ Occurrences(f, one) = Occurrences(f, two)
  <1>1. (f \in DOMAIN one <=> f \in DOMAIN two) /\ (f \in DOMAIN one => one[f] = two[f])
    BY DEF Alike
  <1>2. \A g : g.tag # "MatchedRule" => (g \in DOMAIN one <=> g \in DOMAIN two)
    BY DEF Alike
  <1>3. Witnesses(f, one) = Witnesses(f, two)
    <2>1. CASE f.tag \in {"Substring", "Regex"}
      <3>1. /\ Witnesses(f, one) = {g \in {h \in DOMAIN one : h.tag = "String"} : OccursIn(f.datum, g.datum)}
            /\ Witnesses(f, two) = {g \in {h \in DOMAIN two : h.tag = "String"} : OccursIn(f.datum, g.datum)}
        BY <2>1 DEF Witnesses
      <3>2. {h \in DOMAIN one : h.tag = "String"} = {h \in DOMAIN two : h.tag = "String"}
        BY <1>2
      <3> QED BY <3>1, <3>2
    <2>2. CASE f.tag = "Bytes"
      <3>1. /\ Witnesses(f, one) = {g \in {h \in DOMAIN one : h.tag = "Bytes"} : IsPrefix(f.datum, g.datum)}
            /\ Witnesses(f, two) = {g \in {h \in DOMAIN two : h.tag = "Bytes"} : IsPrefix(f.datum, g.datum)}
        BY <2>2 DEF Witnesses
      <3>2. {h \in DOMAIN one : h.tag = "Bytes"} = {h \in DOMAIN two : h.tag = "Bytes"}
        BY <1>2
      <3> QED BY <3>1, <3>2
    <2>3. CASE f.tag = "Os" /\ f \notin DOMAIN one
      <3>1. /\ Witnesses(f, one) = IF f.datum = AnyValue THEN {h \in DOMAIN one : h.tag = "Os"}
                                   ELSE {AnyOs} \cap DOMAIN one
            /\ Witnesses(f, two) = IF f.datum = AnyValue THEN {h \in DOMAIN two : h.tag = "Os"}
                                   ELSE {AnyOs} \cap DOMAIN two
        BY <1>1, <2>3 DEF Witnesses
      <3>2. {h \in DOMAIN one : h.tag = "Os"} = {h \in DOMAIN two : h.tag = "Os"}
        BY <1>2
      <3>3. AnyOs.tag # "MatchedRule"
        BY DEF AnyOs
      <3>4. {AnyOs} \cap DOMAIN one = {AnyOs} \cap DOMAIN two
        BY <1>2, <3>3
      <3> QED BY <3>1, <3>2, <3>4
    <2>4. CASE f.tag \notin {"Substring", "Regex", "Bytes"} /\ ~(f.tag = "Os" /\ f \notin DOMAIN one)
      <3>1. /\ Witnesses(f, one) = {f} \cap DOMAIN one
            /\ Witnesses(f, two) = {f} \cap DOMAIN two
        BY <1>1, <2>4 DEF Witnesses
      <3> QED BY <1>1, <3>1
    <2> QED BY <2>1, <2>2, <2>3, <2>4
  <1> QED BY <1>1, <1>3 DEF FeatureMatches, Occurrences

\* A tree whose references are in refs has the same verdict in both.
LEMMA QuickAlike ==
    ASSUME NEW nodes, NEW root, Shaped(nodes, root), Ground(nodes, root),
           NEW refs, NEW one, NEW two, Alike(refs, one, two)
    PROVE  \A i \in 1..root : RefsTable(nodes, root)[i] \subseteq refs =>
               QuickTable(nodes, root, one)[i] = QuickTable(nodes, root, two)[i]
  <1>1. PICK q : q = QuickTable(nodes, root, one)
    OBVIOUS
  <1>2. PICK p : p = QuickTable(nodes, root, two)
    OBVIOUS
  <1>t. PICK t : t = RefsTable(nodes, root)
    OBVIOUS
  <1> DEFINE Differ == {i \in 1..root : t[i] \subseteq refs /\ q[i] # p[i]}
  <1>3. SUFFICES ASSUME Differ # {} PROVE FALSE
    BY <1>1, <1>2, <1>t
  <1>4. Differ \subseteq Nat /\ Differ \subseteq 1..root
    OBVIOUS
  <1>5. PICK i \in Differ : \A j \in Differ : i <= j
    <2> HIDE DEF Differ
    <2> QED BY <1>3, <1>4, LeastMember
  <1>6. i \in 1..root /\ i \in Nat /\ root \in Nat /\ t[i] \subseteq refs /\ q[i] # p[i]
    BY <1>5 DEF Shaped
  <1>7. \A j \in 1..(i - 1) : j \in 1..root /\ j \notin Differ
    BY <1>4, <1>5, <1>6
  <1>8. PICK node : node = nodes[i]
    OBVIOUS
  <1>9. t[i] = RefsNode(node, t) /\ q[i] = QuickNode(node, q, one) /\ p[i] = QuickNode(node, p, two)
    BY <1>1, <1>2, <1>t, <1>6, <1>8, RefsTableDef, QuickTableDef
  <1>10. KidsBelow(node, i) /\ NotHasKid(node) /\ node.kind \in Kinds
    BY <1>6, <1>8 DEF Shaped, Ground
  <1>11. /\ \A k \in DOMAIN node.kids : node.kids[k] \in 1..(i - 1)
         /\ Len(node.kids) \in Nat /\ DOMAIN node.kids = 1..Len(node.kids)
    BY <1>6, <1>10, KidFacts
  <1>12. \A k \in DOMAIN node.kids : t[node.kids[k]] \subseteq refs
    <2>1. UNION {t[node.kids[k]] : k \in DOMAIN node.kids} \subseteq refs
      BY <1>6, <1>9 DEF RefsNode
    <2> QED BY <2>1
  <1>13. \A k \in DOMAIN node.kids : q[node.kids[k]] = p[node.kids[k]]
    BY <1>7, <1>11, <1>12
  <1>14. {k \in DOMAIN node.kids : q[node.kids[k]]} = {k \in DOMAIN node.kids : p[node.kids[k]]}
    BY <1>13
  <1>15. node.feat.tag = "MatchedRule" => node.feat.datum \in refs
    <2>1. PICK low : low = UNION {t[node.kids[k]] : k \in DOMAIN node.kids}
      OBVIOUS
    <2>2. RefsNode(node, t) = low \cup (IF node.feat.tag = "MatchedRule" THEN {node.feat.datum} ELSE {})
      BY <2>1 DEF RefsNode
    <2> QED BY <1>6, <1>9, <2>2
  <1>16. /\ FeatureMatches(node.feat, one) = FeatureMatches(node.feat, two)
         /\ Occurrences(node.feat, one) = Occurrences(node.feat, two)
    BY <1>15, LeafAlike
  <1>17. node.kind = "not" => q[node.kids[1]] = p[node.kids[1]]
    BY <1>10, <1>11, <1>13 DEF NotHasKid
  <1>18. QuickNode(node, q, one) = QuickNode(node, p, two)
    BY <1>10, <1>14, <1>16, <1>17 DEF QuickNode, Kinds
  <1> QED BY <1>6, <1>9, <1>18
=============================================================================
