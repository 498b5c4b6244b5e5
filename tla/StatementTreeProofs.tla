------------------------- MODULE StatementTreeProofs -------------------------
(***************************************************************************)
(* The laws of StatementTree for every tree the parser can build, of any   *)
(* size and over any features, and for every feature set whose sets of     *)
(* addresses are finite.                                                   *)
(***************************************************************************)
EXTENDS StatementTree, StatementLemmas

\* The inductive invariant: children come before their operator, a not has
\* one, and the thresholds and bounds are natural numbers.
TreeInv ==
    /\ Len(nodes) \in Nat /\ DOMAIN nodes = 1..Len(nodes)
    /\ Shaped(nodes, Len(nodes))
    /\ Ground(nodes, Len(nodes))
    /\ pending \in Seq(1..Len(nodes))

\* The last k members of a list, and the rest of it.
LEMMA SplitAt ==
    ASSUME NEW n \in Nat, NEW s \in Seq(1..n), NEW k \in 0..Len(s)
    PROVE  /\ SubSeq(s, 1, Len(s) - k) \in Seq(1..n)
           /\ SubSeq(s, Len(s) - k + 1, Len(s)) \in Seq(1..n)
           /\ Len(SubSeq(s, Len(s) - k + 1, Len(s))) = k
  <1>l. PICK l \in Nat : l = Len(s)
    OBVIOUS
  <1>1. \A j \in 1..l : s[j] \in 1..n
    BY <1>l
  <1>2. SubSeq(s, 1, l - k) = [j \in 1..(l - k) |-> s[j]]
    BY <1>l
  <1>3. SubSeq(s, l - k + 1, l) = [j \in 1..k |-> s[j + (l - k)]]
    BY <1>l
  <1>4. [j \in 1..(l - k) |-> s[j]] \in Seq(1..n)
    BY <1>1, <1>l
  <1>5. /\ [j \in 1..k |-> s[j + (l - k)]] \in Seq(1..n)
        /\ Len([j \in 1..k |-> s[j + (l - k)]]) = k
    BY <1>1, <1>l
  <1> QED BY <1>2, <1>3, <1>4, <1>5, <1>l

\* A node the parser may make over the trees at hand.
Makes(node) ==
    /\ IsNode(node)
    /\ node.kids \in Seq(1..Len(nodes)) /\ NotHasKid(node)
    /\ node.kind \in Kinds /\ node.count \in Nat /\ node.max \in Nat
    /\ node.kind = "some" => node.count # 0

\* A tree with one more node the parser may make.
LEMMA BuildKeeps ==
    ASSUME TreeInv, NEW node, Makes(node), NEW k \in 0..Len(pending), Build(node, k)
    PROVE  TreeInv'
  <1>n. PICK n \in Nat : n = Len(nodes)
    BY DEF TreeInv
  <1>1. pending \in Seq(1..n) /\ Shaped(nodes, n) /\ Ground(nodes, n)
    BY <1>n DEF TreeInv
  <1>2. nodes' = Append(nodes, node) /\ pending' = Append(SubSeq(pending, 1, Len(pending) - k), n + 1)
    BY <1>n DEF Build
  <1>3. /\ Len(nodes') = n + 1 /\ DOMAIN nodes' = 1..(n + 1)
        /\ nodes'[n + 1] = node /\ \A i \in 1..n : nodes'[i] = nodes[i]
    BY <1>2, <1>n
  <1>4. Len(nodes') \in Nat
    BY <1>3
  <1>5. \A i \in 1..(n + 1) : i \in 1..n \/ i = n + 1
    OBVIOUS
  <1>6. ASSUME NEW i \in 1..(n + 1)
        PROVE  IsNode(nodes'[i]) /\ KidsBelow(nodes'[i], i) /\ NotHasKid(nodes'[i])
    <2>1. CASE i \in 1..n
      BY <1>1, <1>3, <2>1 DEF Shaped
    <2>2. CASE i = n + 1
      BY <1>3, <1>n, <2>2 DEF Makes, KidsBelow
    <2> QED BY <1>5, <2>1, <2>2
  <1>7. Shaped(nodes', n + 1)
    BY <1>6 DEF Shaped
  <1>8. Ground(nodes', n + 1)
    BY <1>1, <1>3, <1>5 DEF Makes, Ground
  <1>9. pending' \in Seq(1..(n + 1))
    <2>1. PICK rest : rest = SubSeq(pending, 1, Len(pending) - k)
      OBVIOUS
    <2>2. rest \in Seq(1..n)
      BY <1>1, <2>1, SplitAt
    <2>3. rest \in Seq(1..(n + 1))
      <3>1. Len(rest) \in Nat /\ rest = [j \in 1..Len(rest) |-> rest[j]] /\ \A j \in 1..Len(rest) : rest[j] \in 1..(n + 1)
        BY <2>2
      <3> QED BY <3>1
    <2> QED BY <1>2, <2>1, <2>3
  <1> QED BY <1>3, <1>4, <1>7, <1>8, <1>9 DEF TreeInv

\* The inductive invariant holds of every behaviour of the parser.
THEOREM TreeInvariant == Spec => []TreeInv
  <1>1. Init => TreeInv
    BY DEF Init, TreeInv, Shaped, Ground
  <1>2. TreeInv /\ [Next]_vars => TreeInv'
    <2> SUFFICES ASSUME TreeInv, [Next]_vars PROVE TreeInv'
      OBVIOUS
    <2>n. Len(nodes) \in Nat /\ pending \in Seq(1..Len(nodes)) /\ Len(pending) \in Nat
      BY DEF TreeInv
    <2>0. 0 \in 0..Len(pending)
      BY <2>n
    <2>1. CASE ParseLeaf
      <3>1. PICK f \in Leaves : Build(Leaf(f), 0)
        BY <2>1 DEF ParseLeaf
      <3>2. Makes(Leaf(f))
        BY <2>n DEF Makes, Leaf, Node, IsNode, NotHasKid, Kinds
      <3> QED BY <2>0, <3>1, <3>2, BuildKeeps
    <2>2. CASE ParseCount
      <3>1. PICK f \in Counted, c \in Counts : Build(Count(f, c[1], c[2]), 0)
        BY <2>2 DEF ParseCount
      <3>2. c[1] \in Nat /\ c[2] \in Nat
        BY StatementTreeAssumption
      <3>3. Makes(Count(f, c[1], c[2]))
        BY <2>n, <3>2 DEF Makes, Count, Node, IsNode, NotHasKid, Kinds
      <3> QED BY <2>0, <3>1, <3>3, BuildKeeps
    <2>3. CASE ParseOperator
      <3>1. PICK k \in 0..Len(pending) :
                LET kids == SubSeq(pending, Len(pending) - k + 1, Len(pending))
                IN  \/ Build(And(kids), k)
                    \/ Build(Or(kids), k)
                    \/ k = 1 /\ Build(Not(kids[1]), k)
                    \/ \E n \in Thresholds : Build(Some(n, kids), k)
        BY <2>3 DEF ParseOperator
      <3>2. PICK kids : kids = SubSeq(pending, Len(pending) - k + 1, Len(pending))
        OBVIOUS
      <3>3. kids \in Seq(1..Len(nodes)) /\ Len(kids) = k
        BY <2>n, <3>2, SplitAt
      <3>4. CASE Build(And(kids), k)
        <4>1. Makes(And(kids))
          BY <3>3 DEF Makes, And, Node, IsNode, NotHasKid, Kinds
        <4> QED BY <3>4, <4>1, BuildKeeps
      <3>5. CASE Build(Or(kids), k)
        <4>1. Makes(Or(kids))
          BY <3>3 DEF Makes, Or, Node, IsNode, NotHasKid, Kinds
        <4> QED BY <3>5, <4>1, BuildKeeps
      <3>6. CASE k = 1 /\ Build(Not(kids[1]), k)
        <4>1. kids[1] \in 1..Len(nodes)
          BY <3>3, <3>6
        <4>2. <<kids[1]>> \in Seq(1..Len(nodes)) /\ Len(<<kids[1]>>) = 1
          BY <4>1
        <4>3. Makes(Not(kids[1]))
          BY <4>2 DEF Makes, Not, Node, IsNode, NotHasKid, Kinds
        <4> QED BY <3>6, <4>3, BuildKeeps
      <3>7. ASSUME NEW n \in Thresholds, Build(Some(n, kids), k) PROVE TreeInv'
        <4>1. n \in Nat
          BY StatementTreeAssumption
        <4>2. Makes(Some(n, kids))
          BY <3>3, <4>1 DEF Makes, Some, Node, IsNode, NotHasKid, Kinds
        <4> QED BY <3>7, <4>2, BuildKeeps
      <3> QED BY <3>1, <3>2, <3>4, <3>5, <3>6, <3>7
    <2>4. CASE UNCHANGED vars
      BY <2>4 DEF vars, TreeInv
    <2> QED BY <2>1, <2>2, <2>3, <2>4 DEF Next
  <1> QED BY <1>1, <1>2, PTL DEF Spec

\* For every tree the parser builds, engine::match's probe and its full
\* evaluation, in either mode, give one verdict.
THEOREM ProbeIsExact == Spec => []ProbeAgrees
  <1>1. TreeInv => ProbeAgrees
    <2> SUFFICES ASSUME TreeInv, Root > 0, NEW fs \in FeatureSets, NEW sc \in BOOLEAN
                 PROVE  Evaluate(nodes, Root, fs, sc).ok = EvaluateQuick(nodes, Root, fs)
      BY DEF ProbeAgrees
    <2>1. Root \in 1..Root /\ Shaped(nodes, Root) /\ Ground(nodes, Root)
      BY DEF TreeInv, Root
    <2>2. FiniteLocations(fs)
      BY StatementTreeAssumption DEF FiniteLocations
    <2> QED BY <2>1, <2>2, TablesAgree DEF Evaluate, EvaluateQuick
  <1> QED BY <1>1, TreeInvariant, PTL

\* For every tree the parser builds, a tree that matches has a required
\* feature in the set: RuleFeatureIndex::select leaves no match out.
THEOREM NeedIsSound == Spec => []NeedSound
  <1>1. TreeInv => NeedSound
    <2> SUFFICES ASSUME TreeInv, Root > 0, NEW fs \in FeatureSets, EvaluateQuick(nodes, Root, fs)
                 PROVE  Need(nodes, Root) = {} \/ Need(nodes, Root) \cap DOMAIN fs # {}
      BY DEF NeedSound
    <2>1. Root \in 1..Root /\ Shaped(nodes, Root) /\ Ground(nodes, Root)
      BY DEF TreeInv, Root
    <2> QED BY <2>1, NeedsMet DEF EvaluateQuick, Need, Met
  <1> QED BY <1>1, TreeInvariant, PTL

\* For every tree the parser builds, optimize changes neither the verdict nor
\* the locations of a match.
THEOREM OptimizeIsNeutral == Spec => []OptimizeNeutral
  <1>1. TreeInv => OptimizeNeutral
    <2> SUFFICES ASSUME TreeInv, Root > 0, NEW fs \in FeatureSets
                 PROVE  Evaluate(Optimize(nodes, Root), Root, fs, FALSE) = Evaluate(nodes, Root, fs, FALSE)
      BY DEF OptimizeNeutral
    <2>1. /\ Root \in 1..Root /\ Root = Len(nodes) /\ DOMAIN nodes = 1..Root
          /\ Shaped(nodes, Root)
      BY DEF TreeInv, Root
    <2>2. PICK s \in BOOLEAN : Exhaustive(s)
      BY Zenon DEF Exhaustive
    <2>3. EvaluateTable(Optimize(nodes, Root), Root, fs)[Root][s] = EvaluateTable(nodes, Root, fs)[Root][s]
      BY <2>1, <2>2, OptimizedSame
    <2> QED BY <2>2, <2>3, Zenon DEF Evaluate, Exhaustive
  <1> QED BY <1>1, TreeInvariant, PTL
=============================================================================
