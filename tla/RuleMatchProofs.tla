--------------------------- MODULE RuleMatchProofs ---------------------------
(***************************************************************************)
(* Proofs about the rule pipeline and the match: for every corpus the parser *)
(* can hand over, every feature set and every order of scopes, the feature *)
(* index loses no match, the limitation gate gives the verdict of the full *)
(* file pass, the sort respects the references and a cycle error is real.  *)
(*                                                                         *)
(* The order of the module: lists (KeptSoFar, MatchSoFar), the index, the  *)
(* gate and its closure, what from_rules makes of parsed rules, the invariant *)
(* MatchInv of the pipeline with the first two theorems, and Kahn's sort.  *)
(***************************************************************************)
EXTENDS RuleMatch, StatementLemmas, SequenceTheorems

-----------------------------------------------------------------------------
(***************************************************************************)
(* Lists with members left out                                             *)
(***************************************************************************)

\* The function KeptSoFar defines, for any list and any set of members to keep.
LEMMA KeptExists ==
    ASSUME NEW list, Len(list) \in Nat, NEW keep
    PROVE  \E f : f = [k \in 0..Len(list) |->
                         IF k = 0 THEN <<>>
                         ELSE IF list[k] \in keep THEN Append(f[k - 1], list[k]) ELSE f[k - 1]]
  <1>n. PICK n : n = Len(list)
    OBVIOUS
  <1> DEFINE Step(f, k) == IF k = 0 THEN <<>>
                           ELSE IF list[k] \in keep THEN Append(f[k - 1], list[k]) ELSE f[k - 1]
             Lacks == {m \in 0..n : ~\E f : f = [k \in 0..m |-> Step(f, k)]}
  <1>1. SUFFICES ASSUME Lacks # {} PROVE FALSE
    <2> HIDE DEF Step
    <2>1. Lacks = {} => \E f : f = [k \in 0..n |-> Step(f, k)]
      BY <1>n
    <2> QED BY <1>n, <2>1 DEF Step
  <1>0. Lacks \subseteq Nat /\ Lacks \subseteq 0..n
    BY <1>n
  <1>2. PICK m \in Lacks : \A l \in Lacks : m <= l
    <2> HIDE DEF Lacks
    <2> QED BY <1>0, <1>1, LeastMember
  <1>3. m # 0
    <2> DEFINE f == [k \in 0..0 |-> <<>>]
    <2>1. f = [k \in 0..0 |-> Step(f, k)]
      OBVIOUS
    <2> QED BY <2>1
  <1>4. m - 1 \in 0..n /\ m \in 1..n /\ m - 1 \notin Lacks
    <2> HIDE DEF Lacks
    <2> QED BY <1>0, <1>2, <1>3, <1>n
  <1>5. PICK f : f = [k \in 0..(m - 1) |-> Step(f, k)]
    BY <1>4
  <1> DEFINE g == [k \in 0..m |-> Step(f, k)]
  <1>6. \A k \in 0..(m - 1) : f[k] = g[k]
    <2>1. \A k \in 0..(m - 1) : f[k] = Step(f, k)
      BY <1>5, Zenon
    <2>2. \A k \in 0..(m - 1) : k \in 0..m
      BY <1>4
    <2> QED BY <2>1, <2>2
  <1>7. ASSUME NEW k \in 0..m PROVE Step(f, k) = Step(g, k)
    <2>1. k # 0 => k - 1 \in 0..(m - 1)
      BY <1>4
    <2> HIDE DEF g
    <2> QED BY <1>6, <2>1
  <1>8. g = [k \in 0..m |-> Step(g, k)]
    BY <1>7
  <1> QED BY <1>8, <1>2

\* KeptSoFar unfolded.
LEMMA KeptDef ==
    ASSUME NEW list, Len(list) \in Nat, NEW keep
    PROVE  /\ KeptSoFar(list, keep)[0] = <<>>
           /\ \A k \in 1..Len(list) :
                KeptSoFar(list, keep)[k] =
                    IF list[k] \in keep THEN Append(KeptSoFar(list, keep)[k - 1], list[k])
                    ELSE KeptSoFar(list, keep)[k - 1]
  <1>1. PICK f : f = [k \in 0..Len(list) |->
                         IF k = 0 THEN <<>>
                         ELSE IF list[k] \in keep THEN Append(f[k - 1], list[k]) ELSE f[k - 1]]
    BY KeptExists
  <1>2. PICK t : t = KeptSoFar(list, keep)
    OBVIOUS
  <1>3. t = [k \in 0..Len(list) |->
                IF k = 0 THEN <<>>
                ELSE IF list[k] \in keep THEN Append(t[k - 1], list[k]) ELSE t[k - 1]]
    BY <1>1, <1>2, Zenon DEF KeptSoFar
  <1>4. 0 \in 0..Len(list) /\ \A k \in 1..Len(list) : k \in 0..Len(list) /\ k # 0
    OBVIOUS
  <1>5. \A k \in 0..Len(list) :
            t[k] = IF k = 0 THEN <<>>
                   ELSE IF list[k] \in keep THEN Append(t[k - 1], list[k]) ELSE t[k - 1]
    BY <1>3, Zenon
  <1> QED BY <1>2, <1>4, <1>5

\* What is kept is a list of the members that are in keep.
LEMMA KeptMembers ==
    ASSUME NEW S, NEW list \in Seq(S), NEW keep
    PROVE  /\ Kept(list, keep) \in Seq(ToSet(list) \cap keep)
           /\ \A i \in DOMAIN list : list[i] \in keep =>
                 \E j \in DOMAIN Kept(list, keep) : Kept(list, keep)[j] = list[i]
           /\ \A k \in 0..Len(list) : KeptSoFar(list, keep)[k] \in Seq(ToSet(list) \cap keep)
  <1>n. PICK n : n = Len(list)
    OBVIOUS
  <1>t. PICK t : t = KeptSoFar(list, keep)
    OBVIOUS
  <1>m. PICK M : M = ToSet(list) \cap keep
    OBVIOUS
  <1>0. n \in Nat /\ DOMAIN list = 1..n /\ \A i \in 1..n : list[i] \in ToSet(list)
    BY <1>n DEF ToSet
  <1>1. /\ t[0] = <<>>
        /\ \A k \in 1..n : t[k] = IF list[k] \in keep THEN Append(t[k - 1], list[k]) ELSE t[k - 1]
    BY <1>0, <1>n, <1>t, KeptDef
  <1> DEFINE Good(k) == /\ t[k] \in Seq(M)
                        /\ \A i \in 1..k : list[i] \in keep => \E j \in DOMAIN t[k] : t[k][j] = list[i]
             Bad == {k \in 0..n : ~Good(k)}
  <1>2. Bad = {}
    <2>1. SUFFICES ASSUME Bad # {} PROVE FALSE
      OBVIOUS
    <2>2. Bad \subseteq Nat
      BY <1>0
    <2>3. PICK k \in Bad : \A l \in Bad : k <= l
      <3> HIDE DEF Bad
      <3> QED BY <2>1, <2>2, LeastMember
    <2>4. k # 0
      <3>1. Good(0)
        BY <1>1
      <3> QED BY <2>3, <3>1
    <2>5. k - 1 \in 0..n /\ k \in 1..n /\ k - 1 \notin Bad
      <3>1. Bad \subseteq 0..n
        OBVIOUS
      <3> HIDE DEF Bad
      <3> QED BY <1>0, <2>2, <2>3, <2>4, <3>1
    <2>6. Good(k - 1)
      BY <2>5
    <2>7. PICK s : s = t[k - 1]
      OBVIOUS
    <2>8. s \in Seq(M) /\ \A i \in 1..(k - 1) : list[i] \in keep => \E j \in DOMAIN s : s[j] = list[i]
      BY <2>6, <2>7
    <2>9. Good(k)
      <3>1. CASE list[k] \in keep
        <4>1. list[k] \in M /\ t[k] = Append(s, list[k])
          BY <1>0, <1>1, <1>m, <2>5, <2>7, <3>1
        <4>2. /\ t[k] \in Seq(M) /\ DOMAIN t[k] = 1..(Len(s) + 1) /\ t[k][Len(s) + 1] = list[k]
              /\ Len(s) \in Nat /\ DOMAIN s = 1..Len(s) /\ \A j \in 1..Len(s) : t[k][j] = s[j]
          BY <2>8, <4>1
        <4>3. \A i \in 1..k : i \in 1..(k - 1) \/ i = k
          BY <2>5
        <4>4. Len(s) + 1 \in DOMAIN t[k] /\ DOMAIN s \subseteq DOMAIN t[k]
          BY <4>2
        <4>5. ASSUME NEW i \in 1..k, list[i] \in keep PROVE \E j \in DOMAIN t[k] : t[k][j] = list[i]
          <5>1. CASE i = k
            BY <4>2, <4>4, <5>1
          <5>2. CASE i \in 1..(k - 1)
            BY <2>8, <4>2, <4>4, <4>5, <5>2
          <5> QED BY <4>3, <5>1, <5>2
        <4> QED BY <4>2, <4>5
      <3>2. CASE list[k] \notin keep
        <4>1. t[k] = s
          BY <1>1, <2>5, <2>7, <3>2
        <4>2. \A i \in 1..k : i \in 1..(k - 1) \/ i = k
          BY <2>5
        <4> QED BY <2>8, <3>2, <4>1, <4>2
      <3> QED BY <3>1, <3>2
    <2> QED BY <2>3, <2>9
  <1>3. \A k \in 0..n : Good(k)
    BY <1>2
  <1>4. Good(n)
    BY <1>0, <1>3
  <1>5. Kept(list, keep) = t[n]
    BY <1>n, <1>t DEF Kept
  <1> QED BY <1>0, <1>3, <1>4, <1>5, <1>m, <1>n, <1>t
-----------------------------------------------------------------------------
(***************************************************************************)
(* engine::match over a list                                               *)
(***************************************************************************)

\* acc is the function that MatchSoFar defines.
Accumulates(acc, book, list, feats, here) ==
    acc = [k \in 0..Len(list) |-> IF k = 0 THEN NothingMatched(feats)
                                  ELSE VisitRule(book, acc[k - 1], list[k], here)]

\* The function MatchSoFar defines, for any rules, list and features.
LEMMA MatchExists ==
    ASSUME NEW book, NEW list, Len(list) \in Nat, NEW feats, NEW here
    PROVE  \E f : Accumulates(f, book, list, feats, here)
  <1>n. PICK n : n = Len(list)
    OBVIOUS
  <1>s. PICK start : start = NothingMatched(feats)
    OBVIOUS
  <1> DEFINE Step(f, k) == IF k = 0 THEN start ELSE VisitRule(book, f[k - 1], list[k], here)
             Lacks == {m \in 0..n : ~\E f : f = [k \in 0..m |-> Step(f, k)]}
  <1>1. SUFFICES ASSUME Lacks # {} PROVE FALSE
    <2> HIDE DEF Step
    <2>1. Lacks = {} => \E f : f = [k \in 0..n |-> Step(f, k)]
      BY <1>n
    <2> QED BY <1>n, <1>s, <2>1 DEF Step, Accumulates
  <1>0. Lacks \subseteq Nat /\ Lacks \subseteq 0..n
    BY <1>n
  <1>2. PICK m \in Lacks : \A l \in Lacks : m <= l
    <2> HIDE DEF Lacks
    <2> QED BY <1>0, <1>1, LeastMember
  <1>3. m # 0
    <2> DEFINE f == [k \in 0..0 |-> start]
    <2>1. f = [k \in 0..0 |-> Step(f, k)]
      OBVIOUS
    <2> QED BY <2>1
  <1>4. m - 1 \in 0..n /\ m \in 1..n /\ m - 1 \notin Lacks
    <2> HIDE DEF Lacks
    <2> QED BY <1>0, <1>2, <1>3, <1>n
  <1>5. PICK f : f = [k \in 0..(m - 1) |-> Step(f, k)]
    BY <1>4
  <1> DEFINE g == [k \in 0..m |-> Step(f, k)]
  <1>6. \A k \in 0..(m - 1) : f[k] = g[k]
    <2>1. \A k \in 0..(m - 1) : f[k] = Step(f, k)
      BY <1>5, Zenon
    <2>2. \A k \in 0..(m - 1) : k \in 0..m
      BY <1>4
    <2> QED BY <2>1, <2>2
  <1>7. ASSUME NEW k \in 0..m PROVE Step(f, k) = Step(g, k)
    <2>1. k # 0 => k - 1 \in 0..(m - 1)
      BY <1>4
    <2> HIDE DEF g
    <2> QED BY <1>6, <2>1
  <1>8. g = [k \in 0..m |-> Step(g, k)]
    BY <1>7
  <1> QED BY <1>8, <1>2

\* acc starts with the given features and makes one visit after the other.
Visits(acc, book, list, feats, here) ==
    /\ acc[0] = NothingMatched(feats)
    /\ \A k \in 1..Len(list) : acc[k] = VisitRule(book, acc[k - 1], list[k], here)

\* MatchSoFar unfolded.
LEMMA MatchDef ==
    ASSUME NEW book, NEW list, Len(list) \in Nat, NEW feats, NEW here
    PROVE  Visits(MatchSoFar(book, list, feats, here), book, list, feats, here)
  <1>1. PICK f : Accumulates(f, book, list, feats, here)
    BY MatchExists
  <1>2. PICK t : t = MatchSoFar(book, list, feats, here)
    OBVIOUS
  <1>3. t = [k \in 0..Len(list) |->
                IF k = 0 THEN NothingMatched(feats)
                ELSE VisitRule(book, t[k - 1], list[k], here)]
    BY <1>1, <1>2, Zenon DEF MatchSoFar, Accumulates
  <1>4. 0 \in 0..Len(list) /\ \A k \in 1..Len(list) : k \in 0..Len(list) /\ k # 0
    OBVIOUS
  <1>5. \A k \in 0..Len(list) :
            t[k] = IF k = 0 THEN NothingMatched(feats)
                   ELSE VisitRule(book, t[k - 1], list[k], here)
    BY <1>3, Zenon
  <1> QED BY <1>2, <1>4, <1>5 DEF Visits

\* What engine::match returns for a list.
Result(book, list, feats, here) == MatchSoFar(book, list, feats, here)[Len(list)]

\* One rule more is one visit more.
LEMMA MatchAppend ==
    ASSUME NEW S, NEW list \in Seq(S), NEW name \in S, NEW book, NEW feats, NEW here
    PROVE  Result(book, Append(list, name), feats, here)
               = VisitRule(book, Result(book, list, feats, here), name, here)
  <1>1. PICK more : more = Append(list, name)
    OBVIOUS
  <1>2. PICK n \in Nat : n = Len(list)
    OBVIOUS
  <1>3. /\ Len(more) = n + 1 /\ Len(more) \in Nat
        /\ more[n + 1] = name /\ \A k \in 1..n : more[k] = list[k]
    BY <1>1, <1>2
  <1>4. PICK t : t = MatchSoFar(book, list, feats, here)
    OBVIOUS
  <1>5. PICK u : u = MatchSoFar(book, more, feats, here)
    OBVIOUS
  <1>v. Visits(t, book, list, feats, here) /\ Visits(u, book, more, feats, here)
    BY <1>2, <1>3, <1>4, <1>5, MatchDef
  <1>6. u[0] = t[0] /\ \A k \in 1..n : t[k] = VisitRule(book, t[k - 1], list[k], here)
    BY <1>2, <1>v DEF Visits
  <1>7. \A k \in 1..(n + 1) : u[k] = VisitRule(book, u[k - 1], more[k], here)
    BY <1>3, <1>v DEF Visits
  <1> DEFINE Differ == {k \in 0..n : u[k] # t[k]}
  <1>8. Differ = {}
    <2>1. SUFFICES ASSUME Differ # {} PROVE FALSE
      OBVIOUS
    <2>2. Differ \subseteq Nat
      OBVIOUS
    <2>3. PICK k \in Differ : \A l \in Differ : k <= l
      <3> HIDE DEF Differ
      <3> QED BY <2>1, <2>2, LeastMember
    <2>4. k \in 0..n /\ u[k] # t[k] /\ k # 0
      BY <1>6, <2>3
    <2>5. k \in 1..n /\ k \in 1..(n + 1) /\ k - 1 \in 0..n /\ k - 1 \notin Differ
      BY <2>3, <2>4
    <2>6. u[k - 1] = t[k - 1]
      BY <2>5
    <2> QED BY <1>3, <1>6, <1>7, <2>4, <2>5, <2>6
  <1>9. u[n] = t[n] /\ n + 1 \in 1..(n + 1) /\ (n + 1) - 1 = n
    BY <1>8
  <1>10. u[n + 1] = VisitRule(book, t[n], name, here)
    BY <1>3, <1>7, <1>9
  <1> QED BY <1>1, <1>2, <1>3, <1>4, <1>5, <1>10 DEF Result

\* The features a rule that matches publishes.
Publishes(rule) == {MatchedRule(name) : name \in {rule.name} \cup NamespaceHierarchy(rule)}

\* A visit publishes only match features.
LEMMA VisitFeatures ==
    ASSUME NEW book, NEW acc, NEW name, NEW here
    PROVE  \A f \in DOMAIN VisitRule(book, acc, name, here).fs :
               f \in DOMAIN acc.fs \/ f.tag = "MatchedRule"
  <1>1. PICK rule : rule = book[name]
    OBVIOUS
  <1>2. PICK ok : ok = EvaluateQuick(rule.nodes, rule.root, acc.fs)
    OBVIOUS
  <1>3. CASE ~ok
    BY <1>1, <1>2, <1>3 DEF VisitRule
  <1>4. CASE ok
    <2>1. VisitRule(book, acc, name, here).fs = AddFeatures(acc.fs, Publishes(rule), {here})
      BY <1>1, <1>2, <1>4 DEF VisitRule, IndexRuleMatches, Publishes
    <2>2. DOMAIN AddFeatures(acc.fs, Publishes(rule), {here}) = DOMAIN acc.fs \cup Publishes(rule)
      BY DEF AddFeatures
    <2>3. \A f \in Publishes(rule) : f.tag = "MatchedRule"
      BY DEF Publishes, MatchedRule
    <2> QED BY <2>1, <2>2, <2>3
  <1> QED BY <1>3, <1>4

\* No rule, no visit.
LEMMA MatchNothing ==
    ASSUME NEW book, NEW feats, NEW here
    PROVE  Result(book, <<>>, feats, here) = NothingMatched(feats)
  <1>1. Len(<<>>) = 0 /\ Len(<<>>) \in Nat
    OBVIOUS
  <1>2. Visits(MatchSoFar(book, <<>>, feats, here), book, <<>>, feats, here)
    BY <1>1, MatchDef
  <1> QED BY <1>1, <1>2 DEF Visits, Result

\* A rule whose tree the walks are defined on.
Matchable(rule) ==
    /\ rule.root \in 1..rule.root
    /\ Shaped(rule.nodes, rule.root) /\ Ground(rule.nodes, rule.root)

-----------------------------------------------------------------------------
(***************************************************************************)
(* The index                                                               *)
(***************************************************************************)

RuleNeed(rule) == Need(rule.nodes, rule.root)

\* Nothing the rule requires is in the feature set.
Hopeless(rule, feats) == RuleNeed(rule) # {} /\ RuleNeed(rule) \cap DOMAIN feats = {}

\* The list is the order without some rules that are hopeless.
Pruned(book, order, feats, list) ==
    \E keep : /\ list = Kept(order, keep)
              /\ \A n \in ToSet(order) \ keep : Hopeless(book[n], feats)

\* Nothing but match features was added.
OnlyMatches(feats, acc) == \A f \in DOMAIN acc.fs : f \in DOMAIN feats \/ f.tag = "MatchedRule"

\* A hopeless rule does not match, whatever was published since.
LEMMA HopelessSkipped ==
    ASSUME NEW book, NEW name, Matchable(book[name]), NEW feats, Hopeless(book[name], feats),
           NEW acc, OnlyMatches(feats, acc), NEW here
    PROVE  VisitRule(book, acc, name, here) = acc
  <1>1. PICK rule : rule = book[name]
    OBVIOUS
  <1>2. PICK nodes, root : nodes = rule.nodes /\ root = rule.root
    OBVIOUS
  <1>3. root \in 1..root /\ Shaped(nodes, root) /\ Ground(nodes, root)
    BY <1>1, <1>2 DEF Matchable
  <1>4. PICK need : need = NeedTable(nodes, root)[root]
    OBVIOUS
  <1>5. \A f \in need.feats : Indexable(f.tag)
    BY <1>3, <1>4, NeedsIndexable
  <1>6. \A f \in need.feats : f.tag # "MatchedRule"
    BY <1>5 DEF Indexable
  <1>7. need.feats # {} /\ need.feats \cap DOMAIN feats = {}
    BY <1>1, <1>2, <1>4 DEF Hopeless, RuleNeed, Need
  <1>8. need.feats \cap DOMAIN acc.fs = {}
    BY <1>6, <1>7 DEF OnlyMatches
  <1>9. QuickTable(nodes, root, acc.fs)[root] => Met(need, acc.fs)
    BY <1>3, <1>4, NeedsMet
  <1>10. ~EvaluateQuick(rule.nodes, rule.root, acc.fs)
    BY <1>2, <1>7, <1>8, <1>9 DEF Met, EvaluateQuick
  <1> QED BY <1>1, <1>10 DEF VisitRule

\* engine::match over the pruned order returns what it returns over the order.
LEMMA PrunedSame ==
    ASSUME NEW S, NEW order \in Seq(S), NEW book, \A n \in S : Matchable(book[n]),
           NEW feats, NEW here, NEW list, Pruned(book, order, feats, list)
    PROVE  Result(book, list, feats, here) = Result(book, order, feats, here)
  <1>1. PICK keep : /\ list = Kept(order, keep)
                    /\ \A n \in ToSet(order) \ keep : Hopeless(book[n], feats)
    BY DEF Pruned
  <1>n. PICK n \in Nat : n = Len(order)
    OBVIOUS
  <1>t. PICK t : t = KeptSoFar(order, keep)
    OBVIOUS
  <1>a. PICK a : a = MatchSoFar(book, order, feats, here)
    OBVIOUS
  <1>2. \A k \in 1..n : order[k] \in S /\ order[k] \in ToSet(order)
    BY <1>n DEF ToSet
  <1>3. /\ t[0] = <<>>
        /\ \A k \in 1..n : t[k] = IF order[k] \in keep THEN Append(t[k - 1], order[k]) ELSE t[k - 1]
    BY <1>n, <1>t, KeptDef
  <1>v. Visits(a, book, order, feats, here)
    BY <1>n, <1>a, MatchDef
  <1>4. /\ a[0] = NothingMatched(feats)
        /\ \A k \in 1..n : a[k] = VisitRule(book, a[k - 1], order[k], here)
    BY <1>n, <1>v DEF Visits
  <1>5. \A k \in 0..n : t[k] \in Seq(S)
    <2>1. \A k \in 0..n : t[k] \in Seq(ToSet(order) \cap keep)
      BY <1>n, <1>t, KeptMembers
    <2>2. ToSet(order) \cap keep \subseteq S
      BY <1>2, <1>n DEF ToSet
    <2>3. PICK M : M = ToSet(order) \cap keep
      OBVIOUS
    <2>4. ASSUME NEW s \in Seq(M) PROVE s \in Seq(S)
      BY <2>2, <2>3
    <2> QED BY <2>1, <2>3, <2>4
  <1> DEFINE Good(k) == Result(book, t[k], feats, here) = a[k] /\ OnlyMatches(feats, a[k])
             Bad == {k \in 0..n : ~Good(k)}
  <1>6. Bad = {}
    <2>1. SUFFICES ASSUME Bad # {} PROVE FALSE
      OBVIOUS
    <2>2. Bad \subseteq Nat /\ Bad \subseteq 0..n
      OBVIOUS
    <2>3. PICK k \in Bad : \A l \in Bad : k <= l
      <3> HIDE DEF Bad
      <3> QED BY <2>1, <2>2, LeastMember
    <2>4. k # 0
      <3>1. OnlyMatches(feats, a[0])
        BY <1>4 DEF OnlyMatches, NothingMatched
      <3>2. Good(0)
        BY <1>3, <1>4, <3>1, MatchNothing
      <3> QED BY <2>3, <3>2
    <2>5. k - 1 \in 0..n /\ k \in 1..n /\ k - 1 \notin Bad
      <3> HIDE DEF Bad
      <3> QED BY <2>2, <2>3, <2>4
    <2>6. Good(k - 1)
      BY <2>5
    <2>7. PICK s, acc, name : s = t[k - 1] /\ acc = a[k - 1] /\ name = order[k]
      OBVIOUS
    <2>8. /\ s \in Seq(S) /\ Result(book, s, feats, here) = acc /\ OnlyMatches(feats, acc)
          /\ name \in S /\ name \in ToSet(order) /\ Matchable(book[name])
      BY <1>2, <1>5, <2>5, <2>6, <2>7
    <2>9. a[k] = VisitRule(book, acc, name, here)
      BY <1>4, <2>5, <2>7
    <2>10. OnlyMatches(feats, a[k])
      BY <2>8, <2>9, VisitFeatures DEF OnlyMatches
    <2>11. Result(book, t[k], feats, here) = a[k]
      <3>1. CASE name \in keep
        <4>1. t[k] = Append(s, name)
          BY <1>3, <2>5, <2>7, <3>1
        <4> QED BY <2>8, <2>9, <4>1, MatchAppend
      <3>2. CASE name \notin keep
        <4>1. t[k] = s
          BY <1>3, <2>5, <2>7, <3>2
        <4>2. Hopeless(book[name], feats)
          BY <1>1, <2>8, <3>2
        <4>3. VisitRule(book, acc, name, here) = acc
          BY <2>8, <4>2, HopelessSkipped
        <4> QED BY <2>8, <2>9, <4>1, <4>3
      <3> QED BY <3>1, <3>2
    <2> QED BY <2>3, <2>10, <2>11
  <1>7. Good(n)
    BY <1>6
  <1> QED BY <1>1, <1>7, <1>n, <1>t, <1>a DEF Kept, Result

-----------------------------------------------------------------------------
(***************************************************************************)
(* The gate                                                                *)
(***************************************************************************)

\* The names under which other rules find a match of the rule.
KnownAs(rule) == {rule.name} \cup NamespaceHierarchy(rule)

\* The list is the order without some rules that are no limitation and that no
\* rule of the list refers to.
Gated(book, order, list) ==
    \E keep : /\ list = Kept(order, keep)
              /\ \A n \in ToSet(order) : IsLimitation(book[n]) => n \in keep
              /\ \A n \in keep \cap ToSet(order), m \in ToSet(order) :
                    KnownAs(book[m]) \cap RefsOf(book[n]) # {} => m \in keep

\* What a visit of the rule makes of what was matched before.
VisitMakes(old, new, ok, rule, name, here) ==
    /\ ~ok => new = old
    /\ ok => /\ new.fs = AddFeatures(old.fs, Publishes(rule), {here})
             /\ DOMAIN new.out = DOMAIN old.out \cup {name}

\* What one visit does: nothing when the probe fails; otherwise the rule is
\* listed and its name and namespaces are published.
LEMMA VisitCases ==
    ASSUME NEW book, NEW acc, NEW name, NEW here,
           NEW ok, ok = EvaluateQuick(book[name].nodes, book[name].root, acc.fs),
           NEW new, new = VisitRule(book, acc, name, here)
    PROVE  VisitMakes(acc, new, ok, book[name], name, here)
  <1>1. CASE ~ok
    BY <1>1 DEF VisitRule, VisitMakes
  <1>2. CASE ok
    <2>1. new = [fs  |-> IndexRuleMatches(acc.fs, book[name], {here}),
                 out |-> [n \in DOMAIN acc.out \cup {name} |->
                             IF n = name
                             THEN Evaluate(book[name].nodes, book[name].root, acc.fs, FALSE).locs
                             ELSE acc.out[n]]]
      BY <1>2 DEF VisitRule
    <2>2. new.fs = IndexRuleMatches(acc.fs, book[name], {here})
      BY <2>1
    <2>3. DOMAIN new.out = DOMAIN acc.out \cup {name}
      BY <2>1
    <2>4. new.fs = AddFeatures(acc.fs, Publishes(book[name]), {here})
      BY <2>2 DEF IndexRuleMatches, Publishes
    <2> QED BY <1>2, <2>3, <2>4 DEF VisitMakes
  <1> QED BY <1>1, <1>2

\* The same features added to both sets leave them alike.
LEMMA AlikeBoth ==
    ASSUME NEW refs, NEW one, NEW two, Alike(refs, one, two), NEW feats, NEW addrs
    PROVE  Alike(refs, AddFeatures(one, feats, addrs), AddFeatures(two, feats, addrs))
  <1> SUFFICES ASSUME NEW f, f.tag # "MatchedRule" \/ f.datum \in refs
               PROVE  /\ f \in DOMAIN AddFeatures(one, feats, addrs)
                            <=> f \in DOMAIN AddFeatures(two, feats, addrs)
                      /\ f \in DOMAIN AddFeatures(one, feats, addrs) =>
                            AddFeatures(one, feats, addrs)[f] = AddFeatures(two, feats, addrs)[f]
    BY DEF Alike
  <1>1. (f \in DOMAIN one <=> f \in DOMAIN two) /\ (f \in DOMAIN one => one[f] = two[f])
    BY DEF Alike
  <1> QED BY <1>1 DEF AddFeatures

\* Match features that refs does not name may be added to one of them.
LEMMA AlikeOne ==
    ASSUME NEW refs, NEW one, NEW two, Alike(refs, one, two), NEW addrs,
           NEW feats, \A f \in feats : f.tag = "MatchedRule" /\ f.datum \notin refs
    PROVE  Alike(refs, AddFeatures(one, feats, addrs), two)
  <1> SUFFICES ASSUME NEW f, f.tag # "MatchedRule" \/ f.datum \in refs
               PROVE  /\ f \in DOMAIN AddFeatures(one, feats, addrs) <=> f \in DOMAIN two
                      /\ f \in DOMAIN AddFeatures(one, feats, addrs) =>
                            AddFeatures(one, feats, addrs)[f] = two[f]
    BY DEF Alike
  <1>1. (f \in DOMAIN one <=> f \in DOMAIN two) /\ (f \in DOMAIN one => one[f] = two[f])
    BY DEF Alike
  <1>2. f \notin feats
    OBVIOUS
  <1> QED BY <1>1, <1>2 DEF AddFeatures

\* A visit of the full match and the corresponding visit of the gate, if any.
Abreast(refs, keep, order, full, gate) ==
    /\ Alike(refs, full.fs, gate.fs)
    /\ DOMAIN full.out \subseteq ToSet(order)
    /\ DOMAIN gate.out = DOMAIN full.out \cap keep

\* A rule of the gate is decided alike by the full match and by the gate.
LEMMA KeptAbreast ==
    ASSUME NEW refs, NEW keep, NEW order, NEW full, NEW gate, Abreast(refs, keep, order, full, gate),
           NEW book, NEW here, NEW name \in ToSet(order), name \in keep,
           Matchable(book[name]), RefsOf(book[name]) \subseteq refs
    PROVE  Abreast(refs, keep, order, VisitRule(book, full, name, here), VisitRule(book, gate, name, here))
  <1>1. PICK rule : rule = book[name]
    OBVIOUS
  <1>2. PICK ok, pass : /\ ok = EvaluateQuick(rule.nodes, rule.root, full.fs)
                        /\ pass = EvaluateQuick(rule.nodes, rule.root, gate.fs)
    OBVIOUS
  <1>3. PICK f, g : f = VisitRule(book, full, name, here) /\ g = VisitRule(book, gate, name, here)
    OBVIOUS
  <1>4. ok = pass
    <2>1. rule.root \in 1..rule.root /\ Shaped(rule.nodes, rule.root) /\ Ground(rule.nodes, rule.root)
      BY <1>1 DEF Matchable
    <2>2. RefsTable(rule.nodes, rule.root)[rule.root] \subseteq refs
      BY <1>1 DEF RefsOf, CollectMatchRefs
    <2>3. Alike(refs, full.fs, gate.fs)
      BY DEF Abreast
    <2>4. QuickTable(rule.nodes, rule.root, full.fs)[rule.root] = QuickTable(rule.nodes, rule.root, gate.fs)[rule.root]
      BY <2>1, <2>2, <2>3, QuickAlike
    <2> QED BY <1>2, <2>4 DEF EvaluateQuick
  <1>5. /\ ~ok => f = full
        /\ ok => f.fs = AddFeatures(full.fs, Publishes(rule), {here}) /\ DOMAIN f.out = DOMAIN full.out \cup {name}
    <2>1. VisitMakes(full, f, ok, rule, name, here)
      BY <1>1, <1>2, <1>3, VisitCases
    <2> QED BY <2>1 DEF VisitMakes
  <1>6. /\ ~pass => g = gate
        /\ pass => g.fs = AddFeatures(gate.fs, Publishes(rule), {here}) /\ DOMAIN g.out = DOMAIN gate.out \cup {name}
    <2>1. VisitMakes(gate, g, pass, rule, name, here)
      BY <1>1, <1>2, <1>3, VisitCases
    <2> QED BY <2>1 DEF VisitMakes
  <1>7. CASE ~ok
    BY <1>3, <1>4, <1>5, <1>6, <1>7
  <1>8. CASE ok
    <2>1. Alike(refs, f.fs, g.fs)
      BY <1>4, <1>5, <1>6, <1>8, AlikeBoth DEF Abreast
    <2>2. DOMAIN f.out \subseteq ToSet(order) /\ DOMAIN g.out = DOMAIN f.out \cap keep
      BY <1>4, <1>5, <1>6, <1>8 DEF Abreast
    <2> QED BY <1>3, <2>1, <2>2 DEF Abreast
  <1> QED BY <1>7, <1>8

\* A rule outside the gate publishes nothing that a rule of the gate asks for.
LEMMA SkippedAbreast ==
    ASSUME NEW refs, NEW keep, NEW order, NEW full, NEW gate, Abreast(refs, keep, order, full, gate),
           NEW book, NEW here, NEW name \in ToSet(order), name \notin keep,
           KnownAs(book[name]) \cap refs = {}
    PROVE  Abreast(refs, keep, order, VisitRule(book, full, name, here), gate)
  <1>1. PICK rule : rule = book[name]
    OBVIOUS
  <1>2. PICK ok : ok = EvaluateQuick(rule.nodes, rule.root, full.fs)
    OBVIOUS
  <1>3. PICK f : f = VisitRule(book, full, name, here)
    OBVIOUS
  <1>5. /\ ~ok => f = full
        /\ ok => f.fs = AddFeatures(full.fs, Publishes(rule), {here}) /\ DOMAIN f.out = DOMAIN full.out \cup {name}
    <2>1. VisitMakes(full, f, ok, rule, name, here)
      BY <1>1, <1>2, <1>3, VisitCases
    <2> QED BY <2>1 DEF VisitMakes
  <1>6. \A g \in Publishes(rule) : g.tag = "MatchedRule" /\ g.datum \notin refs
    BY <1>1 DEF Publishes, KnownAs, MatchedRule
  <1>7. CASE ~ok
    BY <1>3, <1>5, <1>7
  <1>8. CASE ok
    <2>1. Alike(refs, f.fs, gate.fs)
      BY <1>5, <1>6, <1>8, AlikeOne DEF Abreast
    <2>2. DOMAIN f.out \subseteq ToSet(order) /\ DOMAIN gate.out = DOMAIN f.out \cap keep
      BY <1>5, <1>8 DEF Abreast
    <2> QED BY <1>3, <2>1, <2>2 DEF Abreast
  <1> QED BY <1>7, <1>8

\* The gate and the full match meet a limitation rule or neither does.
LEMMA GatedSame ==
    ASSUME NEW S, NEW order \in Seq(S), NEW book, \A n \in S : Matchable(book[n]),
           NEW feats, NEW here, NEW list, Gated(book, order, list)
    PROVE  (\E n \in DOMAIN Result(book, list, feats, here).out : IsLimitation(book[n]))
               <=> (\E n \in DOMAIN Result(book, order, feats, here).out : IsLimitation(book[n]))
  <1>1. PICK keep : /\ list = Kept(order, keep)
                    /\ \A n \in ToSet(order) : IsLimitation(book[n]) => n \in keep
                    /\ \A n \in keep \cap ToSet(order), m \in ToSet(order) :
                          KnownAs(book[m]) \cap RefsOf(book[n]) # {} => m \in keep
    BY DEF Gated
  <1>r. PICK refs : refs = UNION {RefsOf(book[n]) : n \in keep \cap ToSet(order)}
    OBVIOUS
  <1>n. PICK n \in Nat : n = Len(order)
    OBVIOUS
  <1>t. PICK t : t = KeptSoFar(order, keep)
    OBVIOUS
  <1>a. PICK a : a = MatchSoFar(book, order, feats, here)
    OBVIOUS
  <1>2. \A k \in 1..n : order[k] \in S /\ order[k] \in ToSet(order)
    BY <1>n DEF ToSet
  <1>3. /\ t[0] = <<>>
        /\ \A k \in 1..n : t[k] = IF order[k] \in keep THEN Append(t[k - 1], order[k]) ELSE t[k - 1]
    BY <1>n, <1>t, KeptDef
  <1>v. Visits(a, book, order, feats, here)
    BY <1>n, <1>a, MatchDef
  <1>4. /\ a[0] = NothingMatched(feats)
        /\ \A k \in 1..n : a[k] = VisitRule(book, a[k - 1], order[k], here)
    BY <1>n, <1>v DEF Visits
  <1>5. \A k \in 0..n : t[k] \in Seq(S)
    <2>1. \A k \in 0..n : t[k] \in Seq(ToSet(order) \cap keep)
      BY <1>n, <1>t, KeptMembers
    <2>2. ToSet(order) \cap keep \subseteq S
      BY <1>2, <1>n DEF ToSet
    <2>3. PICK M : M = ToSet(order) \cap keep
      OBVIOUS
    <2>4. ASSUME NEW s \in Seq(M) PROVE s \in Seq(S)
      BY <2>2, <2>3
    <2> QED BY <2>1, <2>3, <2>4
  <1> DEFINE Good(k) == Abreast(refs, keep, order, a[k], Result(book, t[k], feats, here))
             Bad == {k \in 0..n : ~Good(k)}
  <1>6. Bad = {}
    <2>1. SUFFICES ASSUME Bad # {} PROVE FALSE
      OBVIOUS
    <2>2. Bad \subseteq Nat /\ Bad \subseteq 0..n
      OBVIOUS
    <2>3. PICK k \in Bad : \A l \in Bad : k <= l
      <3> HIDE DEF Bad
      <3> QED BY <2>1, <2>2, LeastMember
    <2>4. k # 0
      <3>1. Abreast(refs, keep, order, NothingMatched(feats), NothingMatched(feats))
        BY DEF Abreast, Alike, NothingMatched, Empty
      <3>2. Good(0)
        BY <1>3, <1>4, <3>1, MatchNothing
      <3> QED BY <2>3, <3>2
    <2>5. k - 1 \in 0..n /\ k \in 1..n /\ k - 1 \notin Bad
      <3> HIDE DEF Bad
      <3> QED BY <2>2, <2>3, <2>4
    <2>6. Good(k - 1)
      BY <2>5
    <2>7. PICK s, acc, gate, name : /\ s = t[k - 1] /\ acc = a[k - 1] /\ name = order[k]
                                    /\ gate = Result(book, s, feats, here)
      OBVIOUS
    <2>8. /\ s \in Seq(S) /\ Abreast(refs, keep, order, acc, gate)
          /\ name \in S /\ name \in ToSet(order) /\ Matchable(book[name])
      BY <1>2, <1>5, <2>5, <2>6, <2>7
    <2>9. a[k] = VisitRule(book, acc, name, here)
      BY <1>4, <2>5, <2>7
    <2>10. Good(k)
      <3>1. CASE name \in keep
        <4>1. t[k] = Append(s, name)
          BY <1>3, <2>5, <2>7, <3>1
        <4>2. Result(book, t[k], feats, here) = VisitRule(book, gate, name, here)
          BY <2>7, <2>8, <4>1, MatchAppend
        <4>3. RefsOf(book[name]) \subseteq refs
          BY <1>r, <2>8, <3>1
        <4> QED BY <2>8, <2>9, <3>1, <4>2, <4>3, KeptAbreast
      <3>2. CASE name \notin keep
        <4>1. Result(book, t[k], feats, here) = gate
          BY <1>3, <2>5, <2>7, <3>2
        <4>2. KnownAs(book[name]) \cap refs = {}
          <5>1. SUFFICES ASSUME NEW x \in KnownAs(book[name]), x \in refs PROVE FALSE
            OBVIOUS
          <5>2. PICK m \in keep \cap ToSet(order) : x \in RefsOf(book[m])
            BY <1>r, <5>1
          <5> QED BY <1>1, <2>8, <3>2, <5>1, <5>2
        <4> QED BY <2>8, <2>9, <3>2, <4>1, <4>2, SkippedAbreast
      <3> QED BY <3>1, <3>2
    <2> QED BY <2>3, <2>10
  <1>7. Good(n)
    BY <1>6
  <1>8. Abreast(refs, keep, order, Result(book, order, feats, here), Result(book, list, feats, here))
    BY <1>1, <1>7, <1>n, <1>t, <1>a DEF Kept, Result
  <1> QED BY <1>1, <1>8 DEF Abreast

-----------------------------------------------------------------------------
(***************************************************************************)
(* The closure of the gate                                                 *)
(***************************************************************************)

\* What one round adds.
Wider(reach, known) == known \cup UNION {reach[n] : n \in known}

Widens(f, reach, seed, m) ==
    f = [k \in 0..m |-> IF k = 0 THEN seed ELSE Wider(reach, f[k - 1])]

\* The function Grown defines, for any relation and seed.
LEMMA GrownExists ==
    ASSUME NEW n \in Nat, NEW reach, NEW seed
    PROVE  \E f : Widens(f, reach, seed, n)
  <1> DEFINE Step(f, k) == IF k = 0 THEN seed ELSE Wider(reach, f[k - 1])
             Lacks == {m \in 0..n : ~\E f : f = [k \in 0..m |-> Step(f, k)]}
  <1>1. SUFFICES ASSUME Lacks # {} PROVE FALSE
    <2> HIDE DEF Step
    <2>1. Lacks = {} => \E f : f = [k \in 0..n |-> Step(f, k)]
      OBVIOUS
    <2> QED BY <2>1 DEF Step, Widens
  <1>0. Lacks \subseteq Nat /\ Lacks \subseteq 0..n
    OBVIOUS
  <1>2. PICK m \in Lacks : \A l \in Lacks : m <= l
    <2> HIDE DEF Lacks
    <2> QED BY <1>0, <1>1, LeastMember
  <1>3. m # 0
    <2> DEFINE f == [k \in 0..0 |-> seed]
    <2>1. f = [k \in 0..0 |-> Step(f, k)]
      OBVIOUS
    <2> QED BY <2>1
  <1>4. m - 1 \in 0..n /\ m \in 1..n /\ m - 1 \notin Lacks
    <2> HIDE DEF Lacks
    <2> QED BY <1>0, <1>2, <1>3
  <1>5. PICK f : f = [k \in 0..(m - 1) |-> Step(f, k)]
    BY <1>4
  <1> DEFINE g == [k \in 0..m |-> Step(f, k)]
  <1>6. \A k \in 0..(m - 1) : f[k] = g[k]
    <2>1. \A k \in 0..(m - 1) : f[k] = Step(f, k)
      BY <1>5, Zenon
    <2>2. \A k \in 0..(m - 1) : k \in 0..m
      BY <1>4
    <2> QED BY <2>1, <2>2
  <1>7. ASSUME NEW k \in 0..m PROVE Step(f, k) = Step(g, k)
    <2>1. k # 0 => k - 1 \in 0..(m - 1)
      BY <1>4
    <2> HIDE DEF g
    <2> QED BY <1>6, <2>1
  <1>8. g = [k \in 0..m |-> Step(g, k)]
    BY <1>7
  <1> QED BY <1>8, <1>2

\* Grown unfolded.
LEMMA GrownDef ==
    ASSUME NEW reach, NEW seed, NEW n \in Nat, n = Cardinality(DOMAIN reach),
           NEW g, g = Grown(reach, seed)
    PROVE  g[0] = seed /\ \A k \in 1..n : g[k] = Wider(reach, g[k - 1])
  <1>1. PICK f : Widens(f, reach, seed, n)
    BY GrownExists
  <1>2. Widens(g, reach, seed, n)
    <2>1. f = [k \in 0..Cardinality(DOMAIN reach) |->
                IF k = 0 THEN seed ELSE f[k - 1] \cup UNION {reach[x] : x \in f[k - 1]}]
      BY <1>1 DEF Widens, Wider
    <2>2. g = [k \in 0..Cardinality(DOMAIN reach) |->
                IF k = 0 THEN seed ELSE g[k - 1] \cup UNION {reach[x] : x \in g[k - 1]}]
      BY <2>1, Zenon DEF Grown
    <2> QED BY <2>2 DEF Widens, Wider
  <1>3. \A k \in 0..n : g[k] = IF k = 0 THEN seed ELSE Wider(reach, g[k - 1])
    BY <1>2, Zenon DEF Widens
  <1>4. 0 \in 0..n /\ \A k \in 1..n : k \in 0..n /\ k # 0
    OBVIOUS
  <1> QED BY <1>3, <1>4

\* Rounds, as many as there are rules, reach all there is to reach.
LEMMA GrowthCloses ==
    ASSUME NEW reach, IsFiniteSet(DOMAIN reach),
           \A x \in DOMAIN reach : reach[x] \subseteq DOMAIN reach,
           NEW seed, seed \subseteq DOMAIN reach,
           NEW all, all = Grown(reach, seed)[Cardinality(DOMAIN reach)]
    PROVE  /\ seed \subseteq all /\ all \subseteq DOMAIN reach
           /\ \A x \in all : reach[x] \subseteq all
  <1>d. PICK D : D = DOMAIN reach
    OBVIOUS
  <1>n. PICK n \in Nat : n = Cardinality(D)
    BY <1>d, FS_CardinalityType
  <1>g. PICK g : g = Grown(reach, seed)
    OBVIOUS
  <1>1. g[0] = seed /\ \A k \in 1..n : g[k] = Wider(reach, g[k - 1])
    BY <1>d, <1>n, <1>g, GrownDef
  <1> DEFINE Closed(S) == \A x \in S : reach[x] \subseteq S
             Good(k) == /\ seed \subseteq g[k] /\ g[k] \subseteq D
                        /\ Closed(g[k]) \/ Cardinality(g[k]) >= k
             Bad == {k \in 0..n : ~Good(k)}
  <1>f. ASSUME NEW S, S \subseteq D
        PROVE  IsFiniteSet(S) /\ Cardinality(S) \in Nat /\ Cardinality(S) <= n
                 /\ (Cardinality(S) = n => S = D)
    <2>1. IsFiniteSet(D)
      BY <1>d
    <2>2. IsFiniteSet(S)
      BY <2>1, <1>f, FS_Subset
    <2> QED BY <1>f, <1>n, <2>1, <2>2, FS_Subset, FS_CardinalityType
  <1>2. ASSUME NEW S, S \subseteq D
        PROVE  /\ S \subseteq Wider(reach, S) /\ Wider(reach, S) \subseteq D
               /\ ~Closed(S) => Cardinality(Wider(reach, S)) >= Cardinality(S) + 1
               /\ Closed(S) => Wider(reach, S) = S
    <2>1. PICK W : W = Wider(reach, S)
      OBVIOUS
    <2>2. \A y : y \in W <=> y \in S \/ \E x \in S : y \in reach[x]
      BY <2>1, Zenon DEF Wider
    <2>3. S \subseteq W /\ W \subseteq D
      BY <1>2, <1>d, <2>2
    <2>4. ASSUME ~Closed(S) PROVE Cardinality(W) >= Cardinality(S) + 1
      <3>1. PICK x \in S : \E y \in reach[x] : y \notin S
        BY <2>4
      <3>2. S # W
        BY <2>2, <3>1
      <3>3. IsFiniteSet(S) /\ IsFiniteSet(W) /\ Cardinality(S) \in Nat /\ Cardinality(W) \in Nat
        BY <1>2, <1>f, <2>3
      <3>4. Cardinality(S) <= Cardinality(W) /\ Cardinality(S) # Cardinality(W)
        BY <2>3, <3>2, <3>3, FS_Subset
      <3> QED BY <3>3, <3>4
    <2>5. ASSUME Closed(S) PROVE W = S
      BY <2>2, <2>5
    <2> QED BY <2>1, <2>3, <2>4, <2>5
  <1>3. Bad = {}
    <2>1. SUFFICES ASSUME Bad # {} PROVE FALSE
      OBVIOUS
    <2>2. Bad \subseteq Nat /\ Bad \subseteq 0..n
      OBVIOUS
    <2>3. PICK k \in Bad : \A l \in Bad : k <= l
      <3> HIDE DEF Bad
      <3> QED BY <2>1, <2>2, LeastMember
    <2>4. k # 0
      <3>1. seed \subseteq D
        BY <1>d
      <3>2. Cardinality(seed) \in Nat
        BY <1>f, <3>1
      <3>3. Cardinality(g[0]) >= 0
        BY <1>1, <3>2
      <3>4. Good(0)
        BY <1>1, <3>1, <3>3
      <3> QED BY <2>3, <3>4
    <2>5. k - 1 \in 0..n /\ k \in 1..n /\ k - 1 \notin Bad
      <3> HIDE DEF Bad
      <3> QED BY <2>2, <2>3, <2>4
    <2>6. Good(k - 1)
      BY <2>5
    <2>7. PICK S : S = g[k - 1]
      OBVIOUS
    <2>8. S \subseteq D /\ seed \subseteq S /\ g[k] = Wider(reach, S)
      BY <1>1, <2>5, <2>6, <2>7
    <2>9. PICK W : W = Wider(reach, S)
      OBVIOUS
    <2>10. /\ S \subseteq W /\ W \subseteq D
           /\ ~Closed(S) => Cardinality(W) >= Cardinality(S) + 1
           /\ Closed(S) => W = S
      BY <1>2, <2>8, <2>9
    <2>11. Closed(W) \/ Cardinality(W) >= k
      <3>1. CASE Closed(S)
        BY <2>10, <3>1
      <3>2. CASE ~Closed(S)
        <4>1. Cardinality(S) >= k - 1 /\ Cardinality(W) >= Cardinality(S) + 1
          BY <2>6, <2>7, <2>10, <3>2
        <4>2. Cardinality(S) \in Nat /\ Cardinality(W) \in Nat /\ k \in Nat
          BY <1>f, <2>5, <2>8, <2>10
        <4>3. Cardinality(W) >= k
          BY <4>1, <4>2
        <4> QED BY <4>3
      <3> QED BY <3>1, <3>2
    <2>12. Good(k)
      BY <2>8, <2>9, <2>10, <2>11
    <2> QED BY <2>3, <2>12
  <1>4. Good(n)
    BY <1>3
  <1>5. g[n] = all
    BY <1>d, <1>n, <1>g
  <1>6. Closed(all)
    <2>1. CASE Closed(g[n])
      BY <1>5, <2>1
    <2>2. CASE Cardinality(g[n]) >= n
      <3>1. g[n] \subseteq D
        BY <1>4
      <3>2. g[n] = D
        BY <1>f, <2>2, <3>1
      <3> QED BY <1>5, <1>d, <3>2
    <2> QED BY <1>4, <2>1, <2>2
  <1> QED BY <1>4, <1>5, <1>6, <1>d

-----------------------------------------------------------------------------
(***************************************************************************)
(* What the pipeline makes of the parsed rules                             *)
(***************************************************************************)

\* The lists appended so far.
Flattens(f, seqs, m) == f = [i \in 1..m |-> IF i = 1 THEN seqs[i] ELSE f[i - 1] \o seqs[i]]

\* The function that appends the first m of a list of lists.
LEMMA FlattenExists ==
    ASSUME NEW n \in Nat, NEW seqs
    PROVE  \E f : Flattens(f, seqs, n)
  <1> DEFINE Step(f, k) == IF k = 1 THEN seqs[k] ELSE f[k - 1] \o seqs[k]
             Lacks == {m \in 0..n : ~\E f : f = [k \in 1..m |-> Step(f, k)]}
  <1>0. Lacks \subseteq Nat /\ Lacks \subseteq 0..n
    <2> HIDE DEF Step
    <2> QED OBVIOUS
  <1>1. SUFFICES ASSUME Lacks # {} PROVE FALSE
    <2> HIDE DEF Step
    <2>1. Lacks = {} => \E f : f = [k \in 1..n |-> Step(f, k)]
      OBVIOUS
    <2>2. ASSUME NEW f, f = [k \in 1..n |-> Step(f, k)] PROVE Flattens(f, seqs, n)
      BY <2>2, Zenon DEF Step, Flattens
    <2> QED BY <2>1, <2>2
  <1>2. PICK m \in Lacks : \A l \in Lacks : m <= l
    <2> HIDE DEF Lacks
    <2> QED BY <1>0, <1>1, LeastMember
  <1>3. m # 0
    <2> DEFINE f == [k \in 1..0 |-> <<>>]
    <2>1. f = [k \in 1..0 |-> Step(f, k)]
      <3> HIDE DEF Step
      <3> QED OBVIOUS
    <2> QED BY <2>1
  <1>4. m - 1 \in 0..n /\ m \in 1..n /\ m - 1 \notin Lacks
    <2> HIDE DEF Lacks
    <2> QED BY <1>0, <1>2, <1>3
  <1>5. PICK f : f = [k \in 1..(m - 1) |-> Step(f, k)]
    BY <1>4
  <1> DEFINE g == [k \in 1..m |-> Step(f, k)]
  <1>6. \A k \in 1..(m - 1) : f[k] = g[k]
    <2>1. \A k \in 1..(m - 1) : f[k] = Step(f, k)
      BY <1>5, Zenon
    <2>2. \A k \in 1..(m - 1) : k \in 1..m
      BY <1>4
    <2> HIDE DEF Step
    <2> QED BY <2>1, <2>2
  <1>7. ASSUME NEW k \in 1..m PROVE Step(f, k) = Step(g, k)
    <2>1. k # 1 => k - 1 \in 1..(m - 1)
      BY <1>4
    <2> HIDE DEF g
    <2> QED BY <1>6, <2>1
  <1>8. g = [k \in 1..m |-> Step(g, k)]
    <2> HIDE DEF Step
    <2> QED BY <1>7
  <1> QED BY <1>8, <1>2

\* Lists over a set flatten to a list over the set.
LEMMA FlattenType ==
    ASSUME NEW S, NEW n \in Nat, NEW seqs, n = Len(seqs), DOMAIN seqs = 1..n,
           \A k \in 1..n : seqs[k] \in Seq(S), n = 0 => seqs = <<>>
    PROVE  FlattenSeq(seqs) \in Seq(S)
  <1>1. CASE n = 0
    BY <1>1 DEF FlattenSeq
  <1>2. CASE n # 0
    <2>1. PICK f : Flattens(f, seqs, n)
      BY FlattenExists
    <2>2. PICK t : t = CHOOSE flatten : flatten = [i \in 1..Len(seqs) |->
                            IF i = 1 THEN seqs[i] ELSE flatten[i - 1] \o seqs[i]]
      OBVIOUS
    <2>3. FlattenSeq(seqs) = t[n]
      BY <1>2, <2>2, Zenon DEF FlattenSeq
    <2>4. Flattens(t, seqs, n)
      BY <2>1, <2>2, Zenon DEF Flattens
    <2>5. \A k \in 1..n : t[k] = IF k = 1 THEN seqs[k] ELSE t[k - 1] \o seqs[k]
      BY <2>4, Zenon DEF Flattens
    <2> DEFINE Bad == {k \in 1..n : t[k] \notin Seq(S)}
    <2>6. Bad = {}
      <3>1. SUFFICES ASSUME Bad # {} PROVE FALSE
        OBVIOUS
      <3>2. Bad \subseteq Nat /\ Bad \subseteq 1..n
        OBVIOUS
      <3>3. PICK k \in Bad : \A l \in Bad : k <= l
        <4> HIDE DEF Bad
        <4> QED BY <3>1, <3>2, LeastMember
      <3>4. k # 1
        <4>1. t[1] = seqs[1]
          BY <1>2, <2>5
        <4> QED BY <1>2, <3>3, <4>1
      <3>5. k - 1 \in 1..n /\ k \in 1..n /\ k - 1 \notin Bad
        <4> HIDE DEF Bad
        <4> QED BY <3>2, <3>3, <3>4
      <3>6. t[k - 1] \in Seq(S) /\ seqs[k] \in Seq(S)
        BY <3>5
      <3>7. t[k] = t[k - 1] \o seqs[k]
        BY <2>5, <3>4, <3>5
      <3>8. t[k] \in Seq(S)
        BY <3>6, <3>7
      <3> QED BY <3>3, <3>8
    <2> QED BY <1>2, <2>3, <2>6
  <1> QED BY <1>1, <1>2

\* Nodes that form trees without Subscope.
Tidy(nodes) ==
    /\ Len(nodes) \in Nat /\ DOMAIN nodes = 1..Len(nodes)
    /\ Shaped(nodes, Len(nodes)) /\ Ground(nodes, Len(nodes))

\* A rule as extraction leaves it.
Runnable(rule) == IsRule(rule) /\ rule.root \in DOMAIN rule.nodes /\ Tidy(rule.nodes)

\* The optimizer leaves trees without Subscope.
LEMMA OptimizeTidy ==
    ASSUME NEW nodes, Tidy(nodes), NEW top
    PROVE  /\ Shaped(Optimize(nodes, top), Len(nodes))
           /\ Ground(Optimize(nodes, top), Len(nodes))
  <1>n. PICK n \in Nat : n = Len(nodes)
    BY DEF Tidy
  <1>1. DOMAIN nodes = 1..n /\ Shaped(nodes, n) /\ Ground(nodes, n)
    BY <1>n DEF Tidy
  <1>2. PICK opt : opt = Optimize(nodes, top)
    OBVIOUS
  <1>3. \A i \in 1..n : opt[i] = nodes[i] \/ Reordered(nodes[i], opt[i])
    BY <1>n, <1>1, <1>2, OptimizeFacts
  <1>4. Shaped(opt, n)
    BY <1>n, <1>1, <1>2, OptimizeShaped
  <1>5. ASSUME NEW i \in 1..n
        PROVE  /\ opt[i].kind = nodes[i].kind /\ opt[i].count = nodes[i].count
               /\ opt[i].max = nodes[i].max
    <2>1. CASE opt[i] = nodes[i]
      BY <2>1
    <2>2. CASE Reordered(nodes[i], opt[i])
      <3>1. PICK pi : opt[i] = [nodes[i] EXCEPT !.kids = Rearranged(nodes[i].kids, pi)]
        BY <2>2 DEF Reordered
      <3>2. IsNode(nodes[i])
        BY <1>1 DEF Shaped
      <3> QED BY <3>1, <3>2, SortedNode
    <2> QED BY <1>3, <2>1, <2>2
  <1>6. Ground(opt, n)
    BY <1>1, <1>5 DEF Ground
  <1> QED BY <1>n, <1>2, <1>4, <1>6

\* The optimizer keeps what matching needs of a rule.
LEMMA OptimizedMatchable ==
    ASSUME NEW rule, Runnable(rule)
    PROVE  Matchable(Optimized(rule))
  <1>1. PICK nodes, root, opt : /\ nodes = rule.nodes /\ root = rule.root
                                /\ opt = Optimize(nodes, root)
    OBVIOUS
  <1>2. Optimized(rule).nodes = opt /\ Optimized(rule).root = root
    BY <1>1 DEF Optimized, Runnable, IsRule
  <1>3. Tidy(nodes) /\ root \in DOMAIN nodes
    BY <1>1 DEF Runnable
  <1>4. Shaped(opt, Len(nodes)) /\ Ground(opt, Len(nodes))
    BY <1>1, <1>3, OptimizeTidy
  <1>5. root \in Nat /\ root \in 1..root /\ \A i \in 1..root : i \in 1..Len(nodes)
    BY <1>3 DEF Tidy
  <1>6. Shaped(opt, root) /\ Ground(opt, root)
    BY <1>4, <1>5 DEF Shaped, Ground
  <1> QED BY <1>2, <1>5, <1>6 DEF Matchable

\* Extraction makes runnable rules of a parsed rule.
LEMMA Extracted ==
    ASSUME NEW rule, IsParsedRule(rule), NEW parts, parts = ExtractFrom(rule)
    PROVE  /\ Runnable(parts.rule)
           /\ parts.spawned \in Seq(ToSet(parts.spawned))
           /\ \A r \in ToSet(parts.spawned) : Runnable(r)
  <1>n. PICK n : n = Len(rule.nodes)
    OBVIOUS
  <1>1. /\ n \in Nat /\ DOMAIN rule.nodes = 1..n /\ rule.root \in 1..n
        /\ \A i \in 1..n : IsParsedNode(rule.nodes[i], i)
    BY <1>n DEF IsParsedRule
  <1>2. PICK home : home = EnclosingSubscope(rule)
    OBVIOUS
  <1>3. PICK name : name = SyntheticNames(rule, home)
    OBVIOUS
  <1>4. PICK blocks : blocks = {i \in 1..n : rule.nodes[i].kind = "subscope"}
    OBVIOUS
  <1>5. PICK all : all = [i \in 1..n |-> i]
    OBVIOUS
  <1>6. PICK subs : subs = Kept(all, blocks)
    OBVIOUS
  <1>7. PICK rewritten : rewritten = [i \in 1..n |-> IF i \in blocks THEN Leaf(MatchedRule(name[i]))
                                                     ELSE rule.nodes[i]]
    OBVIOUS
  <1> DEFINE spawn(i) == [name |-> name[i], ns |-> <<>>, scope |-> rule.nodes[i].scope,
                          nodes |-> rewritten, root |-> rule.nodes[i].kids[1],
                          parent |-> name[home[i]]]
  <1>8. /\ parts.rule = [rule EXCEPT !.nodes = rewritten]
        /\ parts.spawned = [k \in DOMAIN subs |-> spawn(subs[k])]
    BY <1>1, <1>2, <1>3, <1>4, <1>5, <1>6, <1>7 DEF ExtractFrom
  <1>9. Tidy(rewritten)
    <2>1. Len(rewritten) = n /\ DOMAIN rewritten = 1..n
      BY <1>1, <1>7
    <2>2. ASSUME NEW i \in 1..n
          PROVE  /\ IsNode(rewritten[i]) /\ KidsBelow(rewritten[i], i) /\ NotHasKid(rewritten[i])
                 /\ rewritten[i].kind \in Kinds /\ rewritten[i].count \in Nat
                 /\ rewritten[i].max \in Nat
                 /\ rewritten[i].kind = "some" => rewritten[i].count # 0
      <3>1. CASE i \in blocks
        <4>1. rewritten[i] = Leaf(MatchedRule(name[i]))
          BY <1>7, <3>1
        <4> QED BY <4>1 DEF Leaf, Node, IsNode, KidsBelow, NotHasKid, Kinds
      <3>2. CASE i \notin blocks
        <4>1. rewritten[i] = rule.nodes[i] /\ rule.nodes[i].kind # "subscope"
          BY <1>4, <1>7, <3>2
        <4>2. IsParsedNode(rule.nodes[i], i)
          BY <1>1
        <4> QED BY <4>1, <4>2 DEF IsParsedNode, IsNode, KidsBelow, NotHasKid, Kinds
      <3> QED BY <3>1, <3>2
    <2> QED BY <1>1, <2>1, <2>2 DEF Tidy, Shaped, Ground
  <1>10. Runnable(parts.rule)
    <2>1. IsRule(rule)
      BY DEF IsParsedRule
    <2>2. /\ parts.rule.nodes = rewritten /\ parts.rule.root = rule.root /\ IsRule(parts.rule)
      BY <1>8, <2>1 DEF IsRule
    <2>3. rule.root \in DOMAIN rewritten
      BY <1>1, <1>7
    <2> QED BY <1>9, <2>2, <2>3 DEF Runnable
  <1>11. ASSUME NEW i \in blocks PROVE Runnable(spawn(i))
    <2>1. IsParsedNode(rule.nodes[i], i) /\ i \in 1..n /\ rule.nodes[i].kind = "subscope"
      BY <1>1, <1>4, <1>11
    <2>2. PICK kids : kids = rule.nodes[i].kids
      OBVIOUS
    <2>3. kids \in Seq(1..(i - 1)) /\ Len(kids) = 1
      BY <2>1, <2>2 DEF IsParsedNode
    <2>4. kids[1] \in 1..n
      <3>0. PICK below : below = 1..(i - 1)
        OBVIOUS
      <3>1. kids[1] \in below
        <4>1. kids \in Seq(below) /\ 1 \in 1..Len(kids)
          BY <2>3, <3>0
        <4> QED BY <4>1, ElementOfSeq
      <3> QED BY <1>1, <2>1, <3>0, <3>1
    <2>5. kids[1] \in DOMAIN rewritten
      BY <1>7, <2>4
    <2>6. /\ IsRule(spawn(i)) /\ spawn(i).root = kids[1] /\ spawn(i).nodes = rewritten
      BY <2>2 DEF IsRule
    <2> HIDE DEF spawn
    <2> QED BY <1>9, <2>5, <2>6 DEF Runnable
  <1>12. subs \in Seq(blocks)
    <2>1. all \in Seq(1..n)
      BY <1>1, <1>5
    <2>2. PICK M : M = ToSet(all) \cap blocks
      OBVIOUS
    <2>3. subs \in Seq(M) /\ M \subseteq blocks
      BY <1>6, <2>1, <2>2, KeptMembers
    <2> QED BY <2>3
  <1> HIDE DEF spawn
  <1>13. DOMAIN subs = 1..Len(subs) /\ Len(subs) \in Nat /\ \A k \in 1..Len(subs) : subs[k] \in blocks
    BY <1>12
  <1>14. \A r \in ToSet(parts.spawned) : Runnable(r)
    <2> SUFFICES ASSUME NEW k \in DOMAIN subs PROVE Runnable(spawn(subs[k]))
      BY <1>8 DEF ToSet
    <2> QED BY <1>11, <1>13
  <1>15. parts.spawned \in Seq(ToSet(parts.spawned))
    <2>1. PICK sp, m : sp = parts.spawned /\ m = Len(subs)
      OBVIOUS
    <2>2. m \in Nat /\ sp = [k \in 1..m |-> spawn(subs[k])]
      BY <1>8, <1>13, <2>1
    <2>3. \A k \in 1..m : sp[k] \in ToSet(sp)
      BY <2>2 DEF ToSet
    <2>4. sp = [k \in 1..m |-> sp[k]]
      BY <2>2
    <2>5. sp \in Seq(ToSet(sp))
      BY <2>2, <2>3, <2>4
    <2> QED BY <2>1, <2>5
  <1> QED BY <1>10, <1>14, <1>15

\* A list over its own members.
IsList(list) == list \in Seq(ToSet(list))

\* A sequence over any set is one over its own members.
LEMMA ListFacts ==
    ASSUME NEW S, NEW list \in Seq(S)
    PROVE  IsList(list)
  <1>n. PICK n : n = Len(list)
    OBVIOUS
  <1>1. n \in Nat /\ DOMAIN list = 1..n /\ list = [i \in 1..n |-> list[i]]
    BY <1>n
  <1>2. \A i \in 1..n : list[i] \in ToSet(list)
    BY <1>1 DEF ToSet
  <1> QED BY <1>1, <1>2 DEF IsList

\* The index by name and the index by namespace know the same rules.
Catalogued(book, spaces, list) ==
    /\ IsFiniteSet(DOMAIN book)
    /\ \A n \in DOMAIN book : book[n].name = n /\ \E i \in DOMAIN list : book[n] = list[i]
    /\ \A x \in DOMAIN spaces : ToSet(spaces[x]) \subseteq DOMAIN book
    /\ \A n \in DOMAIN book : \A x \in NamespaceHierarchy(book[n]) :
          x \in DOMAIN spaces /\ n \in ToSet(spaces[x])

\* index_rules: the two indices name the rules of the list, every one of them,
\* and a rule is found under each namespace above it.
LEMMA IndicesAgree ==
    ASSUME NEW list, IsList(list)
    PROVE  Catalogued(ByName(list), ByNamespace(list), list)
  <1>n. PICK n : n = Len(list)
    OBVIOUS
  <1>0. n \in Nat /\ DOMAIN list = 1..n /\ list \in Seq(ToSet(list))
    BY <1>n DEF IsList
  <1>b. PICK book : book = ByName(list)
    OBVIOUS
  <1>s. PICK spaces : spaces = ByNamespace(list)
    OBVIOUS
  <1>1. DOMAIN book = {list[i].name : i \in 1..n}
    BY <1>0, <1>b DEF ByName, NamesOf
  <1>2. IsFiniteSet(DOMAIN book)
    <2>1. IsFiniteSet(1..n)
      BY <1>0, FS_Interval
    <2>2. PICK f : f = [i \in 1..n |-> list[i].name]
      OBVIOUS
    <2>3. f \in Surjection(1..n, DOMAIN book)
      BY <1>1, <2>2 DEF Surjection
    <2> QED BY <2>1, <2>3, FS_Surjection
  <1>3. ASSUME NEW x \in DOMAIN book
        PROVE  book[x].name = x /\ \E i \in DOMAIN list : book[x] = list[i]
    <2>1. PICK i : i = CHOOSE j \in DOMAIN list : list[j].name = x
      OBVIOUS
    <2>2. i \in DOMAIN list /\ list[i].name = x
      BY <1>0, <1>1, <1>3, <2>1
    <2>3. book[x] = list[i]
      BY <1>3, <1>b, <2>1 DEF ByName
    <2> QED BY <2>2, <2>3
  <1>4. DOMAIN spaces = UNION {NamespaceHierarchy(list[i]) : i \in DOMAIN list}
    BY <1>s DEF ByNamespace
  <1>5. ASSUME NEW x \in DOMAIN spaces
        PROVE  /\ \A m \in ToSet(spaces[x]) : m \in DOMAIN book
               /\ \A i \in DOMAIN list : x \in NamespaceHierarchy(list[i]) =>
                     list[i].name \in ToSet(spaces[x])
    <2>1. PICK those : those = {r \in ToSet(list) : x \in NamespaceHierarchy(r)}
      OBVIOUS
    <2>2. PICK in : in = Kept(list, those)
      OBVIOUS
    <2>3. spaces[x] = [k \in DOMAIN in |-> in[k].name]
      BY <1>5, <1>s, <2>1, <2>2 DEF ByNamespace
    <2>4. /\ in \in Seq(ToSet(list) \cap those)
          /\ \A i \in DOMAIN list : list[i] \in those => \E j \in DOMAIN in : in[j] = list[i]
      BY <1>0, <2>2, KeptMembers
    <2>5. PICK M : M = ToSet(list) \cap those
      OBVIOUS
    <2>6. \A k \in DOMAIN in : in[k] \in M
      BY <2>4, <2>5
    <2>7. ASSUME NEW m \in ToSet(spaces[x]) PROVE m \in DOMAIN book
      <3>1. PICK k \in DOMAIN in : m = in[k].name
        BY <2>3, <2>7 DEF ToSet
      <3>2. in[k] \in ToSet(list)
        BY <2>5, <2>6
      <3>3. PICK i \in 1..n : in[k] = list[i]
        BY <1>0, <3>2 DEF ToSet
      <3> QED BY <1>1, <3>1, <3>3
    <2>8. ASSUME NEW i \in DOMAIN list, x \in NamespaceHierarchy(list[i])
          PROVE  list[i].name \in ToSet(spaces[x])
      <3>1. list[i] \in those
        BY <2>1, <2>8 DEF ToSet
      <3>2. PICK j \in DOMAIN in : in[j] = list[i]
        BY <2>4, <3>1
      <3>3. DOMAIN spaces[x] = DOMAIN in /\ spaces[x][j] = list[i].name
        BY <2>3, <3>2
      <3> QED BY <3>2, <3>3 DEF ToSet
    <2> QED BY <2>7, <2>8
  <1>6. ASSUME NEW m \in DOMAIN book, NEW x \in NamespaceHierarchy(book[m])
        PROVE  x \in DOMAIN spaces /\ m \in ToSet(spaces[x])
    <2>1. PICK i \in DOMAIN list : book[m] = list[i] /\ list[i].name = m
      BY <1>3
    <2>2. x \in NamespaceHierarchy(list[i])
      BY <1>6, <2>1
    <2>3. x \in DOMAIN spaces
      BY <1>4, <2>1, <2>2, Zenon
    <2> QED BY <1>5, <2>1, <2>2, <2>3
  <1>7. Catalogued(book, spaces, list)
    BY <1>2, <1>3, <1>5, <1>6 DEF Catalogued
  <1> QED BY <1>7, <1>b, <1>s

-----------------------------------------------------------------------------
(***************************************************************************)
(* The invariant                                                           *)
(***************************************************************************)

Early == {"extract", "index", "validate"}
Matched == {"match", "done"}

\* The rules are parsed ones until extraction and can be matched after it.
RulesReady ==
    /\ IsList(rules)
    /\ phase = "extract" => \A k \in DOMAIN rules : IsParsedRule(rules[k])
    /\ phase # "extract" => \A k \in DOMAIN rules : Matchable(rules[k])

IndicesCurrent ==
    phase \notin {"extract", "index", "failed"} =>
        by_name = ByName(rules) /\ by_namespace = ByNamespace(rules)

\* The orders, finished and unfinished, are lists of indexed rules.
OrdersKnown ==
    /\ phase \in Early => by_scope_topo = Empty
    /\ phase \notin Early \cup {"failed"} =>
          \A s \in DOMAIN by_scope_topo : by_scope_topo[s] \in Seq(DOMAIN by_name)
    /\ phase = "kahn" =>
          /\ DOMAIN deps \subseteq DOMAIN by_name /\ ready \subseteq DOMAIN by_name
          /\ sorted \in Seq(DOMAIN by_name)

NeedsCurrent ==
    phase \in Matched \cup {"built"} =>
        needs = [s \in DOMAIN by_scope_topo |->
                    [n \in ToSet(by_scope_topo[s]) |-> RuleNeed(by_name[n])]]

\* engine::match has visited seen and will visit the candidates.
Visiting(seen) ==
    /\ seen \in Seq(DOMAIN by_name) /\ candidates \in Seq(DOMAIN by_name)
    /\ [fs |-> fs, out |-> out] = Result(by_name, seen, input, Here)
    /\ mode = "index" => Pruned(by_name, Order(matched_scope), input, seen \o candidates)
    /\ mode = "gate" => Gated(by_name, Order("file"), seen \o candidates)

MatchProgress ==
    /\ phase \notin Matched => out = Empty
    /\ phase \in Matched => \E seen : Visiting(seen)
    /\ phase = "done" => candidates = <<>>

MatchInv == RulesReady /\ IndicesCurrent /\ OrdersKnown /\ NeedsCurrent /\ MatchProgress

\* The corpus handed over satisfies the invariant.
LEMMA InitMatch ==
    ASSUME rules \in Corpora, MatchInit
    PROVE  MatchInv
  <1>1. phase = "extract" /\ by_scope_topo = Empty /\ out = Empty
    BY DEF MatchInit, NothingBuilt
  <1>2. IsList(rules) /\ \A k \in DOMAIN rules : IsParsedRule(rules[k])
    BY CorporaAssumption DEF IsList
  <1> QED BY <1>1, <1>2 DEF MatchInv, RulesReady, IndicesCurrent, OrdersKnown, NeedsCurrent,
                            MatchProgress, Early, Matched

\* extract_subscope_rules
LEMMA ExtractKeeps ==
    ASSUME MatchInv, ExtractSubscopeRules, UNCHANGED matchVars
    PROVE  MatchInv'
  <1>1. phase = "extract" /\ phase' = "index" /\ by_scope_topo' = by_scope_topo /\ out' = out
    BY DEF ExtractSubscopeRules, matchVars
  <1>2. IsList(rules) /\ \A k \in DOMAIN rules : IsParsedRule(rules[k])
    BY <1>1 DEF MatchInv, RulesReady
  <1>n. PICK n : n = Len(rules)
    OBVIOUS
  <1>3. n \in Nat /\ DOMAIN rules = 1..n
    BY <1>2, <1>n DEF IsList
  <1>4. PICK parts : parts = [i \in 1..n |-> ExtractFrom(rules[i])]
    OBVIOUS
  <1>5. PICK own, spawned : /\ own = [i \in 1..n |-> parts[i].rule]
                            /\ spawned = [i \in 1..n |-> parts[i].spawned]
    OBVIOUS
  <1>6. PICK more : more = FlattenSeq(spawned)
    OBVIOUS
  <1>7. PICK all : all = own \o more
    OBVIOUS
  <1>8. rules' = [i \in DOMAIN all |-> Optimized(all[i])]
    BY <1>3, <1>4, <1>5, <1>6, <1>7 DEF ExtractSubscopeRules
  <1>9. PICK S : S = {parts[i].rule : i \in 1..n} \cup UNION {ToSet(parts[i].spawned) : i \in 1..n}
    OBVIOUS
  <1>10. ASSUME NEW i \in 1..n
         PROVE  /\ Runnable(parts[i].rule)
                /\ parts[i].spawned \in Seq(ToSet(parts[i].spawned))
                /\ \A r \in ToSet(parts[i].spawned) : Runnable(r)
    BY <1>2, <1>3, <1>4, Extracted
  <1>11. ASSUME NEW r \in S PROVE Runnable(r)
    <2>1. CASE r \in {parts[i].rule : i \in 1..n}
      BY <1>10, <2>1
    <2>2. CASE r \in UNION {ToSet(parts[i].spawned) : i \in 1..n}
      <3>1. PICK i \in 1..n : r \in ToSet(parts[i].spawned)
        BY <2>2
      <3> QED BY <1>10, <3>1
    <2> QED BY <1>9, <1>11, <2>1, <2>2
  <1>12. own \in Seq(S)
    <2>1. \A i \in 1..n : own[i] \in S
      BY <1>5, <1>9
    <2> QED BY <1>3, <1>5, <2>1
  <1>13. more \in Seq(S)
    <2>1. ASSUME NEW i \in 1..n PROVE spawned[i] \in Seq(S)
      <3>1. PICK T : T = ToSet(parts[i].spawned)
        OBVIOUS
      <3>2. T \subseteq S
        BY <1>9, <3>1, Zenon
      <3>3. spawned[i] \in Seq(T)
        BY <1>5, <1>10, <3>1
      <3> QED BY <3>2, <3>3, SeqMonotonic
    <2>2. Len(spawned) = n /\ DOMAIN spawned = 1..n
      BY <1>3, <1>5
    <2>3. n = 0 => spawned = <<>>
      BY <1>3, <1>5
    <2> QED BY <1>3, <1>6, <2>1, <2>2, <2>3, FlattenType
  <1>14. all \in Seq(S)
    BY <1>7, <1>12, <1>13
  <1>15. PICK m : m = Len(all)
    OBVIOUS
  <1>16. m \in Nat /\ DOMAIN all = 1..m /\ \A i \in 1..m : all[i] \in S
    BY <1>14, <1>15
  <1>17. \A i \in 1..m : Matchable(Optimized(all[i]))
    BY <1>11, <1>16, OptimizedMatchable
  <1>18. PICK R : R = {Optimized(all[i]) : i \in 1..m}
    OBVIOUS
  <1>19. rules' \in Seq(R)
    BY <1>8, <1>16, <1>18
  <1>20. IsList(rules')
    BY <1>19, ListFacts
  <1>21. \A k \in DOMAIN rules' : Matchable(rules'[k])
    BY <1>8, <1>16, <1>17
  <1>22. RulesReady'
    BY <1>1, <1>20, <1>21 DEF RulesReady
  <1> QED BY <1>1, <1>22 DEF MatchInv, IndicesCurrent, OrdersKnown, NeedsCurrent, MatchProgress,
                            Early, Matched

\* index_rules
LEMMA IndexKeeps ==
    ASSUME MatchInv, IndexRules, UNCHANGED matchVars
    PROVE  MatchInv'
  <1>1. /\ phase = "index" /\ phase' \in {"validate", "failed"} /\ rules' = rules
        /\ by_scope_topo' = by_scope_topo /\ out' = out
        /\ phase' # "failed" => by_name' = ByName(rules) /\ by_namespace' = ByNamespace(rules)
    BY DEF IndexRules, matchVars
  <1>2. RulesReady' /\ IndicesCurrent'
    BY <1>1 DEF MatchInv, RulesReady, IndicesCurrent
  <1>3. OrdersKnown' /\ NeedsCurrent' /\ MatchProgress'
    BY <1>1 DEF MatchInv, OrdersKnown, NeedsCurrent, MatchProgress, Early, Matched
  <1> QED BY <1>2, <1>3 DEF MatchInv

\* validate_dependencies
LEMMA ValidateKeeps ==
    ASSUME MatchInv, ValidateDependencies, UNCHANGED matchVars
    PROVE  MatchInv'
  <1>1. PICK keep : keep = {r \in ToSet(rules) : \A ref \in RefsOf(r) : Resolves(ref)}
    OBVIOUS
  <1>2. /\ phase = "validate" /\ phase' = "group" /\ rules' = Kept(rules, keep)
        /\ by_name' = ByName(rules') /\ by_namespace' = ByNamespace(rules')
        /\ by_scope_topo' = by_scope_topo /\ out' = out
    BY <1>1 DEF ValidateDependencies, matchVars
  <1>3. /\ rules \in Seq(ToSet(rules)) /\ \A k \in DOMAIN rules : Matchable(rules[k])
    BY <1>2 DEF MatchInv, RulesReady, IsList
  <1>4. \A r \in ToSet(rules) : Matchable(r)
    BY <1>3 DEF ToSet
  <1>5. PICK M : M = ToSet(rules) \cap keep
    OBVIOUS
  <1>6. rules' \in Seq(M)
    BY <1>2, <1>3, <1>5, KeptMembers
  <1>7. IsList(rules')
    BY <1>6, ListFacts
  <1>8. \A k \in DOMAIN rules' : rules'[k] \in M
    BY <1>6
  <1>9. RulesReady'
    BY <1>2, <1>4, <1>5, <1>7, <1>8 DEF RulesReady
  <1>10. IndicesCurrent'
    BY <1>2 DEF IndicesCurrent
  <1>11. OrdersKnown'
    BY <1>2 DEF MatchInv, OrdersKnown, Early, Empty
  <1>12. NeedsCurrent' /\ MatchProgress'
    BY <1>2 DEF MatchInv, NeedsCurrent, MatchProgress, Matched
  <1> QED BY <1>9, <1>10, <1>11, <1>12 DEF MatchInv

\* The steps of the sort and the build of the index.
LEMMA SortKeeps ==
    ASSUME MatchInv, StartScope \/ PopReady \/ FinishScope \/ BuildIndex, UNCHANGED matchVars
    PROVE  MatchInv'
  <1>1. /\ phase \in {"group", "kahn"} /\ phase' \in {"group", "kahn", "built", "failed"}
        /\ UNCHANGED <<rules, by_name, by_namespace>> /\ out' = out
    BY DEF StartScope, PopReady, FinishScope, BuildIndex, indexVars, matchVars
  <1>2. RulesReady' /\ IndicesCurrent'
    BY <1>1 DEF MatchInv, RulesReady, IndicesCurrent
  <1>3. MatchProgress'
    BY <1>1 DEF MatchInv, MatchProgress, Matched
  <1>4. PICK D : D = DOMAIN by_name
    OBVIOUS
  <1>5. \A s \in DOMAIN by_scope_topo : by_scope_topo[s] \in Seq(D)
    BY <1>1, <1>4 DEF MatchInv, OrdersKnown, Early
  <1>6. CASE StartScope
    <2>1. PICK s \in unsorted : /\ deps' = [n \in Group(s) |-> DependsOn(n, s)]
                                /\ ready' = {n \in Group(s) : indegree'[n] = 0}
      BY <1>6 DEF StartScope
    <2>2. phase' = "kahn" /\ by_scope_topo' = by_scope_topo /\ sorted' = <<>>
      BY <1>6 DEF StartScope
    <2>3. Group(s) \subseteq D
      BY <1>4 DEF Group
    <2>4. DOMAIN deps' \subseteq D /\ ready' \subseteq D /\ sorted' \in Seq(D)
      BY <2>1, <2>2, <2>3
    <2>5. OrdersKnown' /\ NeedsCurrent'
      BY <1>1, <1>4, <1>5, <2>2, <2>4 DEF OrdersKnown, NeedsCurrent, Early, Matched
    <2> QED BY <1>2, <1>3, <2>5 DEF MatchInv
  <1>7. CASE PopReady
    <2>1. phase = "kahn" /\ phase' = "kahn" /\ by_scope_topo' = by_scope_topo /\ deps' = deps
      BY <1>7 DEF PopReady
    <2>2. PICK r \in ready : Pop(r)
      BY <1>7 DEF PopReady
    <2>3. DOMAIN deps \subseteq D /\ ready \subseteq D /\ sorted \in Seq(D)
      BY <1>4, <2>1 DEF MatchInv, OrdersKnown
    <2>4. sorted' = Append(sorted, r) /\ ready' \subseteq ready \cup DOMAIN deps
      BY <2>2 DEF Pop, Successors
    <2>5. ready' \subseteq D /\ sorted' \in Seq(D)
      BY <2>2, <2>3, <2>4
    <2>6. OrdersKnown' /\ NeedsCurrent'
      BY <1>1, <1>4, <1>5, <2>1, <2>3, <2>5 DEF OrdersKnown, NeedsCurrent, Early, Matched
    <2> QED BY <1>2, <1>3, <2>6 DEF MatchInv
  <1>8. CASE FinishScope
    <2>1. phase = "kahn" /\ phase' \in {"group", "failed"}
      BY <1>8 DEF FinishScope
    <2>2. sorted \in Seq(D)
      BY <1>4, <2>1 DEF MatchInv, OrdersKnown
    <2>3. phase' # "failed" =>
             by_scope_topo' = [s \in DOMAIN by_scope_topo \cup {scope} |->
                                  IF s = scope THEN sorted ELSE by_scope_topo[s]]
      BY <1>8 DEF FinishScope
    <2>4. phase' # "failed" => \A s \in DOMAIN by_scope_topo' : by_scope_topo'[s] \in Seq(D)
      BY <1>5, <2>2, <2>3
    <2>5. OrdersKnown' /\ NeedsCurrent'
      BY <1>1, <1>4, <2>1, <2>4 DEF OrdersKnown, NeedsCurrent, Early, Matched
    <2> QED BY <1>2, <1>3, <2>5 DEF MatchInv
  <1>9. CASE BuildIndex
    <2>1. /\ phase' = "built" /\ by_scope_topo' = by_scope_topo
          /\ needs' = [s \in DOMAIN by_scope_topo |->
                          [n \in ToSet(by_scope_topo[s]) |-> RuleNeed(by_name[n])]]
      BY <1>9 DEF BuildIndex, RuleNeed
    <2>2. NeedsCurrent'
      BY <1>1, <2>1 DEF NeedsCurrent
    <2>3. OrdersKnown'
      BY <1>1, <1>4, <1>5, <2>1 DEF OrdersKnown, Early
    <2> QED BY <1>2, <1>3, <2>2, <2>3 DEF MatchInv
  <1> QED BY <1>6, <1>7, <1>8, <1>9

\* What the built indices say of the rules.
LEMMA BuiltFacts ==
    ASSUME MatchInv, phase \in Matched \cup {"built"}
    PROVE  /\ Catalogued(by_name, by_namespace, rules)
           /\ \A n \in DOMAIN by_name : Matchable(by_name[n])
           /\ \A s : Order(s) \in Seq(DOMAIN by_name)
  <1>1. Catalogued(by_name, by_namespace, rules)
    BY IndicesAgree DEF MatchInv, RulesReady, IndicesCurrent, Matched
  <1>2. \A k \in DOMAIN rules : Matchable(rules[k])
    BY DEF MatchInv, RulesReady, Matched
  <1>3. \A n \in DOMAIN by_name : Matchable(by_name[n])
    BY <1>1, <1>2 DEF Catalogued
  <1>4. \A s \in DOMAIN by_scope_topo : by_scope_topo[s] \in Seq(DOMAIN by_name)
    BY DEF MatchInv, OrdersKnown, Early, Matched
  <1>5. \A s : Order(s) \in Seq(DOMAIN by_name)
    <2> TAKE s
    <2>1. CASE s \in DOMAIN by_scope_topo
      BY <1>4, <2>1 DEF Order
    <2>2. CASE s \notin DOMAIN by_scope_topo
      BY <2>2, EmptySeq DEF Order
    <2> QED BY <2>1, <2>2
  <1> QED BY <1>1, <1>3, <1>5

\* The index leaves out only hopeless rules.
LEMMA SelectPrunes ==
    ASSUME MatchInv, phase = "built", NEW s \in DOMAIN by_scope_topo, NEW feats
    PROVE  Pruned(by_name, Order(s), feats, Select(s, feats))
  <1>1. PICK keep : keep = {n \in ToSet(Order(s)) : needs[s][n] = {} \/ needs[s][n] \cap DOMAIN feats # {}}
    OBVIOUS
  <1>2. Select(s, feats) = Kept(Order(s), keep)
    BY <1>1 DEF Select
  <1>3. needs = [t \in DOMAIN by_scope_topo |->
                    [n \in ToSet(by_scope_topo[t]) |-> RuleNeed(by_name[n])]]
    BY DEF MatchInv, NeedsCurrent
  <1>4. \A n \in ToSet(Order(s)) : needs[s][n] = RuleNeed(by_name[n])
    BY <1>3 DEF Order
  <1>5. \A n \in ToSet(Order(s)) \ keep : Hopeless(by_name[n], feats)
    BY <1>1, <1>4 DEF Hopeless
  <1> QED BY <1>2, <1>5 DEF Pruned

\* The gate keeps the limitations and all that its rules refer to.
LEMMA ClosureGates ==
    ASSUME MatchInv, phase = "built"
    PROVE  Gated(by_name, Order("file"), LimitationGateRules)
  <1>1. /\ Catalogued(by_name, by_namespace, rules) /\ Order("file") \in Seq(DOMAIN by_name)
    BY BuiltFacts
  <1>2. PICK keep : keep = GateClosure
    OBVIOUS
  <1>3. PICK reach : reach = [n \in DOMAIN by_name |-> Reached(n)]
    OBVIOUS
  <1>4. PICK seed : seed = {n \in ToSet(Order("file")) : IsLimitation(by_name[n])}
    OBVIOUS
  <1>5. DOMAIN reach = DOMAIN by_name /\ \A n \in DOMAIN by_name : reach[n] = Reached(n)
    BY <1>3
  <1>6. keep = Grown(reach, seed)[Cardinality(DOMAIN reach)]
    BY <1>2, <1>3, <1>4, <1>5 DEF GateClosure
  <1>7. ToSet(Order("file")) \subseteq DOMAIN by_name
    BY <1>1 DEF ToSet
  <1>8. ASSUME NEW n \in DOMAIN by_name, NEW m
        PROVE  m \in Reached(n) <=>
                  \E ref \in RefsOf(by_name[n]) :
                     \/ m = ref /\ ref \in DOMAIN by_name
                     \/ ref \in DOMAIN by_namespace /\ m \in ToSet(by_namespace[ref])
    <2> DEFINE Found(ref) == ({ref} \cap DOMAIN by_name)
                 \cup (IF ref \in DOMAIN by_namespace THEN ToSet(by_namespace[ref]) ELSE {})
    <2>1. Reached(n) = UNION {Found(ref) : ref \in RefsOf(by_name[n])}
      BY DEF Reached
    <2>2. \A ref : m \in Found(ref) <=> \/ m = ref /\ ref \in DOMAIN by_name
                                        \/ ref \in DOMAIN by_namespace /\ m \in ToSet(by_namespace[ref])
      OBVIOUS
    <2> HIDE DEF Found
    <2>3. m \in UNION {Found(ref) : ref \in RefsOf(by_name[n])}
             <=> \E ref \in RefsOf(by_name[n]) : m \in Found(ref)
      BY Zenon
    <2> QED BY <2>1, <2>2, <2>3
  <1>9. \A n \in DOMAIN by_name : Reached(n) \subseteq DOMAIN by_name
    BY <1>1, <1>8 DEF Catalogued
  <1>10. /\ seed \subseteq keep /\ keep \subseteq DOMAIN by_name
         /\ \A n \in keep : Reached(n) \subseteq keep
    <2>1. IsFiniteSet(DOMAIN reach)
      BY <1>1, <1>5 DEF Catalogued
    <2>2. \A n \in DOMAIN reach : reach[n] \subseteq DOMAIN reach
      BY <1>5, <1>9
    <2>3. seed \subseteq DOMAIN reach
      BY <1>4, <1>5, <1>7
    <2>4. /\ seed \subseteq keep /\ keep \subseteq DOMAIN reach
          /\ \A n \in keep : reach[n] \subseteq keep
      BY <1>6, <2>1, <2>2, <2>3, GrowthCloses
    <2> QED BY <1>5, <2>4
  <1>11. ASSUME NEW n \in keep, NEW m \in DOMAIN by_name,
                KnownAs(by_name[m]) \cap RefsOf(by_name[n]) # {}
         PROVE  m \in keep
    <2>1. PICK x \in RefsOf(by_name[n]) : x = by_name[m].name \/ x \in NamespaceHierarchy(by_name[m])
      BY <1>11 DEF KnownAs
    <2>2. n \in DOMAIN by_name
      BY <1>10
    <2>3. CASE x = by_name[m].name
      <3>1. x = m
        BY <1>1, <2>3 DEF Catalogued
      <3> QED BY <1>8, <1>10, <2>1, <2>2, <3>1
    <2>4. CASE x \in NamespaceHierarchy(by_name[m])
      <3>1. x \in DOMAIN by_namespace /\ m \in ToSet(by_namespace[x])
        BY <1>1, <2>4 DEF Catalogued
      <3> QED BY <1>8, <1>10, <2>1, <2>2, <3>1
    <2> QED BY <2>1, <2>3, <2>4
  <1>12. \A n \in ToSet(Order("file")) : IsLimitation(by_name[n]) => n \in keep
    BY <1>4, <1>10
  <1>13. LimitationGateRules = Kept(Order("file"), keep)
    BY <1>2 DEF LimitationGateRules
  <1>14. \A n \in keep \cap ToSet(Order("file")), m \in ToSet(Order("file")) :
            KnownAs(by_name[m]) \cap RefsOf(by_name[n]) # {} => m \in keep
    BY <1>7, <1>11
  <1> QED BY <1>12, <1>13, <1>14 DEF Gated

\* A match starts with nothing visited.
LEMMA StartKeeps ==
    ASSUME MatchInv, NEW how, NEW s, NEW feats, NEW list, StartMatch(how, s, feats, list),
           list \in Seq(DOMAIN by_name),
           how = "index" => Pruned(by_name, Order(s), feats, list),
           how = "gate" => Gated(by_name, Order("file"), list)
    PROVE  MatchInv'
  <1>1. /\ phase = "built" /\ phase' = "match" /\ mode' = how /\ matched_scope' = s
        /\ input' = feats /\ fs' = feats /\ candidates' = list /\ out' = out
        /\ UNCHANGED <<rules, by_name, by_namespace, by_scope_topo, needs>>
    BY DEF StartMatch, indexVars
  <1>2. out = Empty
    BY <1>1 DEF MatchInv, MatchProgress, Matched
  <1>3. RulesReady' /\ IndicesCurrent'
    BY <1>1 DEF MatchInv, RulesReady, IndicesCurrent
  <1>4. OrdersKnown' /\ NeedsCurrent'
    BY <1>1 DEF MatchInv, OrdersKnown, NeedsCurrent, Early, Matched
  <1>5. [fs |-> fs', out |-> out'] = Result(by_name, <<>>, feats, Here)
    BY <1>1, <1>2, MatchNothing DEF NothingMatched
  <1>6. <<>> \o list = list /\ <<>> \in Seq(DOMAIN by_name)
    BY ConcatEmptySeq, EmptySeq
  <1>7. \A t : Order(t)' = Order(t)
    BY <1>1 DEF Order
  <1>8. Visiting(<<>>)'
    BY <1>1, <1>5, <1>6, <1>7 DEF Visiting
  <1>9. MatchProgress'
    BY <1>1, <1>8 DEF MatchProgress, Matched
  <1> QED BY <1>3, <1>4, <1>9 DEF MatchInv

\* The next element moves from the rest to what went before.
LEMMA MoveOn ==
    ASSUME NEW S, NEW a \in Seq(S), NEW c \in Seq(S), c # <<>>
    PROVE  Append(a, Head(c)) \o Tail(c) = a \o c
  <1>1. PICK h, t : h = Head(c) /\ t = Tail(c)
    OBVIOUS
  <1>2. h \in S /\ t \in Seq(S) /\ <<h>> \in Seq(S)
    BY <1>1
  <1>3. <<h>> \o t = c
    <2>1. /\ Len(c) \in Nat /\ Len(c) # 0 /\ c[1] = h /\ Len(t) = Len(c) - 1
          /\ \A i \in 1..Len(t) : t[i] = c[i + 1]
      BY <1>1, HeadTailProperties
    <2>2. PICK d : d = <<h>> \o t
      OBVIOUS
    <2>3. /\ d \in Seq(S) /\ Len(d) = 1 + Len(t)
          /\ \A i \in 1..(1 + Len(t)) : d[i] = IF i <= 1 THEN h ELSE t[i - 1]
      BY <1>2, <2>2
    <2>4. Len(d) = Len(c)
      BY <2>1, <2>3
    <2>5. ASSUME NEW i \in 1..Len(d) PROVE d[i] = c[i]
      <3>1. CASE i = 1
        BY <2>1, <2>3, <3>1
      <3>2. CASE i # 1
        <4>1. PICK k \in 1..Len(t) : k = i - 1 /\ i = k + 1
          BY <2>1, <2>3, <3>2
        <4>2. d[i] = t[k] /\ t[k] = c[k + 1]
          BY <2>1, <2>3, <3>2, <4>1
        <4> QED BY <4>1, <4>2
      <3> QED BY <3>1, <3>2
    <2>6. d = c
      BY <2>3, <2>4, <2>5, SeqEqual
    <2> QED BY <2>2, <2>6
  <1>4. Append(a, h) = a \o <<h>>
    BY <1>2, AppendIsConcat
  <1>5. (a \o <<h>>) \o t = a \o (<<h>> \o t)
    BY <1>2, ConcatAssociative
  <1> QED BY <1>1, <1>3, <1>4, <1>5

\* One turn of the loop of engine::match.
LEMMA VisitKeeps ==
    ASSUME MatchInv, Visit
    PROVE  MatchInv'
  <1>1. PICK name, new : /\ name = Head(candidates)
                         /\ new = VisitRule(by_name, [fs |-> fs, out |-> out], name, Here)
    OBVIOUS
  <1>2. /\ phase = "match" /\ phase' = "match" /\ candidates # <<>> /\ candidates' = Tail(candidates)
        /\ fs' = new.fs /\ out' = new.out
        /\ UNCHANGED <<rules, by_name, by_namespace, by_scope_topo, needs, mode, matched_scope, input>>
    BY <1>1 DEF Visit, buildVars, indexVars
  <1>3. RulesReady' /\ IndicesCurrent'
    BY <1>2 DEF MatchInv, RulesReady, IndicesCurrent
  <1>4. OrdersKnown' /\ NeedsCurrent'
    BY <1>2 DEF MatchInv, OrdersKnown, NeedsCurrent, Early, Matched
  <1>5. PICK seen : Visiting(seen)
    BY <1>2 DEF MatchInv, MatchProgress, Matched
  <1>6. PICK D : D = DOMAIN by_name
    OBVIOUS
  <1>7. /\ seen \in Seq(D) /\ candidates \in Seq(D)
        /\ [fs |-> fs, out |-> out] = Result(by_name, seen, input, Here)
    BY <1>5, <1>6 DEF Visiting
  <1>8. name \in D /\ Tail(candidates) \in Seq(D)
    BY <1>1, <1>2, <1>7
  <1>9. PICK more : more = Append(seen, name)
    OBVIOUS
  <1>10. more \in Seq(D) /\ more \o Tail(candidates) = seen \o candidates
    <2>1. more \in Seq(D)
      BY <1>7, <1>8, <1>9
    <2>2. more \o Tail(candidates) = seen \o candidates
      BY <1>1, <1>2, <1>7, <1>9, MoveOn
    <2> QED BY <2>1, <2>2
  <1>11. new = Result(by_name, more, input, Here)
    BY <1>1, <1>7, <1>8, <1>9, MatchAppend
  <1>12. new = [fs |-> new.fs, out |-> new.out]
    BY <1>1 DEF VisitRule
  <1>13. \A t : Order(t)' = Order(t)
    BY <1>2 DEF Order
  <1>14. [fs |-> fs', out |-> out'] = Result(by_name, more, input, Here)
    BY <1>2, <1>11, <1>12
  <1>15. Visiting(more)'
    BY <1>2, <1>5, <1>6, <1>8, <1>10, <1>13, <1>14 DEF Visiting
  <1>16. MatchProgress'
    BY <1>2, <1>15 DEF MatchProgress, Matched
  <1> QED BY <1>3, <1>4, <1>16 DEF MatchInv

\* The end of engine::match, and a stutter.
LEMMA ReturnKeeps ==
    ASSUME MatchInv,
           \/ ReturnMatches
           \/ UNCHANGED <<buildVars, matchVars>>
    PROVE  MatchInv'
  <1>1. /\ UNCHANGED <<rules, by_name, by_namespace, by_scope_topo, needs>>
        /\ UNCHANGED <<mode, matched_scope, input, fs, candidates, out>>
        /\ \/ phase = "match" /\ phase' = "done" /\ candidates = <<>>
           \/ phase' = phase /\ UNCHANGED <<deps, ready, sorted>>
    BY DEF ReturnMatches, buildVars, indexVars, kahnVars, matchVars
  <1>2. RulesReady' /\ IndicesCurrent'
    BY <1>1 DEF MatchInv, RulesReady, IndicesCurrent
  <1>3. OrdersKnown' /\ NeedsCurrent'
    BY <1>1 DEF MatchInv, OrdersKnown, NeedsCurrent, Early, Matched
  <1>4. \A t : Order(t)' = Order(t)
    BY <1>1 DEF Order
  <1>5. ASSUME NEW seen, Visiting(seen) PROVE Visiting(seen)'
    BY <1>1, <1>4, <1>5 DEF Visiting
  <1>6. MatchProgress'
    BY <1>1, <1>5 DEF MatchInv, MatchProgress, Matched
  <1> QED BY <1>2, <1>3, <1>6 DEF MatchInv

\* Every step keeps the invariant.
LEMMA StepMatch ==
    ASSUME MatchInv, [MatchNext]_<<buildVars, matchVars>>
    PROVE  MatchInv'
  <1>1. CASE Build
    BY <1>1, ExtractKeeps, IndexKeeps, ValidateKeeps, SortKeeps DEF Build, BuildNext
  <1>2. CASE MatchScope
    <2>1. PICK s \in DOMAIN by_scope_topo, feats \in FeatureSets :
             StartMatch("index", s, feats, Select(s, feats))
      BY <1>2 DEF MatchScope
    <2>2. phase = "built"
      BY <2>1 DEF StartMatch
    <2>3. PICK list : list = Select(s, feats)
      OBVIOUS
    <2>4. Order(s) \in Seq(DOMAIN by_name)
      BY <2>2, BuiltFacts
    <2>5. PICK keep : list = Kept(Order(s), keep)
      BY <2>3 DEF Select
    <2>6. list \in Seq(DOMAIN by_name)
      <3>1. PICK M : M = ToSet(Order(s)) \cap keep
        OBVIOUS
      <3>2. list \in Seq(M)
        BY <2>4, <2>5, <3>1, KeptMembers
      <3>3. M \subseteq DOMAIN by_name
        BY <2>4, <3>1 DEF ToSet
      <3> QED BY <3>2, <3>3, SeqMonotonic
    <2>7. Pruned(by_name, Order(s), feats, list)
      BY <2>2, <2>3, SelectPrunes
    <2> QED BY <2>1, <2>3, <2>6, <2>7, StartKeeps
  <1>3. CASE MatchGate
    <2>1. PICK feats \in FeatureSets : StartMatch("gate", "file", feats, LimitationGateRules)
      BY <1>3 DEF MatchGate
    <2>2. phase = "built"
      BY <2>1 DEF StartMatch
    <2>3. PICK list : list = LimitationGateRules
      OBVIOUS
    <2>4. Order("file") \in Seq(DOMAIN by_name)
      BY <2>2, BuiltFacts
    <2>5. PICK keep : list = Kept(Order("file"), keep)
      BY <2>3 DEF LimitationGateRules
    <2>6. list \in Seq(DOMAIN by_name)
      <3>1. PICK M : M = ToSet(Order("file")) \cap keep
        OBVIOUS
      <3>2. list \in Seq(M)
        BY <2>4, <2>5, <3>1, KeptMembers
      <3>3. M \subseteq DOMAIN by_name
        BY <2>4, <3>1 DEF ToSet
      <3> QED BY <3>2, <3>3, SeqMonotonic
    <2>7. Gated(by_name, Order("file"), list)
      BY <2>2, <2>3, ClosureGates
    <2> QED BY <2>1, <2>3, <2>6, <2>7, StartKeeps
  <1>4. CASE Visit
    BY <1>4, VisitKeeps
  <1>5. CASE ReturnMatches \/ UNCHANGED <<buildVars, matchVars>>
    BY <1>5, ReturnKeeps
  <1> QED BY <1>1, <1>2, <1>3, <1>4, <1>5 DEF MatchNext

\* The invariant holds of every behaviour that builds a rule set and matches it.
THEOREM MatchInvariant == MatchSpec => []MatchInv
  <1>1. rules \in Corpora /\ MatchInit => MatchInv
    BY InitMatch
  <1>2. MatchInv /\ [MatchNext]_<<buildVars, matchVars>> => MatchInv'
    BY StepMatch
  <1> QED BY <1>1, <1>2, PTL DEF MatchSpec

\* Pruning by the feature index changes neither the matches nor their locations
\* nor the published features, for every corpus and every feature set.
THEOREM IndexIsSound == MatchSpec => []IndexLosesNoMatch
  <1>1. MatchInv => IndexLosesNoMatch
    <2> SUFFICES ASSUME MatchInv, phase = "done", mode = "index"
                 PROVE  [fs |-> fs, out |-> out] = FullMatch(matched_scope, input)
      BY DEF IndexLosesNoMatch
    <2>1. /\ \A n \in DOMAIN by_name : Matchable(by_name[n])
          /\ Order(matched_scope) \in Seq(DOMAIN by_name)
      BY BuiltFacts DEF Matched
    <2>2. candidates = <<>>
      BY DEF MatchInv, MatchProgress
    <2>3. PICK seen : Visiting(seen)
      BY DEF MatchInv, MatchProgress, Matched
    <2>4. seen \o candidates = seen
      BY <2>2, <2>3, ConcatEmptySeq DEF Visiting
    <2>5. /\ [fs |-> fs, out |-> out] = Result(by_name, seen, input, Here)
          /\ Pruned(by_name, Order(matched_scope), input, seen)
      BY <2>3, <2>4 DEF Visiting
    <2>6. Result(by_name, seen, input, Here) = Result(by_name, Order(matched_scope), input, Here)
      BY <2>1, <2>5, PrunedSame
    <2> QED BY <2>5, <2>6 DEF FullMatch, EngineMatch, Result
  <1> QED BY <1>1, MatchInvariant, PTL

\* The limitation gate gives the verdict of the full file pass, for every
\* corpus and every feature set.
THEOREM GateIsSound == MatchSpec => []GateAgrees
  <1>1. MatchInv => GateAgrees
    <2> SUFFICES ASSUME MatchInv, phase = "done", mode = "gate"
                 PROVE  HasStaticLimitation(out) = HasStaticLimitation(FullMatch("file", input).out)
      BY DEF GateAgrees
    <2>1. /\ \A n \in DOMAIN by_name : Matchable(by_name[n])
          /\ Order("file") \in Seq(DOMAIN by_name)
      BY BuiltFacts DEF Matched
    <2>2. candidates = <<>>
      BY DEF MatchInv, MatchProgress
    <2>3. PICK seen : Visiting(seen)
      BY DEF MatchInv, MatchProgress, Matched
    <2>4. seen \o candidates = seen
      BY <2>2, <2>3, ConcatEmptySeq DEF Visiting
    <2>5. /\ [fs |-> fs, out |-> out] = Result(by_name, seen, input, Here)
          /\ Gated(by_name, Order("file"), seen)
      BY <2>3, <2>4 DEF Visiting
    <2>6. PICK part, whole : /\ part = Result(by_name, seen, input, Here)
                             /\ whole = Result(by_name, Order("file"), input, Here)
      OBVIOUS
    <2>7. (\E n \in DOMAIN part.out : IsLimitation(by_name[n]))
             <=> (\E n \in DOMAIN whole.out : IsLimitation(by_name[n]))
      BY <2>1, <2>5, <2>6, GatedSame
    <2>8. out = part.out
      BY <2>5, <2>6
    <2>9. FullMatch("file", input) = whole
      BY <2>6 DEF FullMatch, EngineMatch, Result
    <2> QED BY <2>7, <2>8, <2>9 DEF HasStaticLimitation
  <1> QED BY <1>1, MatchInvariant, PTL

-----------------------------------------------------------------------------
(***************************************************************************)
(* The sort                                                                *)
(***************************************************************************)

SortedSet == ToSet(sorted)

SortTypes ==
    /\ deps \in [DOMAIN deps -> SUBSET DOMAIN deps]
    /\ indegree = [n \in DOMAIN deps |-> indegree[n]]
    /\ sorted \in Seq(DOMAIN deps)

\* The heap holds exactly the unsorted rules that wait for nothing.
ReadyExact == ready = {n \in DOMAIN deps : n \notin SortedSet /\ indegree[n] = 0}

SortedOnce == \A i, j \in DOMAIN sorted : sorted[i] = sorted[j] => i = j

CycleLeft ==
    error = "cycle" => ready = {} /\ Len(sorted) # Cardinality(DOMAIN deps)

SortInv ==
    /\ SortTypes
    /\ IndegreeCounts
    /\ ReadyExact
    /\ SortedOnce
    /\ DepsSortedFirst

\* The inductive invariant of the sort: the group is finite, since the corpus
\* is, an error fails the build, and Kahn's bookkeeping is right.
KahnInv ==
    /\ IsFiniteSet(DOMAIN deps)
    /\ (phase = "failed") = (error # "none")
    /\ SortInv /\ CycleLeft

\* A sequence extended by one element has that element more.
LEMMA ToSetAppend ==
    ASSUME NEW S, NEW s \in Seq(S), NEW e \in S
    PROVE  /\ Append(s, e) \in Seq(S)
           /\ ToSet(Append(s, e)) = ToSet(s) \cup {e}
           /\ DOMAIN Append(s, e) = 1..(Len(s) + 1)
           /\ DOMAIN s = 1..Len(s)
           /\ \A i \in DOMAIN s : Append(s, e)[i] = s[i]
           /\ Append(s, e)[Len(s) + 1] = e
  <1>1. /\ Append(s, e) \in Seq(S)
        /\ DOMAIN Append(s, e) = 1..(Len(s) + 1)
        /\ DOMAIN s = 1..Len(s)
        /\ \A i \in DOMAIN s : Append(s, e)[i] = s[i]
        /\ Append(s, e)[Len(s) + 1] = e
        /\ Len(s) \in Nat
    OBVIOUS
  <1>2. ToSet(Append(s, e)) = ToSet(s) \cup {e}
    BY <1>1 DEF ToSet
  <1> QED BY <1>1, <1>2

\* Removing one member of a finite set lowers its cardinality by one.
LEMMA RemoveOne ==
    ASSUME NEW D, IsFiniteSet(D), NEW S, NEW r
    PROVE  /\ Cardinality(D \ S) \in Nat
           /\ Cardinality(D \ S) = 0 => D \subseteq S
           /\ D \subseteq S => Cardinality(D \ S) = 0
           /\ r \in D \ S => Cardinality(D \ (S \cup {r})) = Cardinality(D \ S) - 1
           /\ r \notin D => D \ (S \cup {r}) = D \ S
  <1>1. IsFiniteSet(D \ S)
    BY FS_Subset, D \ S \subseteq D
  <1>2. Cardinality(D \ S) \in Nat
    BY <1>1, FS_CardinalityType
  <1>3. Cardinality(D \ S) = 0 <=> D \ S = {}
    BY <1>1, FS_EmptySet
  <1>4. ASSUME r \in D \ S
        PROVE  Cardinality(D \ (S \cup {r})) = Cardinality(D \ S) - 1
    <2>1. D \ (S \cup {r}) = (D \ S) \ {r}
      OBVIOUS
    <2> QED BY <1>1, <1>4, <2>1, FS_RemoveElement
  <1> QED BY <1>2, <1>3, <1>4

\* StartScope begins a sort in a state that satisfies the invariant.
LEMMA StartSorts ==
    ASSUME StartScope
    PROVE  SortInv'
  <1>1. PICK s \in unsorted :
           /\ deps' = [n \in Group(s) |-> DependsOn(n, s)]
           /\ indegree' = [n \in Group(s) |-> Cardinality(deps'[n])]
           /\ ready' = {n \in Group(s) : indegree'[n] = 0}
    BY DEF StartScope
  <1>2. sorted' = <<>> /\ ToSet(sorted') = {} /\ DOMAIN sorted' = {}
    BY DEF StartScope, ToSet
  <1>3. DOMAIN deps' = Group(s) /\ \A n \in Group(s) : deps'[n] \subseteq Group(s)
    BY <1>1 DEF DependsOn
  <1>4. SortTypes'
    BY <1>1, <1>2, <1>3 DEF SortTypes
  <1>5. IndegreeCounts'
    <2> SUFFICES ASSUME NEW n \in Group(s)
                 PROVE  indegree'[n] = Cardinality(deps'[n] \ {})
      BY <1>2, <1>3 DEF IndegreeCounts
    <2>1. deps'[n] \ {} = deps'[n]
      OBVIOUS
    <2> QED BY <1>1, <2>1
  <1>6. ReadyExact'
    BY <1>1, <1>2, <1>3 DEF ReadyExact, SortedSet
  <1>7. SortedOnce' /\ DepsSortedFirst'
    BY <1>2 DEF SortedOnce, DepsSortedFirst
  <1> QED BY <1>4, <1>5, <1>6, <1>7 DEF SortInv

\* PopReady preserves the sort invariant, whichever ready rule it pops.
LEMMA PopSorts ==
    ASSUME SortInv, IsFiniteSet(DOMAIN deps), NEW r \in ready, Pop(r), deps' = deps
    PROVE  SortInv'
  <1>1. r \in DOMAIN deps /\ r \notin ToSet(sorted) /\ indegree[r] = 0
    BY DEF SortInv, ReadyExact, SortedSet
  <1>2. /\ sorted' \in Seq(DOMAIN deps)
        /\ ToSet(sorted') = ToSet(sorted) \cup {r}
        /\ DOMAIN sorted' = 1..(Len(sorted) + 1)
        /\ DOMAIN sorted = 1..Len(sorted)
        /\ \A i \in DOMAIN sorted : sorted'[i] = sorted[i]
        /\ sorted'[Len(sorted) + 1] = r
    BY <1>1, ToSetAppend DEF SortInv, SortTypes, Pop
  <1>3. Len(sorted) \in Nat
    BY DEF SortInv, SortTypes
  <1>4. DOMAIN indegree = DOMAIN deps
    BY DEF SortInv, SortTypes
  <1>5. \A n \in DOMAIN deps : IsFiniteSet(deps[n])
    BY FS_Subset DEF SortInv, SortTypes
  <1>a. \A n \in DOMAIN deps : indegree[n] = Cardinality(deps[n] \ ToSet(sorted))
    BY DEF SortInv, IndegreeCounts
  <1>6. \A n \in DOMAIN deps :
           /\ indegree[n] = Cardinality(deps[n] \ ToSet(sorted))
           /\ indegree[n] \in Nat
           /\ indegree[n] = 0 <=> deps[n] \subseteq ToSet(sorted)
           /\ r \in deps[n] => Cardinality(deps[n] \ (ToSet(sorted) \cup {r})) = indegree[n] - 1
           /\ r \notin deps[n] => deps[n] \ (ToSet(sorted) \cup {r}) = deps[n] \ ToSet(sorted)
    <2> TAKE n \in DOMAIN deps
    <2>1. IsFiniteSet(deps[n])
      BY <1>5
    <2>2. /\ Cardinality(deps[n] \ ToSet(sorted)) \in Nat
          /\ Cardinality(deps[n] \ ToSet(sorted)) = 0 => deps[n] \subseteq ToSet(sorted)
          /\ deps[n] \subseteq ToSet(sorted) => Cardinality(deps[n] \ ToSet(sorted)) = 0
          /\ r \in deps[n] \ ToSet(sorted) =>
                Cardinality(deps[n] \ (ToSet(sorted) \cup {r}))
                  = Cardinality(deps[n] \ ToSet(sorted)) - 1
          /\ r \notin deps[n] => deps[n] \ (ToSet(sorted) \cup {r}) = deps[n] \ ToSet(sorted)
      BY <2>1, RemoveOne
    <2> QED BY <1>1, <1>a, <2>2
  <1>7. SortTypes'
    BY <1>2, <1>4 DEF SortInv, SortTypes, Pop
  <1>8. \A n \in DOMAIN deps :
           indegree'[n] = IF r \in deps[n] THEN indegree[n] - 1 ELSE indegree[n]
    BY <1>4 DEF Pop, Successors
  <1>9. IndegreeCounts'
    BY <1>2, <1>6, <1>8 DEF IndegreeCounts
  <1>10. ReadyExact'
    <2>1. \A n \in DOMAIN deps :
             n \in ready' <=> \/ n \in ready /\ n # r
                              \/ r \in deps[n] /\ indegree'[n] = 0
      BY <1>1 DEF Pop, Successors
    <2>2. \A n \in DOMAIN deps : n \in ToSet(sorted) => r \notin deps[n]
      <3> SUFFICES ASSUME NEW n \in DOMAIN deps, n \in ToSet(sorted) PROVE r \notin deps[n]
        OBVIOUS
      <3>1. PICK i \in DOMAIN sorted : sorted[i] = n
        BY DEF ToSet
      <3>2. deps[n] \subseteq {sorted[j] : j \in 1..(i - 1)}
        BY <3>1 DEF SortInv, DepsSortedFirst
      <3>3. {sorted[j] : j \in 1..(i - 1)} \subseteq ToSet(sorted)
        BY <1>2, <1>3, <3>1 DEF ToSet
      <3> QED BY <1>1, <3>2, <3>3
    <2>3. r \notin deps[r]
      BY <1>1, <1>6
    <2>4. \A n \in DOMAIN deps :
             n \in ready' <=> n \notin ToSet(sorted') /\ indegree'[n] = 0
      <3> SUFFICES ASSUME NEW n \in DOMAIN deps
                   PROVE  n \in ready' <=> n \notin ToSet(sorted') /\ indegree'[n] = 0
        OBVIOUS
      <3>1. n \in ready <=> n \notin ToSet(sorted) /\ indegree[n] = 0
        BY DEF SortInv, ReadyExact, SortedSet
      <3>2. CASE r \in deps[n]
        <4>1. n # r /\ n \notin ToSet(sorted)
          BY <2>2, <2>3, <3>2
        <4>2. indegree[n] # 0
          BY <1>1, <1>6, <3>2
        <4> QED BY <1>2, <2>1, <3>1, <3>2, <4>1, <4>2
      <3>3. CASE r \notin deps[n]
        BY <1>2, <1>8, <2>1, <3>1, <3>3
      <3> QED BY <3>2, <3>3
    <2>5. ready' \subseteq DOMAIN deps
      BY DEF SortInv, ReadyExact, Pop, Successors
    <2> QED BY <2>4, <2>5 DEF ReadyExact, SortedSet
  <1>11. SortedOnce'
    <2> SUFFICES ASSUME NEW i \in DOMAIN sorted', NEW j \in DOMAIN sorted',
                        sorted'[i] = sorted'[j]
                 PROVE  i = j
      BY DEF SortedOnce
    <2>1. \A k \in DOMAIN sorted' : k \in DOMAIN sorted \/ k = Len(sorted) + 1
      BY <1>2, <1>3
    <2>2. \A k \in DOMAIN sorted : sorted'[k] # r
      BY <1>1, <1>2 DEF ToSet
    <2> QED BY <1>2, <2>1, <2>2 DEF SortInv, SortedOnce
  <1>12. DepsSortedFirst'
    <2> SUFFICES ASSUME NEW i \in DOMAIN sorted'
                 PROVE  deps[sorted'[i]] \subseteq {sorted'[j] : j \in 1..(i - 1)}
      BY DEF DepsSortedFirst
    <2>1. CASE i \in DOMAIN sorted
      <3>1. \A j \in 1..(i - 1) : j \in DOMAIN sorted /\ sorted'[j] = sorted[j]
        BY <1>2, <1>3, <2>1
      <3>2. deps[sorted[i]] \subseteq {sorted[j] : j \in 1..(i - 1)}
        BY <2>1 DEF SortInv, DepsSortedFirst
      <3> QED BY <1>2, <2>1, <3>1, <3>2
    <2>2. CASE i = Len(sorted) + 1
      <3>1. deps[r] \subseteq ToSet(sorted)
        BY <1>1, <1>6
      <3>2. ToSet(sorted) = {sorted'[j] : j \in 1..(i - 1)}
        <4>1. 1..(i - 1) = DOMAIN sorted
          BY <1>2, <1>3, <2>2
        <4> QED BY <1>2, <4>1 DEF ToSet
      <3> QED BY <1>2, <2>2, <3>1, <3>2
    <2> QED BY <1>2, <1>3, <2>1, <2>2
  <1> QED BY <1>7, <1>9, <1>10, <1>11, <1>12 DEF SortInv

\* The group a scope's sort starts with is finite.
LEMMA StartsFinite ==
    ASSUME MatchInv, StartScope
    PROVE  IsFiniteSet(DOMAIN deps')
  <1>1. phase = "group" /\ \E s : DOMAIN deps' = Group(s)
    BY DEF StartScope
  <1>2. Catalogued(by_name, by_namespace, rules)
    BY <1>1, IndicesAgree DEF MatchInv, RulesReady, IndicesCurrent
  <1>3. IsFiniteSet(DOMAIN by_name)
    BY <1>2 DEF Catalogued
  <1>4. DOMAIN deps' \subseteq DOMAIN by_name
    BY <1>1 DEF Group
  <1> QED BY <1>3, <1>4, FS_Subset

\* Every step of the pipeline preserves the invariant.
LEMMA StepKahn ==
    ASSUME MatchInv, KahnInv, [MatchNext]_<<buildVars, matchVars>>
    PROVE  KahnInv'
  <1> USE DEF KahnInv
  <1>2. ASSUME UNCHANGED <<deps, indegree, ready, sorted>>,
               (phase' = "failed") = (error' # "none"),
               error' = "cycle" => error = "cycle" \/ (ready = {} /\ Len(sorted) # Cardinality(DOMAIN deps))
        PROVE  KahnInv'
    <2>1. SortInv'
      BY <1>2 DEF SortInv, SortTypes, IndegreeCounts, ReadyExact, SortedSet,
                  SortedOnce, DepsSortedFirst
    <2>2. CycleLeft'
      BY <1>2 DEF CycleLeft
    <2>3. IsFiniteSet(DOMAIN deps')
      BY <1>2
    <2> QED BY <1>2, <2>1, <2>2, <2>3
  <1>1. CASE UNCHANGED <<buildVars, matchVars>>
    BY <1>1, <1>2 DEF buildVars, kahnVars
  <1>3. CASE ExtractSubscopeRules
    BY <1>2, <1>3 DEF ExtractSubscopeRules, kahnVars
  <1>4. CASE IndexRules
    BY <1>2, <1>4 DEF IndexRules, kahnVars
  <1>5. CASE ValidateDependencies
    BY <1>2, <1>5 DEF ValidateDependencies, kahnVars
  <1>6. CASE StartScope
    <2>1. phase' = "kahn" /\ error' = "none"
      BY <1>6 DEF StartScope
    <2>2. SortInv' /\ IsFiniteSet(DOMAIN deps')
      BY <1>6, StartSorts, StartsFinite
    <2> QED BY <2>1, <2>2 DEF CycleLeft
  <1>7. CASE PopReady
    <2>1. phase = "kahn" /\ phase' = "kahn" /\ error' = error /\ deps' = deps
      BY <1>7 DEF PopReady
    <2>2. error = "none"
      BY <2>1
    <2>3. PICK r \in ready : Pop(r)
      BY <1>7 DEF PopReady
    <2>4. SortInv'
      BY <2>1, <2>3, PopSorts
    <2> QED BY <2>1, <2>2, <2>4 DEF CycleLeft
  <1>8. CASE FinishScope
    BY <1>2, <1>8 DEF FinishScope, kahnVars
  <1>9. CASE BuildIndex
    BY <1>2, <1>9 DEF BuildIndex, kahnVars
  <1>10. CASE MatchScope \/ MatchGate
    BY <1>2, <1>10 DEF MatchScope, MatchGate, StartMatch, kahnVars
  <1>11. CASE Visit
    BY <1>2, <1>11 DEF Visit, buildVars, kahnVars
  <1>12. CASE ReturnMatches
    BY <1>2, <1>12 DEF ReturnMatches, kahnVars
  <1> QED BY <1>1, <1>3, <1>4, <1>5, <1>6, <1>7, <1>8, <1>9, <1>10, <1>11, <1>12
          DEF MatchNext, Build, BuildNext

\* The invariant holds of every behaviour that builds a rule set and matches it.
THEOREM KahnInvariant == MatchSpec => []KahnInv
  <1>1. MatchInit => KahnInv
    <2> SUFFICES ASSUME MatchInit PROVE KahnInv
      OBVIOUS
    <2>1. /\ deps = Empty /\ indegree = Empty /\ ready = {} /\ sorted = <<>> /\ DOMAIN Empty = {}
          /\ phase = "extract" /\ error = "none"
      BY DEF MatchInit, NothingBuilt, Empty
    <2>2. SortTypes
      BY <2>1 DEF SortTypes
    <2>3. IndegreeCounts /\ ReadyExact /\ SortedOnce /\ DepsSortedFirst
      BY <2>1 DEF IndegreeCounts, ReadyExact, SortedOnce, DepsSortedFirst
    <2>4. IsFiniteSet(DOMAIN deps)
      BY <2>1, FS_EmptySet
    <2> QED BY <2>1, <2>2, <2>3, <2>4 DEF KahnInv, SortInv, CycleLeft
  <1>2. MatchInv /\ KahnInv /\ [MatchNext]_<<buildVars, matchVars>> => KahnInv'
    BY StepKahn
  <1> QED BY <1>1, <1>2, MatchInvariant, PTL DEF MatchSpec

\* At every point of topologically_sort, for every corpus and whichever rule the
\* heap yields, each sorted rule comes after all the rules it waits for.
THEOREM SortRespectsReferences == MatchSpec => []DepsSortedFirst
  <1>1. KahnInv => DepsSortedFirst
    BY DEF KahnInv, SortInv
  <1> QED BY <1>1, KahnInvariant, PTL

\* from_rules reports a dependency cycle only for a corpus that has one.
THEOREM CycleErrorIsReal == MatchSpec => []CycleIsReal
  <1>1. KahnInv => CycleIsReal
    <2> SUFFICES ASSUME IsFiniteSet(DOMAIN deps), SortInv, ready = {},
                        Len(sorted) # Cardinality(DOMAIN deps)
                 PROVE  \E knot \in SUBSET DOMAIN deps :
                            knot # {} /\ \A n \in knot : deps[n] \cap knot # {}
      BY DEF KahnInv, CycleIsReal, CycleLeft
    <2> DEFINE knot == DOMAIN deps \ ToSet(sorted)
    <2>1. knot # {}
      <3> SUFFICES ASSUME knot = {} PROVE FALSE
        OBVIOUS
      <3>1. sorted \in [1..Len(sorted) -> DOMAIN deps] /\ Len(sorted) \in Nat
        BY DEF SortInv, SortTypes
      <3>2. ToSet(sorted) = DOMAIN deps
        BY <3>1 DEF ToSet
      <3>3. sorted \in Bijection(1..Len(sorted), DOMAIN deps)
        BY <3>1, <3>2 DEF SortInv, SortedOnce, ToSet, Bijection, Injection, Surjection,
                         IsInjective
      <3>4. ExistsBijection(1..Len(sorted), DOMAIN deps)
        BY <3>3 DEF ExistsBijection
      <3>5. Cardinality(DOMAIN deps) = Len(sorted)
        BY <3>1, <3>4, FS_CountingElements
      <3> QED BY <3>5
    <2>2. ASSUME NEW n \in knot PROVE deps[n] \cap knot # {}
      <3>1. indegree[n] # 0
        BY <2>2 DEF SortInv, ReadyExact, SortedSet
      <3>2. deps[n] \subseteq DOMAIN deps /\ IsFiniteSet(deps[n])
        BY <2>2, FS_Subset DEF SortInv, SortTypes
      <3>3. indegree[n] = Cardinality(deps[n] \ ToSet(sorted))
        BY <2>2 DEF SortInv, IndegreeCounts
      <3>4. ~(deps[n] \subseteq ToSet(sorted))
        BY <3>1, <3>2, <3>3, RemoveOne
      <3> QED BY <3>2, <3>4
    <2> QED BY <2>1, <2>2
  <1> QED BY <1>1, KahnInvariant, PTL
=============================================================================
