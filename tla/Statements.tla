----------------------------- MODULE Statements -----------------------------
(***************************************************************************)
(* The statement trees of the rule engine and the four algorithms that     *)
(* walk them: evaluate and its boolean twin evaluate_quick (engine.cpp),   *)
(* the required-feature analysis of the rule index (feature_index.cpp) and *)
(* the cost-based reordering (optimizer.cpp).                              *)
(*                                                                         *)
(* A tree is a sequence of nodes in post-order: the children of a node     *)
(* have smaller indices than the node, as the parser builds them.  A       *)
(* feature is a record [tag, datum]; datum is a short sequence of symbols, so  *)
(* that a substring or a byte prefix can be told from an equal value.  A   *)
(* feature set maps each feature it holds to the set of its addresses.     *)
(***************************************************************************)
EXTENDS Integers, FiniteSets, Sequences, SequencesExt

CONSTANT AnyValue       \* the value "any" of the Os wildcard

\* A node.  count is Some's threshold and Range's minimum, max Range's
\* maximum, scope the scope of a Subscope; a Some with count 0 is optional.
Node(kind, kids, feat, count, max, scope) ==
    [kind |-> kind, kids |-> kids, feat |-> feat, count |-> count,
     max |-> max, scope |-> scope]

NoFeature == [tag |-> "none", datum |-> <<>>]

And(kids)            == Node("and", kids, NoFeature, 0, 0, "none")
Or(kids)             == Node("or", kids, NoFeature, 0, 0, "none")
Not(kid)             == Node("not", <<kid>>, NoFeature, 0, 0, "none")
Some(count, kids)    == Node(IF count = 0 THEN "optional" ELSE "some",
                             kids, NoFeature, count, 0, "none")
Count(feat, lo, hi)  == Node("range", <<>>, feat, lo, hi, "none")
Leaf(feat)           == Node("feature", <<>>, feat, 0, 0, "none")
Subscope(scope, kid) == Node("subscope", <<kid>>, NoFeature, 0, 0, scope)

MatchedRule(name) == [tag |-> "MatchedRule", datum |-> name]

-----------------------------------------------------------------------------
(***************************************************************************)
(* Features                                                                *)
(***************************************************************************)

OccursIn(part, whole) ==
    \E i \in 0..(Len(whole) - Len(part)) :
        SubSeq(whole, i + 1, i + Len(part)) = part

AnyOs == [tag |-> "Os", datum |-> AnyValue]

\* The features of fs through which a leaf matches: equal ones, the strings
\* a scanning leaf finds its literal in, the byte strings it is a prefix of,
\* the operating systems its wildcard covers.
Witnesses(f, fs) ==
    LET tagged(t) == {g \in DOMAIN fs : g.tag = t}
    IN  CASE f.tag \in {"Substring", "Regex"} ->
                {g \in tagged("String") : OccursIn(f.datum, g.datum)}
          [] f.tag = "Bytes" -> {g \in tagged("Bytes") : IsPrefix(f.datum, g.datum)}
          [] f.tag = "Os" /\ f \notin DOMAIN fs ->
                IF f.datum = AnyValue THEN tagged("Os") ELSE {AnyOs} \cap DOMAIN fs
          [] OTHER -> {f} \cap DOMAIN fs

LocationsOf(feats, fs) == UNION {fs[g] : g \in feats}

\* Feature::matches and its overrides.
FeatureMatches(f, fs) == Witnesses(f, fs) # {}

\* Feature::evaluate: with sc the scanning leaves stop at some first witness.
FeatureEvaluate(f, fs, sc) ==
    LET all   == Witnesses(f, fs)
        found == IF sc /\ all # {} THEN {CHOOSE g \in all : TRUE} ELSE all
    IN  [ok |-> all # {}, locs |-> LocationsOf(found, fs)]

\* FeatureSet::add of each of the given features, at the same addresses.
AddFeatures(fs, feats, addrs) ==
    [g \in DOMAIN fs \cup feats |->
        (IF g \in DOMAIN fs THEN fs[g] ELSE {}) \cup (IF g \in feats THEN addrs ELSE {})]

Occurrences(f, fs) == IF f \in DOMAIN fs THEN Cardinality(fs[f]) ELSE 0

-----------------------------------------------------------------------------
(***************************************************************************)
(* evaluate and evaluate_quick                                             *)
(***************************************************************************)

InRange(node, fs) ==
    LET cnt == Occurrences(node.feat, fs)
    IN  \/ node.count = 0 /\ cnt = 0
        \/ node.count <= cnt /\ cnt <= node.max

\* Mutant: the loop of evaluate breaks whether or not sc is set.
VisitedAlwaysStops(node, ok, sc) ==
    LET n       == Len(node.kids)
        settles == {k \in 1..n : (node.kind = "or") = ok[k]}
    IN  IF node.kind \in {"and", "or"} /\ settles # {}
        THEN CHOOSE k \in settles : \A j \in settles : k <= j ELSE n

\* The children at which the verdict of the statement is settled.
Settling(node, ok) ==
    LET n       == Len(node.kids)
        hits(k) == Cardinality({j \in 1..k : ok[j]})
    IN  CASE node.kind = "and"  -> {k \in 1..n : ~ok[k]}
          [] node.kind = "or"   -> {k \in 1..n : ok[k]}
          [] node.kind = "some" -> {k \in 1..n : hits(k) >= node.count}
          [] OTHER              -> {}

\* How many children the loop of evaluate visits before it breaks: all of
\* them, or with sc up to the first one that settles the statement.
Visited(node, ok, sc) ==
    LET at == Settling(node, ok)
    IN  IF sc /\ at # {} THEN CHOOSE k \in at : \A j \in at : k <= j ELSE Len(node.kids)

\* One node of evaluate, given the results r[i][s] of the smaller nodes.
EvaluateNode(node, r, fs, sc) ==
    LET kid(k) == r[node.kids[k]][sc]
        seen   == 1..Visited(node, [k \in DOMAIN node.kids |-> kid(k).ok], sc)
        hits   == {k \in seen : kid(k).ok}
        won    == UNION {kid(k).locs : k \in hits}
    IN  CASE node.kind = "feature"  -> FeatureEvaluate(node.feat, fs, sc)
          [] node.kind = "range"    ->
                [ok   |-> InRange(node, fs),
                 locs |-> IF InRange(node, fs) /\ node.feat \in DOMAIN fs
                          THEN fs[node.feat] ELSE {}]
          [] node.kind = "and"      ->
                [ok |-> hits = seen, locs |-> IF hits = seen THEN won ELSE {}]
          [] node.kind = "or"       -> [ok |-> hits # {}, locs |-> won]
          [] node.kind = "some"     -> [ok |-> Cardinality(hits) >= node.count, locs |-> won]
          [] node.kind = "optional" -> [ok |-> TRUE, locs |-> won]
          \* Not evaluates its child without short circuit and binds nothing.
          [] node.kind = "not"      -> [ok |-> ~r[node.kids[1]][FALSE].ok, locs |-> {}]

\* A node without and with short circuit.
EvaluateBoth(node, r, fs) == [sc \in BOOLEAN |-> EvaluateNode(node, r, fs, sc)]

\* What evaluate returns at every node.
EvaluateTable(nodes, root, fs) ==
    LET r[i \in 1..root] == EvaluateBoth(nodes[i], r, fs) IN r

\* Statement::evaluate(fs, sc) of the tree rooted at node root.
Evaluate(nodes, root, fs, sc) == EvaluateTable(nodes, root, fs)[root][sc]

\* Mutant: Some's early return tests hits > count.
QuickNodeOneMore(node, q, fs) ==
    LET hits == {k \in DOMAIN node.kids : q[node.kids[k]]}
    IN  CASE node.kind = "feature"  -> FeatureMatches(node.feat, fs)
          [] node.kind = "range"    -> InRange(node, fs)
          [] node.kind = "and"      -> hits = DOMAIN node.kids
          [] node.kind = "or"       -> hits # {}
          [] node.kind = "some"     -> Cardinality(hits) > node.count
          [] node.kind = "optional" -> TRUE
          [] node.kind = "not"      -> ~q[node.kids[1]]

\* One node of evaluate_quick, given the truth values of the smaller nodes.
QuickNode(node, q, fs) ==
    LET hits == {k \in DOMAIN node.kids : q[node.kids[k]]}
        cnt  == Occurrences(node.feat, fs)
    IN  CASE node.kind = "feature"  -> FeatureMatches(node.feat, fs)
          [] node.kind = "range"    -> IF node.count = 0 /\ cnt = 0 THEN TRUE
                                       ELSE cnt >= node.count /\ cnt <= node.max
          [] node.kind = "and"      -> hits = DOMAIN node.kids
          [] node.kind = "or"       -> hits # {}
          [] node.kind = "some"     -> Cardinality(hits) >= node.count
          [] node.kind = "optional" -> TRUE
          [] node.kind = "not"      -> ~q[node.kids[1]]

\* What evaluate_quick returns at every node.
QuickTable(nodes, root, fs) ==
    LET q[i \in 1..root] == QuickNode(nodes[i], q, fs) IN q

\* Statement::evaluate_quick(fs)
EvaluateQuick(nodes, root, fs) == QuickTable(nodes, root, fs)[root]

\* One node of collect_match_refs, given what the smaller nodes name.
RefsNode(node, refs) ==
    (UNION {refs[node.kids[k]] : k \in DOMAIN node.kids})
      \cup (IF node.feat.tag = "MatchedRule" THEN {node.feat.datum} ELSE {})

\* What collect_match_refs finds below every node.
RefsTable(nodes, root) ==
    LET refs[i \in 1..root] == RefsNode(nodes[i], refs) IN refs

\* collect_match_refs: every name or namespace the tree names by match:.
CollectMatchRefs(nodes, root) == RefsTable(nodes, root)[root]

-----------------------------------------------------------------------------
(***************************************************************************)
(* The required features of the rule index                                 *)
(***************************************************************************)

\* Mutant: match: leaves are indexed like any other.
IndexableMatches(tag) == tag \notin {"Substring", "Regex", "Bytes", "Os", "Arch"}

\* Leaves a structural lookup decides.
Indexable(tag) == tag \notin {"Substring", "Regex", "Bytes", "Os", "Arch", "MatchedRule"}

\* score: how selective a feature is.  The number <<0>> stands for the
\* common numbers, the small and the near-maximum ones.
Score(f) ==
    CASE f.tag = "String"                         -> 9
      [] f.tag = "Api"                            -> 8
      [] f.tag = "Export"                         -> 7
      [] f.tag \in {"Number", "OperandNumber"}    -> IF f.datum = <<0>> THEN 3 ELSE 7
      [] f.tag \in {"Class", "Namespace", "Property", "Import", "Section",
                    "FunctionName"}               -> 5
      [] f.tag \in {"Characteristic", "Offset", "OperandOffset"} -> 4
      [] f.tag = "Mnemonic"                       -> 2
      [] f.tag = "BasicBlock"                     -> 1
      [] OTHER                                    -> 0

NoNeed == [score |-> 0, feats |-> {}]

LeafNeed(f) == IF Indexable(f.tag) THEN [score |-> Score(f), feats |-> {f}] ELSE NoNeed

\* Need b takes the place of the best need so far, a.
Better(a, b) ==
    /\ b.feats # {}
    /\ \/ a.feats = {}
       \/ b.score > a.score
       \/ b.score = a.score /\ Cardinality(b.feats) < Cardinality(a.feats)

\* The best of the first k needs, for every k.
BestSoFar(needs) ==
    LET best[k \in 0..Len(needs)] ==
            IF k = 0 THEN NoNeed
            ELSE IF Better(best[k - 1], needs[k]) THEN needs[k] ELSE best[k - 1]
    IN  best

\* The most selective of the children's needs, ties to the smaller, then to
\* the earlier one.
BestNeed(needs) == BestSoFar(needs)[Len(needs)]

\* Mutant: a child without needs is skipped instead of freeing the statement.
AnyNeedSkipsFree(needs) ==
    LET all == {n \in {needs[k] : k \in DOMAIN needs} : n.feats # {}}
    IN  IF all = {} THEN NoNeed
        ELSE [score |-> CHOOSE s \in {n.score : n \in all} : \A n \in all : s <= n.score,
              feats |-> UNION {n.feats : n \in all}]

\* All of the children's needs together, or nothing when one has none.
AnyNeed(needs) ==
    LET all == {needs[k] : k \in DOMAIN needs}
    IN  IF all = {} \/ NoNeed.feats \in {n.feats : n \in all} THEN NoNeed
        ELSE [score |-> CHOOSE s \in {n.score : n \in all} : \A n \in all : s <= n.score,
              feats |-> UNION {n.feats : n \in all}]

\* One node of need, given the needs of the smaller nodes.
NeedNode(node, n) ==
    LET kids == [k \in DOMAIN node.kids |-> n[node.kids[k]]]
    IN  CASE node.kind = "feature"         -> LeafNeed(node.feat)
          [] node.kind = "range"           -> IF node.count = 0 THEN NoNeed ELSE LeafNeed(node.feat)
          [] node.kind = "and"             -> BestNeed(kids)
          [] node.kind \in {"or", "some"}  -> AnyNeed(kids)
          [] OTHER                         -> NoNeed

\* What need returns at every node.
NeedTable(nodes, root) ==
    LET n[i \in 1..root] == NeedNode(nodes[i], n) IN n

\* need: features without any of which the tree cannot match; {} when
\* nothing is required for certain.
Need(nodes, root) == NeedTable(nodes, root)[root].feats

-----------------------------------------------------------------------------
(***************************************************************************)
(* The optimizer                                                           *)
(***************************************************************************)

FeatureCost(f) ==
    CASE f.tag \in {"Os", "Arch", "Format"}         -> 0
      [] f.tag \in {"Substring", "Regex", "Bytes"}  -> 2
      [] OTHER                                      -> 1

\* 1 and the first k costs, for every k.
SumSoFar(costs) ==
    LET sum[k \in 0..Len(costs)] == IF k = 0 THEN 1 ELSE sum[k - 1] + costs[k]
    IN  sum

\* One node of node_cost, given the costs of the smaller nodes.
CostNode(node, cost) ==
    CASE node.kind = "feature" -> FeatureCost(node.feat)
      [] node.kind = "range"   -> 1 + FeatureCost(node.feat)
      [] OTHER                 -> LET costs == [k \in DOMAIN node.kids |-> cost[node.kids[k]]]
                                  IN  SumSoFar(costs)[Len(costs)]

\* node_cost of every node.
NodeCost(nodes) ==
    LET cost[i \in 1..Len(nodes)] == CostNode(nodes[i], cost) IN cost

\* The children std::stable_sort by cost puts before child k.
Before(kids, cost, k) ==
    {j \in DOMAIN kids : \/ cost[kids[j]] < cost[kids[k]]
                         \/ cost[kids[j]] = cost[kids[k]] /\ j < k}

\* The place of each child in the sorted order.
Rank(kids, cost) == [k \in DOMAIN kids |-> 1 + Cardinality(Before(kids, cost, k))]

StableByCost(kids, cost) ==
    [p \in DOMAIN kids |-> kids[CHOOSE k \in DOMAIN kids : Rank(kids, cost)[k] = p]]

\* The first node that is no not, going down from every node.
BelowNots(nodes, root) ==
    LET at[i \in 1..root] == IF nodes[i].kind = "not" THEN at[nodes[i].kids[1]] ELSE i IN at

\* optimize: only the first node below the leading nots is reordered.
Optimize(nodes, root) ==
    LET n == BelowNots(nodes, root)[root]
    IN  IF nodes[n].kind \in {"and", "or", "some", "optional"}
        THEN [nodes EXCEPT ![n].kids = StableByCost(@, NodeCost(nodes))]
        ELSE nodes
=============================================================================
