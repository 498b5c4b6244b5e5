----------------------------- MODULE RuleEngine -----------------------------
(***************************************************************************)
(* One match of a built rule set against a feature set: engine::match      *)
(* (engine.cpp), the candidates RuleFeatureIndex::select gives it          *)
(* (feature_index.cpp), and RuleSet::match, which joins the two.           *)
(***************************************************************************)
EXTENDS RuleSet

\* rules_by_scope
Order(s) == IF s \in DOMAIN by_scope_topo THEN by_scope_topo[s] ELSE <<>>

\* index_rule_matches: the name and every level of the namespace, at the
\* addresses of the matches.
IndexRuleMatches(feats, rule, addrs) ==
    AddFeatures(feats, {MatchedRule(name) : name \in {rule.name} \cup NamespaceHierarchy(rule)}, addrs)

\* The loop body of engine::match: probe, record, publish.  acc has the feature
\* set and MatchResults, rule name -> locations of its result; book has the
\* rules by name.
VisitRule(book, acc, name, here) ==
    LET rule == book[name]
    IN  IF ~EvaluateQuick(rule.nodes, rule.root, acc.fs) THEN acc
        ELSE [fs  |-> IndexRuleMatches(acc.fs, rule, {here}),
              out |-> [n \in DOMAIN acc.out \cup {name} |->
                          IF n = name
                          THEN Evaluate(rule.nodes, rule.root, acc.fs, FALSE).locs
                          ELSE acc.out[n]]]

NothingMatched(feats) == [fs |-> feats, out |-> Empty]

\* What engine::match has after the first k rules of the list, for every k.
MatchSoFar(book, list, feats, here) ==
    LET acc[k \in 0..Len(list)] ==
            IF k = 0 THEN NothingMatched(feats)
            ELSE VisitRule(book, acc[k - 1], list[k], here)
    IN  acc

EngineMatch(list, feats, here) == MatchSoFar(by_name, list, feats, here)[Len(list)]

\* RuleFeatureIndex::select: a rule with no required feature always runs.
Select(s, feats) ==
    Kept(Order(s), {n \in ToSet(Order(s)) : needs[s][n] = {} \/ needs[s][n] \cap DOMAIN feats # {}})

\* RuleSet::match
RuleSetMatch(s, feats, here) == EngineMatch(Select(s, feats), feats, here)
=============================================================================
