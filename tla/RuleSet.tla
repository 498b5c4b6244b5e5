------------------------------- MODULE RuleSet -------------------------------
(***************************************************************************)
(* RuleSet::from_rules (rules/ruleset.cpp): from the parsed rules to the   *)
(* per-scope match order and its feature index.  Subscope blocks become    *)
(* rules of their own, rules with unresolved references are dropped, and   *)
(* each scope's rules are sorted by Kahn's algorithm so that a rule comes  *)
(* after the rules it references.                                          *)
(*                                                                         *)
(* A rule name or namespace is a sequence of path segments ("a/b/c" is     *)
(* <<a, b, c>>), segments being numbers ordered like the text.  A rule     *)
(* with namespace <<>> has none, and parent is <<>> but in the synthetic   *)
(* rules.  Rules are identified by name once index_rules has seen that     *)
(* names are unique.                                                       *)
(***************************************************************************)
EXTENDS Statements

CONSTANTS
    Corpora         \* the rule lists from_rules may be given

\* A node as the parser makes it: its children come before it, a not and a
\* Subscope have one, and a "some" asks for one child at least.
IsParsedNode(node, i) ==
    /\ node = Node(node.kind, node.kids, node.feat, node.count, node.max, node.scope)
    /\ node.kind \in {"feature", "range", "and", "or", "some", "optional", "not", "subscope"}
    /\ node.kids \in Seq(1..(i - 1))
    /\ node.kind \in {"not", "subscope"} => Len(node.kids) = 1
    /\ node.count \in Nat /\ node.max \in Nat
    /\ node.kind = "some" => node.count # 0

IsRule(rule) ==
    rule = [name |-> rule.name, ns |-> rule.ns, scope |-> rule.scope, nodes |-> rule.nodes,
            root |-> rule.root, parent |-> rule.parent]

\* A rule as the parser makes it.
IsParsedRule(rule) ==
    /\ IsRule(rule)
    /\ rule.nodes \in Seq(ToSet(rule.nodes))
    /\ rule.root \in DOMAIN rule.nodes
    /\ \A i \in DOMAIN rule.nodes : IsParsedNode(rule.nodes[i], i)

\* What RuleParser::parse guarantees of the rules it hands over.
ASSUME CorporaAssumption ==
    \A list \in Corpora :
        list \in Seq(ToSet(list)) /\ \A k \in DOMAIN list : IsParsedRule(list[k])

VARIABLES
    phase,          \* the pipeline step to run next
    rules,          \* rules_
    by_name,        \* by_name_: name -> rule
    by_namespace,   \* by_namespace_: namespace prefix -> rule names, in order
    unsorted,       \* the scopes still to sort
    scope,          \* the scope being sorted
    deps,           \* its same-scope references: name -> names, succ inverted
    indegree, ready, sorted,    \* the state of Kahn's algorithm
    by_scope_topo,  \* by_scope_topo_: scope -> rule names
    needs,          \* index_by_scope_: scope -> name -> required features
    error           \* "none", "invalid" or "cycle"

indexVars == <<rules, by_name, by_namespace>>
kahnVars  == <<scope, deps, indegree, ready, sorted>>
buildVars == <<phase, indexVars, unsorted, kahnVars, by_scope_topo, needs, error>>

Empty == [x \in {} |-> {}]

\* The members of list that are in keep, in order, up to each position.
KeptSoFar(list, keep) ==
    LET kept[k \in 0..Len(list)] ==
            IF k = 0 THEN <<>>
            ELSE IF list[k] \in keep THEN Append(kept[k - 1], list[k]) ELSE kept[k - 1]
    IN  kept

Kept(list, keep) == KeptSoFar(list, keep)[Len(list)]

\* Nothing but the rules is there yet.
NothingBuilt ==
    /\ phase = "extract"
    /\ by_name = Empty /\ by_namespace = Empty
    /\ unsorted = {} /\ scope = "none"
    /\ deps = Empty /\ indegree = Empty /\ ready = {} /\ sorted = <<>>
    /\ by_scope_topo = Empty /\ needs = Empty
    /\ error = "none"

-----------------------------------------------------------------------------
(***************************************************************************)
(* extract_subscope_rules                                                  *)
(***************************************************************************)

\* The innermost Subscope around each node, 0 for none.
EnclosingSubscope(rule) ==
    LET nodes == rule.nodes
        home[i \in DOMAIN nodes] ==
            IF i = rule.root THEN 0
            ELSE LET p == CHOOSE p \in DOMAIN nodes : Contains(nodes[p].kids, i)
                 IN  IF nodes[p].kind = "subscope" THEN p ELSE home[p]
    IN  home

\* Mutant: the counter of synthetic names is not advanced.
SyntheticNamesUncounted(rule, home) ==
    LET name[i \in 0..Len(rule.nodes)] ==
            IF i = 0 THEN rule.name ELSE Append(name[home[i]], 0)
    IN  name

\* The name of the rule spawned for Subscope i: the name of the rule it stands
\* in and the number of Subscopes before it in that rule.
SyntheticNames(rule, home) ==
    LET earlier(i) == {q \in 1..(i - 1) : rule.nodes[q].kind = "subscope" /\ home[q] = home[i]}
        name[i \in 0..Len(rule.nodes)] ==
            IF i = 0 THEN rule.name ELSE Append(name[home[i]], Cardinality(earlier(i)))
    IN  name

\* extract_subscopes_in: each Subscope becomes a match: leaf naming the rule
\* spawned for its inner tree; inner Subscopes are spawned first.
ExtractFrom(rule) ==
    LET home      == EnclosingSubscope(rule)
        name      == SyntheticNames(rule, home)
        blocks    == {i \in DOMAIN rule.nodes : rule.nodes[i].kind = "subscope"}
        subs      == Kept([i \in DOMAIN rule.nodes |-> i], blocks)
        rewritten == [i \in DOMAIN rule.nodes |->
                        IF i \in blocks THEN Leaf(MatchedRule(name[i])) ELSE rule.nodes[i]]
        spawn(i)  == [name |-> name[i], ns |-> <<>>, scope |-> rule.nodes[i].scope,
                      nodes |-> rewritten, root |-> rule.nodes[i].kids[1],
                      parent |-> name[home[i]]]
    IN  [rule    |-> [rule EXCEPT !.nodes = rewritten],
         spawned |-> [k \in DOMAIN subs |-> spawn(subs[k])]]

Optimized(rule) == [rule EXCEPT !.nodes = Optimize(rule.nodes, rule.root)]

ExtractSubscopeRules ==
    /\ phase = "extract"
    /\ LET parts == [i \in DOMAIN rules |-> ExtractFrom(rules[i])]
           all   == [i \in DOMAIN rules |-> parts[i].rule]
                      \o FlattenSeq([i \in DOMAIN rules |-> parts[i].spawned])
       IN  rules' = [i \in DOMAIN all |-> Optimized(all[i])]
    /\ phase' = "index"
    /\ UNCHANGED <<by_name, by_namespace, unsorted, kahnVars, by_scope_topo, needs, error>>

-----------------------------------------------------------------------------
(***************************************************************************)
(* index_rules and validate_dependencies                                   *)
(***************************************************************************)

\* Rule::namespace_hierarchy: the namespace and each of its prefixes.
NamespaceHierarchy(rule) == {SubSeq(rule.ns, 1, k) : k \in 1..Len(rule.ns)}

NamesOf(list) == {list[i].name : i \in DOMAIN list}

ByName(list) ==
    [n \in NamesOf(list) |-> list[CHOOSE i \in DOMAIN list : list[i].name = n]]

ByNamespace(list) ==
    [ns \in UNION {NamespaceHierarchy(list[i]) : i \in DOMAIN list} |->
        LET in == Kept(list, {r \in ToSet(list) : ns \in NamespaceHierarchy(r)})
        IN  [k \in DOMAIN in |-> in[k].name]]

NamesUsable(list) == <<>> \notin NamesOf(list) /\ Cardinality(NamesOf(list)) = Len(list)

IndexRules ==
    /\ phase = "index"
    /\ IF NamesUsable(rules)
       THEN /\ by_name' = ByName(rules)
            /\ by_namespace' = ByNamespace(rules)
            /\ phase' = "validate"
            /\ UNCHANGED error
       ELSE /\ phase' = "failed" /\ error' = "invalid"
            /\ UNCHANGED <<by_name, by_namespace>>
    /\ UNCHANGED <<rules, unsorted, kahnVars, by_scope_topo, needs>>

RefsOf(rule) == CollectMatchRefs(rule.nodes, rule.root)

\* A reference resolves to a rule or to a namespace of the index at hand.
Resolves(ref) == ref \in DOMAIN by_name \/ ref \in DOMAIN by_namespace

ValidateDependencies ==
    /\ phase = "validate"
    /\ rules' = Kept(rules, {r \in ToSet(rules) : \A ref \in RefsOf(r) : Resolves(ref)})
    /\ by_name' = ByName(rules')
    /\ by_namespace' = ByNamespace(rules')
    /\ unsorted' = {rules'[i].scope : i \in DOMAIN rules'}
    /\ phase' = "group"
    /\ UNCHANGED <<kahnVars, by_scope_topo, needs, error>>

-----------------------------------------------------------------------------
(***************************************************************************)
(* topologically_sort                                                      *)
(***************************************************************************)

Group(s) == {n \in DOMAIN by_name : by_name[n].scope = s}

\* The rules a reference orders its rule after: the rule of that name, else
\* the rules of that namespace.
Resolved(ref) ==
    IF ref \in DOMAIN by_name THEN {ref}
    ELSE IF ref \in DOMAIN by_namespace THEN ToSet(by_namespace[ref])
    ELSE {}

\* deps_for_r
DependsOn(n, s) == ((UNION {Resolved(ref) : ref \in RefsOf(by_name[n])}) \ {n}) \cap Group(s)

\* grouped is an unordered map, so the scopes come in any order.
StartScope ==
    /\ phase = "group"
    /\ \E s \in unsorted :
          /\ scope' = s
          /\ deps' = [n \in Group(s) |-> DependsOn(n, s)]
          /\ indegree' = [n \in Group(s) |-> Cardinality(deps'[n])]
          /\ ready' = {n \in Group(s) : indegree'[n] = 0}
    /\ sorted' = <<>>
    /\ phase' = "kahn"
    /\ UNCHANGED <<indexVars, unsorted, by_scope_topo, needs, error>>

\* Names compare as text.  A base name is a symbol, spelled by its number, and
\* a segment by its decimal digits: 10 comes before 9, and 1 before 10, since
\* '/' and the end of the name come before every digit.
SegmentLess(m, n) ==
    LET digits(k) == CHOOSE d \in 1..(k + 1) : k < 10^d /\ (d > 1 => 10^(d - 1) =< k)
        a == m * 10^digits(n)
        b == n * 10^digits(m)
    IN  a < b \/ (a = b /\ digits(m) < digits(n))

NameLess(a, b) ==
    \/ IsStrictPrefix(a, b)
    \/ \E i \in DOMAIN a \cap DOMAIN b :
          SegmentLess(a[i], b[i]) /\ \A j \in 1..(i - 1) : a[j] = b[j]

\* The least name of the heap is on its top.
OnTop(r) == \A m \in ready \ {r} : NameLess(r, m)

Successors(r) == {n \in DOMAIN deps : r \in deps[n]}

\* Mutant: the indegree of a popped rule's successors is reset.
PopReset(r) ==
    /\ sorted' = Append(sorted, r)
    /\ indegree' = [n \in DOMAIN indegree |-> IF n \in Successors(r) THEN 0 ELSE indegree[n]]
    /\ ready' = (ready \ {r}) \cup Successors(r)

\* r leaves the heap for the order; successors that wait for nothing more
\* enter the heap.
Pop(r) ==
    /\ sorted' = Append(sorted, r)
    /\ indegree' = [n \in DOMAIN indegree |->
                       IF n \in Successors(r) THEN indegree[n] - 1 ELSE indegree[n]]
    /\ ready' = (ready \ {r}) \cup {n \in Successors(r) : indegree'[n] = 0}

PopReady ==
    /\ phase = "kahn"
    /\ \E r \in ready : OnTop(r) /\ Pop(r)
    /\ UNCHANGED <<phase, indexVars, unsorted, scope, deps, by_scope_topo, needs, error>>

\* Mutant: the sorted rules are compared with all rules, not the group.
FinishScopeAllRules ==
    /\ phase = "kahn" /\ ready = {}
    /\ IF Len(sorted) = Len(rules)
       THEN /\ by_scope_topo' = [s \in DOMAIN by_scope_topo \cup {scope} |->
                                    IF s = scope THEN sorted ELSE by_scope_topo[s]]
            /\ unsorted' = unsorted \ {scope}
            /\ phase' = "group"
            /\ UNCHANGED error
       ELSE /\ phase' = "failed" /\ error' = "cycle"
            /\ UNCHANGED <<by_scope_topo, unsorted>>
    /\ UNCHANGED <<indexVars, kahnVars, needs>>

FinishScope ==
    /\ phase = "kahn" /\ ready = {}
    /\ IF Len(sorted) = Cardinality(DOMAIN deps)
       THEN /\ by_scope_topo' = [s \in DOMAIN by_scope_topo \cup {scope} |->
                                    IF s = scope THEN sorted ELSE by_scope_topo[s]]
            /\ unsorted' = unsorted \ {scope}
            /\ phase' = "group"
            /\ UNCHANGED error
       ELSE /\ phase' = "failed" /\ error' = "cycle"
            /\ UNCHANGED <<by_scope_topo, unsorted>>
    /\ UNCHANGED <<indexVars, kahnVars, needs>>

\* RuleFeatureIndex::build for every scope; from_rules returns the set.
BuildIndex ==
    /\ phase = "group" /\ unsorted = {}
    /\ needs' = [s \in DOMAIN by_scope_topo |->
                    [n \in ToSet(by_scope_topo[s]) |->
                        Need(by_name[n].nodes, by_name[n].root)]]
    /\ phase' = "built"
    /\ UNCHANGED <<indexVars, unsorted, kahnVars, by_scope_topo, error>>

BuildNext ==
    \/ ExtractSubscopeRules \/ IndexRules \/ ValidateDependencies
    \/ StartScope \/ PopReady \/ FinishScope \/ BuildIndex

-----------------------------------------------------------------------------
(***************************************************************************)
(* Properties                                                              *)
(***************************************************************************)

Phases == {"extract", "index", "validate", "group", "kahn", "built", "failed",
           "match", "done", "static", "reduced", "reported"}

Built == phase \in Phases \ {"extract", "index", "validate", "group", "kahn", "failed"}

\* A corpus is rejected for a cycle only when there is one: some rules of one
\* scope each reference another of them.
CycleIsReal ==
    error = "cycle" =>
        \E knot \in SUBSET DOMAIN deps :
            knot # {} /\ \A n \in knot : deps[n] \cap knot # {}

\* Extraction leaves no Subscope placeholder (evaluate would throw on one),
\* no two synthetic rules share a name, and the one rule that references a
\* synthetic rule is the rule its block stood in.
SubscopesExtracted ==
    phase = "index" =>
        \A i \in DOMAIN rules :
            /\ \A k \in DOMAIN rules[i].nodes : rules[i].nodes[k].kind # "subscope"
            /\ rules[i].parent # <<>> =>
                  /\ \A j \in DOMAIN rules :
                        rules[j].name = rules[i].name => j = i \/ rules[j].parent = <<>>
                  /\ \E j \in DOMAIN rules :
                        /\ rules[j].name = rules[i].parent
                        /\ {k \in DOMAIN rules : rules[i].name \in RefsOf(rules[k])} = {j}

\* Kahn's bookkeeping: a rule's indegree is the number of its references not
\* yet sorted.
IndegreeCounts ==
    \A n \in DOMAIN deps : indegree[n] = Cardinality(deps[n] \ ToSet(sorted))

\* At every point of the sort each sorted rule has all the rules it waits for
\* before it, whichever ready rule the heap yields: the order cut short by a
\* cycle would be right as far as it goes.
DepsSortedFirst ==
    \A i \in DOMAIN sorted : deps[sorted[i]] \subseteq {sorted[j] : j \in 1..(i - 1)}
=============================================================================
