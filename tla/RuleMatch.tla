------------------------------ MODULE RuleMatch ------------------------------
(***************************************************************************)
(* Matching a built rule set: RuleSet::match, which lets the feature index *)
(* choose the candidates and runs engine::match over them, and the         *)
(* limitation gate of capabilities/common.cpp, which runs engine::match    *)
(* over the few file rules that can decide whether a limitation applies.   *)
(*                                                                         *)
(* engine::match visits the rules one by one; a rule that matches          *)
(* publishes its name and namespaces in the feature set, where later rules *)
(* find them.  The candidates, however, are chosen once, before anything   *)
(* is published.                                                           *)
(***************************************************************************)
EXTENDS RuleEngine

CONSTANTS
    FeatureSets,    \* the feature sets a scope may be matched against
    Here,           \* the address they are matched at
    LimitationNs    \* internal/limitation/static

VARIABLES
    mode,           \* "index" for RuleSet::match, "gate" for the gate
    matched_scope,  \* the scope matched
    input,          \* the feature set handed in
    fs,             \* the feature set with what was published
    candidates,     \* the rules still to visit, in order
    out             \* MatchResults: rule name -> locations of its result

matchVars == <<mode, matched_scope, input, fs, candidates, out>>

MatchInit ==
    /\ NothingBuilt
    /\ mode = "none" /\ matched_scope = "none"
    /\ input = Empty /\ fs = Empty /\ candidates = <<>> /\ out = Empty

Build == BuildNext /\ UNCHANGED matchVars

-----------------------------------------------------------------------------
(***************************************************************************)
(* engine::match                                                           *)
(***************************************************************************)

Visit ==
    /\ phase = "match" /\ candidates # <<>>
    /\ LET next == VisitRule(by_name, [fs |-> fs, out |-> out], Head(candidates), Here)
       IN  fs' = next.fs /\ out' = next.out
    /\ candidates' = Tail(candidates)
    /\ UNCHANGED <<buildVars, mode, matched_scope, input>>

ReturnMatches ==
    /\ phase = "match" /\ candidates = <<>>
    /\ phase' = "done"
    /\ UNCHANGED <<indexVars, unsorted, kahnVars, by_scope_topo, needs, error, matchVars>>

\* Start engine::match on the given rules.
StartMatch(how, s, feats, list) ==
    /\ phase = "built"
    /\ phase' = "match"
    /\ mode' = how /\ matched_scope' = s
    /\ input' = feats /\ fs' = feats
    /\ candidates' = list
    /\ UNCHANGED <<indexVars, unsorted, kahnVars, by_scope_topo, needs, error, out>>

\* RuleSet::match
MatchScope ==
    \E s \in DOMAIN by_scope_topo, feats \in FeatureSets :
        StartMatch("index", s, feats, Select(s, feats))

-----------------------------------------------------------------------------
(***************************************************************************)
(* The limitation gate                                                     *)
(***************************************************************************)

IsLimitation(rule) == rule.ns # <<>> /\ IsPrefix(LimitationNs, rule.ns)

\* Mutant: the closure follows references by rule name only.
ReachedByName(n) == RefsOf(by_name[n]) \cap DOMAIN by_name

\* The rules a reference may reach, by name and by namespace.
Reached(n) ==
    UNION {({ref} \cap DOMAIN by_name)
             \cup (IF ref \in DOMAIN by_namespace THEN ToSet(by_namespace[ref]) ELSE {}) :
           ref \in RefsOf(by_name[n])}

\* The seed and all that reach leads to from it in k steps, for every k.
Grown(reach, seed) ==
    LET grown[k \in 0..Cardinality(DOMAIN reach)] ==
            IF k = 0 THEN seed
            ELSE grown[k - 1] \cup UNION {reach[n] : n \in grown[k - 1]}
    IN  grown

\* The work list of limitation_gate_rules, run to its closure.
GateClosure ==
    LET seed  == {n \in ToSet(Order("file")) : IsLimitation(by_name[n])}
        reach == [n \in DOMAIN by_name |-> Reached(n)]
    IN  Grown(reach, seed)[Cardinality(DOMAIN by_name)]

\* limitation_gate_rules
LimitationGateRules == Kept(Order("file"), GateClosure)

\* find_limitation_capabilities
MatchGate == \E feats \in FeatureSets : StartMatch("gate", "file", feats, LimitationGateRules)

\* has_static_limitation
HasStaticLimitation(results) == \E n \in DOMAIN results : IsLimitation(by_name[n])

MatchNext == Build \/ MatchScope \/ MatchGate \/ Visit \/ ReturnMatches

MatchSpec == rules \in Corpora /\ MatchInit /\ [][MatchNext]_<<buildVars, matchVars>>

-----------------------------------------------------------------------------
(***************************************************************************)
(* Properties                                                              *)
(***************************************************************************)

\* engine::match over all the rules of the scope, the index not consulted.
FullMatch(s, feats) == EngineMatch(Order(s), feats, Here)

\* Pruning by the index changes neither the matches nor their locations nor
\* the published features, although the index is consulted before the match
\* and rules publish features during it.
IndexLosesNoMatch ==
    phase = "done" /\ mode = "index" =>
        [fs |-> fs, out |-> out] = FullMatch(matched_scope, input)

\* The gate's verdict is that of the full file pass over the same features
\* (test_capabilities.cpp:219, "the verdict always agrees with the full
\* file-scope pass").
GateAgrees ==
    phase = "done" /\ mode = "gate" =>
        HasStaticLimitation(out) = HasStaticLimitation(FullMatch("file", input).out)

SelfReferring(n) ==
    ({n} \cup NamespaceHierarchy(by_name[n])) \cap RefsOf(by_name[n]) # {}
=============================================================================
