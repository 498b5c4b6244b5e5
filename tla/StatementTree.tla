---------------------------- MODULE StatementTree ----------------------------
(***************************************************************************)
(* Every statement tree the rule parser can build (rules/parser.cpp), node *)
(* by node, with the laws the matching engine relies on stated of the tree *)
(* finished last.                                                          *)
(*                                                                         *)
(* parse_statement_children parses the children of an operator in order    *)
(* and then the operator takes them, so the nodes come in post-order and   *)
(* the trees not yet taken form a stack.  An operator may have no child: a *)
(* list that holds only description labels leaves none.                    *)
(***************************************************************************)
EXTENDS Statements

CONSTANTS
    Leaves,         \* the features a leaf may name
    Counted,        \* the features count(...) may name
    Counts,         \* its <<min, max>> ranges
    Thresholds,     \* the N of "N or more"; 0 is optional
    FeatureSets,    \* the feature sets the trees are evaluated on
    MaxNodes        \* bound on the size of the trees

ASSUME StatementTreeAssumption ==
    /\ MaxNodes \in Nat
    /\ Counts \subseteq Nat \X Nat
    /\ Thresholds \subseteq Nat
    /\ \A fs \in FeatureSets : \A f \in DOMAIN fs : IsFiniteSet(fs[f])

VARIABLES
    nodes,      \* the nodes built so far
    pending     \* the roots no operator has taken yet, in order

vars == <<nodes, pending>>

Init == nodes = <<>> /\ pending = <<>>

\* A node over the last k pending trees; it becomes a pending tree itself.
Build(node, k) ==
    /\ Len(nodes) < MaxNodes
    /\ nodes' = Append(nodes, node)
    /\ pending' = Append(SubSeq(pending, 1, Len(pending) - k), Len(nodes) + 1)

\* parse_leaf
ParseLeaf == \E f \in Leaves : Build(Leaf(f), 0)

\* parse_count
ParseCount == \E f \in Counted, c \in Counts : Build(Count(f, c[1], c[2]), 0)

\* parse_operator
ParseOperator ==
    \E k \in 0..Len(pending) :
        LET kids == SubSeq(pending, Len(pending) - k + 1, Len(pending))
        IN  \/ Build(And(kids), k)
            \/ Build(Or(kids), k)
            \/ k = 1 /\ Build(Not(kids[1]), k)
            \/ \E n \in Thresholds : Build(Some(n, kids), k)

Next == ParseLeaf \/ ParseCount \/ ParseOperator

Spec == Init /\ [][Next]_vars

-----------------------------------------------------------------------------
Root == Len(nodes)

\* evaluate_quick and evaluate, with or without short circuit, give one
\* verdict.  engine::match trusts the probe to skip a rule and records the
\* full result of every rule the probe accepts without looking at success.
ProbeAgrees ==
    Root > 0 =>
        \A fs \in FeatureSets, sc \in BOOLEAN :
            Evaluate(nodes, Root, fs, sc).ok = EvaluateQuick(nodes, Root, fs)

\* A tree that matches has one of its required features in the feature set.
\* RuleFeatureIndex::select leaves a rule out when the set holds none.
NeedSound ==
    Root > 0 =>
        \A fs \in FeatureSets :
            EvaluateQuick(nodes, Root, fs) =>
                Need(nodes, Root) = {} \/ Need(nodes, Root) \cap DOMAIN fs # {}

\* optimize changes neither the verdict nor the locations a match reports
\* ("The match outcome is unchanged", optimizer.h).
OptimizeNeutral ==
    Root > 0 =>
        \A fs \in FeatureSets :
            Evaluate(Optimize(nodes, Root), Root, fs, FALSE) = Evaluate(nodes, Root, fs, FALSE)
=============================================================================
