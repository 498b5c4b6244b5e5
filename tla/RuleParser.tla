----------------------------- MODULE RuleParser -----------------------------
(***************************************************************************)
(* RuleParser::parse (rules/parser.cpp): from a YAML document to a rule,   *)
(* with the table of the features each scope may ask for.                  *)
(*                                                                         *)
(* A YAML node is a scalar, a sequence or a mapping.  A key is a tuple:    *)
(* its first element is the keyword, the rest what the code reads out of   *)
(* the key's text (the index of operand[i].number, the N of "N or more",   *)
(* the feature inside count(...)).  A scalar says what its text reads as:  *)
(* a literal that does not read has as = "text", an integer that from_chars*)
(* rejects is NotIntegral.  Descriptions carry no state and are left out   *)
(* but for where their position decides.                                   *)
(***************************************************************************)
EXTENDS Statements

CONSTANTS WordBits,     \* the width of a number, 64
          MaxSize,      \* the largest size_t
          ComClasses    \* lookup_com: COM name -> [bytes, text] of its GUID

NotIntegral == -1

Scalar(as, val) == [kind |-> "scalar", as |-> as, val |-> val]
Sequence(items) == [kind |-> "seq", items |-> items]
Mapping(pairs)  == [kind |-> "map", pairs |-> pairs]
Item(key, node) == Mapping(<<<<key, node>>>>)

\* Node::find: the first pair with the keyword.
Find(node, word) == SelectSeq(node.pairs, LAMBDA p : p[1][1] = word)

-----------------------------------------------------------------------------
(* Scope conformance.                                                      *)

StaticScopes  == {"instruction", "basic block", "function", "file"}
DynamicScopes == {"call", "process", "thread", "span of calls"}

ScopeLevel(s) ==
    CASE s = "instruction" -> 1 [] s = "basic block" -> 2
      [] s = "function" -> 3 [] s = "file" -> 4 [] OTHER -> 0

FeatureOrigin(tag) == IF tag \in {"Import", "Export", "Section"} THEN "file" ELSE "instruction"

\* BasicBlock is an extractor's tag, never one of a rule.
IsFeatureAllowed(tag, s) ==
    /\ tag # "BasicBlock"
    /\ \/ s \in DynamicScopes
       \/ tag = "Characteristic"
       \/ ScopeLevel(s) >= ScopeLevel(FeatureOrigin(tag))

\* Mutant: a characteristic is valid at its origin only.
CharacteristicAtOrigin(value, s) ==
    CASE s \in DynamicScopes -> TRUE
      [] value \in {"embedded pe", "mixed mode", "forwarded export"} -> s = "file"
      [] value \in {"loop", "calls from", "calls to", "recursive call"} -> s = "function"
      [] value \in {"tight loop", "stack string"} -> s = "basic block"
      [] value \in {"nzxor", "peb access", "fs access", "gs access", "call $+5",
                    "cross section flow", "indirect call", "unmanaged call"} -> s = "instruction"
      [] OTHER -> TRUE

\* A name has the scope it originates at and is valid there or higher; an
\* unknown name is accepted.
IsCharacteristicAllowed(value, s) ==
    CASE s \in DynamicScopes -> TRUE
      [] value \in {"embedded pe", "mixed mode", "forwarded export"} -> s = "file"
      [] value \in {"loop", "calls from", "calls to", "recursive call"} ->
             ScopeLevel(s) >= ScopeLevel("function")
      [] value \in {"tight loop", "stack string"} -> ScopeLevel(s) >= ScopeLevel("basic block")
      [] value \in {"nzxor", "peb access", "fs access", "gs access", "call $+5",
                    "cross section flow", "indirect call", "unmanaged call"} ->
             ScopeLevel(s) >= ScopeLevel("instruction")
      [] OTHER -> TRUE

-----------------------------------------------------------------------------
(* Literals and leaves.  A result is a sequence of at most one element,    *)
(* empty for an error.                                                     *)

Feat(tag, datum) == [tag |-> tag, datum |-> datum]

\* parse_number: a magnitude of uint64, its negative within int64.
ParseNumber(s) ==
    CASE s.as = "int" /\ s.val \in -(2^(WordBits - 1))..(2^WordBits - 1) -> <<s.val>>
      [] s.as = "float" -> <<s.val>>
      [] OTHER -> <<>>

\* as_offset: the bits of the number read as int64.
AsOffset(v) == IF v >= 2^(WordBits - 1) THEN v - 2^WordBits ELSE v

\* parse_count_range: <<min, max>>.
ParseCountRange(s) ==
    LET form == s.val[1]
        n    == s.val[2]
    IN  CASE s.as # "range" \/ n = NotIntegral -> <<>>
          [] form = "tuple" /\ n =< s.val[3] -> <<<<n, s.val[3]>>>>
          [] form = "or more"  -> <<<<n, MaxSize>>>>
          [] form = "or fewer" -> <<<<0, n>>>>
          [] form = "exact"    -> <<<<n, n>>>>
          [] OTHER -> <<>>

\* The value of number_leaf and operand_leaf: an offset cannot be a float.
NumericValue(kind, s) ==
    LET num == ParseNumber(s)
    IN  CASE num = <<>> -> <<>>
          [] kind = "number" -> num
          [] s.as = "int" -> <<AsOffset(num[1])>>
          [] OTHER -> <<>>

NumericTag == [number |-> "Number", offset |-> "Offset"]

NumericLeaf(kind, s) ==
    [k \in DOMAIN NumericValue(kind, s) |-> Feat(NumericTag[kind], NumericValue(kind, s)[k])]

OperandTag == [number |-> "OperandNumber", offset |-> "OperandOffset"]

OperandLeaf(key, s) ==
    IF key[2] = NotIntegral \/ key[2] > 4 \/ key[3] \notin DOMAIN OperandTag THEN <<>>
    ELSE LET num == NumericValue(key[3], s)
         IN  [k \in DOMAIN num |-> Feat(OperandTag[key[3]], <<key[2], num[k]>>)]

\* The keys value_leaf turns into a feature of one string.
ValueTags ==
    [import |-> "Import", export |-> "Export", section |-> "Section", mnemonic |-> "Mnemonic",
     characteristic |-> "Characteristic", class |-> "Class", namespace |-> "Namespace",
     os |-> "Os", arch |-> "Arch", format |-> "Format", match |-> "MatchedRule",
     substring |-> "Substring"]

\* trim_dll_part: one dot and no ordinal leaves the name without its dll.
TrimDllPart(s) == IF s.as # "ordinal" /\ Len(s.val) = 2 THEN Tail(s.val) ELSE s.val

ValueLeaf(word, s) ==
    CASE word = "api" -> <<Feat("Api", TrimDllPart(s))>>
      [] word = "string" -> <<Feat(IF s.as = "regex" THEN "Regex" ELSE "String", s.val)>>
      [] word = "function-name" -> <<Feat("FunctionName", s.val)>>
      [] word \in DOMAIN ValueTags -> <<Feat(ValueTags[word], s.val)>>
      [] OTHER -> <<>>

\* build_feature_leaf; bytes with wildcards are refused.
BuildFeatureLeaf(key, s) ==
    CASE key[1] = "operand" -> OperandLeaf(key, s)
      [] key[1] = "property" ->
             IF key[2] \in {"read", "write"} THEN <<Feat("Property", <<s.val, key[2]>>)>> ELSE <<>>
      [] key[1] \in {"number", "offset"} -> NumericLeaf(key[1], s)
      [] key[1] = "bytes" -> IF s.as = "hex" /\ s.val # <<>> THEN <<Feat("Bytes", s.val)>> ELSE <<>>
      [] OTHER -> ValueLeaf(key[1], s)

-----------------------------------------------------------------------------
(* Statements.  A statement being parsed appends its nodes to the ones     *)
(* parsed before it, its root last.                                        *)

Parsed(nodes) == [ok |-> TRUE, nodes |-> nodes, kids |-> <<>>]
Failed        == [ok |-> FALSE, nodes |-> <<>>, kids |-> <<>>]

Add(nodes, node) == Parsed(Append(nodes, node))

IsDescription(node) == node.kind = "map" /\ node.pairs # <<>> /\ node.pairs[1][1][1] = "description"

RECURSIVE ParseStatementItem(_, _, _)

WithChild(acc, r) ==
    IF ~acc.ok \/ ~r.ok THEN Failed ELSE [r EXCEPT !.kids = Append(acc.kids, Len(r.nodes))]

\* parse_statement_children: the first error is the result; kids has the roots.
ParseStatementChildren(value, s, nodes) ==
    LET step(acc, item) == WithChild(acc, ParseStatementItem(item, s, acc.nodes))
    IN  IF value.kind # "seq" THEN Failed
        ELSE FoldLeft(step, Parsed(nodes), SelectSeq(value.items, LAMBDA i : ~IsDescription(i)))

Operators == {"and", "or", "not", "optional", "N or more"}

\* An operator over its parsed children r.
ParseOperator(key, r) ==
    CASE ~r.ok -> Failed
      [] key[1] = "and" -> Add(r.nodes, And(r.kids))
      [] key[1] = "or"  -> Add(r.nodes, Or(r.kids))
      [] key[1] = "not" /\ Len(r.kids) = 1 -> Add(r.nodes, Not(r.kids[1]))
      [] key[1] = "optional" -> Add(r.nodes, Some(0, r.kids))
      [] key[1] = "N or more" /\ key[2] # NotIntegral -> Add(r.nodes, Some(key[2], r.kids))
      [] OTHER -> Failed

Subscopes == (StaticScopes \ {"file"}) \cup DynamicScopes

\* Several children of a block are an implicit and.
SubscopeOver(s, r) ==
    CASE ~r.ok -> Failed
      [] Len(r.kids) = 1 -> Add(r.nodes, Subscope(s, r.kids[1]))
      [] OTHER -> Add(Append(r.nodes, And(r.kids)), Subscope(s, Len(r.nodes) + 1))

\* Mutant: the block is parsed at the scope of the rule.
SubscopeAtParent(key, value, s, nodes) == SubscopeOver(key[1], ParseStatementChildren(value, s, nodes))

\* A block is parsed at its own scope.
ParseSubscope(key, value, s, nodes) == SubscopeOver(key[1], ParseStatementChildren(value, key[1], nodes))

\* com/class and com/interface: the GUID as bytes or as text.
ParseCom(value, s, nodes) ==
    IF \/ value.kind # "scalar" \/ value.val \notin DOMAIN ComClasses
       \/ ~IsFeatureAllowed("Bytes", s) \/ ~IsFeatureAllowed("String", s)
    THEN Failed
    ELSE Add(nodes \o <<Leaf(Feat("Bytes", ComClasses[value.val].bytes)),
                        Leaf(Feat("String", ComClasses[value.val].text))>>,
             Or(<<Len(nodes) + 1, Len(nodes) + 2>>))

\* count(basic blocks) and count(feature(value)); the scope of a counted
\* characteristic is not looked at.
ParseCount(key, value, s, nodes) ==
    LET range == ParseCountRange(value)
        feat  == IF key[1] = "count blocks" THEN <<Feat("BasicBlock", "")>>
                 ELSE BuildFeatureLeaf(key[2], key[3])
    IN  IF \/ value.kind # "scalar" \/ range = <<>> \/ feat = <<>>
           \/ key[1] = "count" /\ ~IsFeatureAllowed(feat[1].tag, s)
        THEN Failed
        ELSE Add(nodes, Count(feat[1], range[1][1], range[1][2]))

\* A leaf; the only sibling key it may have is a scalar description.
ParseLeaf(node, key, value, s, nodes) ==
    LET feat == BuildFeatureLeaf(key, value)
    IN  IF /\ value.kind = "scalar"
           /\ \A k \in 2..Len(node.pairs) :
                 node.pairs[k][1][1] = "description" /\ node.pairs[k][2].kind = "scalar"
           /\ feat # <<>>
           /\ IsFeatureAllowed(feat[1].tag, s)
           /\ feat[1].tag = "Characteristic" => IsCharacteristicAllowed(feat[1].datum, s)
        THEN Add(nodes, Leaf(feat[1])) ELSE Failed

\* The first key of an item drives the dispatch.
ParseStatementItem(node, s, nodes) ==
    LET key   == node.pairs[1][1]
        value == node.pairs[1][2]
    IN  CASE node.kind # "map" -> Failed
          [] node.kind = "map" /\ node.pairs = <<>> -> Failed
          [] key[1] \in Operators -> ParseOperator(key, ParseStatementChildren(value, s, nodes))
          [] key[1] \in Subscopes -> ParseSubscope(key, value, s, nodes)
          [] key[1] \in {"com/class", "com/interface"} -> ParseCom(value, s, nodes)
          [] key[1] \in {"count", "count blocks"} -> ParseCount(key, value, s, nodes)
          [] OTHER -> ParseLeaf(node, key, value, s, nodes)

\* parse_features_root: several statements are an implicit and.
ImplicitAnd(r) == IF ~r.ok \/ Len(r.kids) = 1 THEN r ELSE Add(r.nodes, And(r.kids))

ParseFeaturesRoot(value, s) ==
    IF value.kind # "seq" THEN Failed
    ELSE IF value.items = <<>> THEN Failed
    ELSE ImplicitAnd(ParseStatementChildren(value, s, <<>>))

-----------------------------------------------------------------------------
(* The rule: its meta block and its statement.                             *)

ScopeNames == StaticScopes \cup DynamicScopes \cup {"global", "unsupported"}

NoMeta == [ok |-> TRUE, name |-> <<>>, ns |-> <<>>, static |-> "unsupported"]

IsScalar(node)     == node.kind = "scalar"
IsScalarList(node) == node.kind = "seq" /\ \A k \in DOMAIN node.items : IsScalar(node.items[k])
IsScope(node)      == IsScalar(node) /\ node.val \in ScopeNames

\* One key of the meta mapping; a later key overrides an earlier one.
MetaKey(meta, pair) ==
    LET word == pair[1][1]
        val  == pair[2]
        fail == [meta EXCEPT !.ok = FALSE]
    IN  CASE word = "name" -> IF IsScalar(val) THEN [meta EXCEPT !.name = val.val] ELSE fail
          [] word = "namespace" ->
                 IF ~IsScalar(val) THEN fail
                 ELSE IF val.val = <<>> THEN meta ELSE [meta EXCEPT !.ns = val.val]
          [] word = "scope" -> IF IsScope(val) THEN [meta EXCEPT !.static = val.val] ELSE fail
          [] word = "scopes" ->
                 IF \/ val.kind # "map"
                    \/ \E k \in DOMAIN val.pairs : \/ ~IsScope(val.pairs[k][2])
                                                   \/ val.pairs[k][1][1] \notin {"static", "dynamic"}
                 THEN fail
                 ELSE FoldLeft(LAMBDA m, p : IF p[1][1] = "static" THEN [m EXCEPT !.static = p[2].val]
                                             ELSE m, meta, val.pairs)
          [] word \in {"authors", "att&ck", "mbc", "examples", "references"} ->
                 IF IsScalarList(val) THEN meta ELSE fail
          [] word \in {"description", "lib"} -> IF IsScalar(val) THEN meta ELSE fail
          [] OTHER -> meta

ParseMeta(node) ==
    LET meta == FoldLeft(LAMBDA m, p : IF m.ok THEN MetaKey(m, p) ELSE m, NoMeta, node.pairs)
    IN  [meta EXCEPT !.ok = @ /\ meta.name # <<>>]

\* Rule::scope: a rule without a static scope is given the default one.
RuleScope(static) == IF static = "unsupported" THEN "function" ELSE static

\* RuleParser::parse: a rule, or nothing when an error is reported.
Parse(doc) ==
    LET rule  == Find(doc, "rule")[1][2]
        meta  == ParseMeta(Find(rule, "meta")[1][2])
        home  == RuleScope(meta.static)
        made(r) == IF ~r.ok THEN <<>>
                   ELSE <<[name |-> meta.name, ns |-> meta.ns, scope |-> home, nodes |-> r.nodes,
                           root |-> Len(r.nodes), parent |-> <<>>]>>
        IsMap(node, word) == Find(node, word) # <<>> /\ Find(node, word)[1][2].kind = "map"
    IN  IF /\ doc.kind = "map" /\ IsMap(doc, "rule") /\ IsMap(rule, "meta") /\ meta.ok
           /\ Find(rule, "features") # <<>>
        THEN made(ParseFeaturesRoot(Find(rule, "features")[1][2], home))
        ELSE <<>>

\* parse_rule_files: a document that does not parse is skipped.
ParseRuleFiles(docs) == FlattenSeq([k \in DOMAIN docs |-> Parse(docs[k])])
=============================================================================
