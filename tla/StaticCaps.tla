----------------------------- MODULE StaticCaps -----------------------------
(***************************************************************************)
(* find_static_capabilities (capabilities/static_.cpp), the whole static   *)
(* pass: rule documents are parsed and built into a rule set, features are *)
(* extracted and matched instruction by instruction, what matched bubbles  *)
(* up to the block, the function and the file, and the matches of the      *)
(* functions are reduced in order.                                         *)
(*                                                                         *)
(* Workers claim functions as in RunIndexed; a claimed function advances   *)
(* one block per step, in any interleaving with the others.                *)
(***************************************************************************)
EXTENDS RuleMatch, RuleParser, Extraction

CONSTANTS
    DocSets,        \* the lists of rule documents
    Images(_),      \* the images a list of documents is run over
    Workers         \* how many functions are analysed at a time

VARIABLES
    docs,           \* the rule documents
    image,          \* the image, with its recovered functions, image.fns
    next_fn,        \* the functions claimed
    slots,          \* FunctionSlot per claimed function
    reduced,        \* all_fn, all_bb and all_insn_matches, libraries, counts
    report          \* StaticCapabilities

staticVars == <<docs, image, next_fn, slots, reduced, report>>
vars       == <<buildVars, matchVars, staticVars>>

\* A list of matches: the entries <<rule, address>> of MatchResults, those of
\* one rule in the order they were appended.
NoCaps == [fn |-> <<>>, bb |-> <<>>, insn |-> <<>>, libs |-> <<>>, counts |-> <<>>]

Init ==
    /\ docs \in DocSets
    /\ rules = ParseRuleFiles(docs)
    /\ MatchInit
    /\ image \in Images(docs)
    /\ next_fn = 0 /\ slots = <<>>
    /\ reduced = NoCaps /\ report = <<>>

-----------------------------------------------------------------------------
(* Feature sets and matches.                                               *)

\* add_all of extracted pairs, merge_in of a set below.
FeatureSetOf(pairs) ==
    [f \in {p[1] : p \in pairs} |-> {p[2] : p \in {q \in pairs : q[1] = f}}]

MergeIn(a, b) ==
    [f \in DOMAIN a \cup DOMAIN b |->
        (IF f \in DOMAIN a THEN a[f] ELSE {}) \cup (IF f \in DOMAIN b THEN b[f] ELSE {})]

\* The entries of one match, in the order of the scope's rules.
EntriesOf(s, caps, at) ==
    LET hit == SelectSeq(Order(s), LAMBDA n : n \in DOMAIN caps.out)
    IN  [k \in DOMAIN hit |-> <<hit[k], at>>]

Globals == FeatureSetOf(GlobalFeatures(image))

-----------------------------------------------------------------------------
(* The per-scope passes.                                                   *)

InstructionCaps(fn, b, n) ==
    RuleSetMatch("instruction", MergeIn(FeatureSetOf(InsnFeatures(image, fn, b, n)), Globals),
                 fn.blocks[b].insns[n].va)

\* Mutant: what matched in the instructions is not passed up.
BlockCapsUnmerged(bb, insn) ==
    LET feats == FoldLeft(LAMBDA acc, caps : MergeIn(acc, [f \in {g \in DOMAIN caps.fs : g.tag # "MatchedRule"} |-> caps.fs[f]]),
                          Empty, insn)
        own   == RuleSetMatch("basic block", MergeIn(MergeIn(feats, FeatureSetOf(BlockFeatures(bb))), Globals),
                              bb.va)
    IN  [fs |-> own.fs, bb |-> EntriesOf("basic block", own, bb.va),
         insn |-> FlattenSeq([n \in DOMAIN bb.insns |->
                                 EntriesOf("instruction", insn[n], bb.insns[n].va)])]

\* find_basic_block_capabilities; insn has what each instruction's pass returned.
BlockCaps(bb, insn) ==
    LET feats == FoldLeft(LAMBDA acc, caps : MergeIn(acc, caps.fs), Empty, insn)
        own   == RuleSetMatch("basic block", MergeIn(MergeIn(feats, FeatureSetOf(BlockFeatures(bb))), Globals),
                              bb.va)
    IN  [fs |-> own.fs, bb |-> EntriesOf("basic block", own, bb.va),
         insn |-> FlattenSeq([n \in DOMAIN bb.insns |->
                                 EntriesOf("instruction", insn[n], bb.insns[n].va)])]

StartStatic ==
    /\ phase = "built"
    /\ phase' = "static"
    /\ UNCHANGED <<indexVars, unsorted, kahnVars, by_scope_topo, needs, error, matchVars, staticVars>>

NewSlot(library) ==
    [done |-> library, library |-> library, block |-> 0, fs |-> Empty,
     fn |-> <<>>, bb |-> <<>>, insn |-> <<>>, count |-> 0]

\* analyze_one starts: a library function is skipped entirely.
Claim ==
    /\ phase = "static" /\ next_fn < Len(image.fns)
    /\ Cardinality({i \in DOMAIN slots : ~slots[i].done}) < Workers
    /\ next_fn' = next_fn + 1
    /\ slots' = Append(slots, NewSlot(IsLibraryFunction(image, image.fns[next_fn + 1])))
    /\ UNCHANGED <<buildVars, matchVars, docs, image, reduced, report>>

WithBlock(slot, caps) ==
    [slot EXCEPT !.block = @ + 1, !.fs = MergeIn(@, caps.fs), !.bb = @ \o caps.bb, !.insn = @ \o caps.insn]

AnalyzeBlock(i) ==
    /\ phase = "static" /\ ~slots[i].done
    /\ slots[i].block < Len(image.fns[i].blocks)
    /\ LET b  == slots[i].block + 1
           bb == image.fns[i].blocks[b]
       IN  slots' = [slots EXCEPT ![i] =
                       WithBlock(@, BlockCaps(bb, [n \in DOMAIN bb.insns |-> InstructionCaps(image.fns[i], b, n)]))]
    /\ UNCHANGED <<buildVars, matchVars, docs, image, next_fn, reduced, report>>

FinishFunction(i) ==
    /\ phase = "static" /\ ~slots[i].done
    /\ slots[i].block = Len(image.fns[i].blocks)
    /\ LET fn   == image.fns[i]
           caps == RuleSetMatch("function",
                       MergeIn(MergeIn(slots[i].fs, FeatureSetOf(FunctionFeatures(image, fn))), Globals),
                       fn.va)
       IN  slots' = [slots EXCEPT ![i].done = TRUE, ![i].fs = caps.fs,
                                  ![i].fn = EntriesOf("function", caps, fn.va),
                                  ![i].count = Cardinality(DOMAIN caps.fs)]
    /\ UNCHANGED <<buildVars, matchVars, docs, image, next_fn, reduced, report>>

-----------------------------------------------------------------------------
(* The reduction and the file scope.                                       *)

AllDone == next_fn = Len(image.fns) /\ \A i \in DOMAIN slots : slots[i].done

\* One slot of the reduction, in the order of the functions.
ReduceSlot(acc, i) ==
    IF slots[i].library
    THEN [acc EXCEPT !.libs = Append(@, image.fns[i].va), !.counts = Append(@, 0)]
    ELSE [acc EXCEPT !.counts = Append(@, slots[i].count), !.fn = @ \o slots[i].fn,
                     !.bb = @ \o slots[i].bb, !.insn = @ \o slots[i].insn]

Reduce ==
    /\ phase = "static" /\ AllDone
    /\ reduced' = FoldLeft(ReduceSlot, NoCaps, [i \in DOMAIN slots |-> i])
    /\ phase' = "reduced"
    /\ UNCHANGED <<indexVars, unsorted, kahnVars, by_scope_topo, needs, error, matchVars,
                   docs, image, next_fn, slots, report>>

\* inject_match_features
InjectMatchFeatures(feats, entries) ==
    FoldLeft(LAMBDA acc, e : IndexRuleMatches(acc, by_name[e[1]], {e[2]}), feats, entries)

\* file_scope_feature_set, the injected matches and the match at the base.
MatchFile ==
    /\ phase = "reduced"
    /\ LET below == reduced.fn \o reduced.bb \o reduced.insn
           feats == InjectMatchFeatures(MergeIn(FeatureSetOf(FileFeatures(image)), Globals), below)
           caps  == RuleSetMatch("file", feats, image.base)
       IN  report' = EntriesOf("file", caps, image.base) \o below
    /\ phase' = "reported"
    /\ UNCHANGED <<indexVars, unsorted, kahnVars, by_scope_topo, needs, error, matchVars,
                   docs, image, next_fn, slots, reduced>>

Next ==
    \/ MatchNext /\ UNCHANGED staticVars
    \/ StartStatic \/ Claim \/ Reduce \/ MatchFile
    \/ \E i \in DOMAIN slots : AnalyzeBlock(i) \/ FinishFunction(i)

Spec == Init /\ [][Next]_vars

-----------------------------------------------------------------------------
(***************************************************************************)
(* Properties                                                              *)
(***************************************************************************)

\* The code units an analysed function has: <<scope, address, what was
\* extracted from it and below it, the addresses of it and below it>>.
InsnUnits(fn) ==
    {[scope |-> "instruction", va |-> fn.blocks[b].insns[n].va, within |-> {<<"instruction", fn.blocks[b].insns[n].va>>},
      feats |-> InsnFeatures(image, fn, b, n)] :
        <<b, n>> \in UNION {{b} \X DOMAIN fn.blocks[b].insns : b \in DOMAIN fn.blocks}}

Above(s, va, parts, own) ==
    [scope |-> s, va |-> va, feats |-> own \cup UNION {u.feats : u \in parts},
     within |-> {<<s, va>>} \cup UNION {u.within : u \in parts}]

BlockUnits(fn) ==
    {Above("basic block", bb.va,
           {u \in InsnUnits(fn) : \E n \in DOMAIN bb.insns : u.va = bb.insns[n].va}, BlockFeatures(bb)) :
        bb \in ToSet(fn.blocks)}

FunctionUnit(fn) == Above("function", fn.va, InsnUnits(fn) \cup BlockUnits(fn), FunctionFeatures(image, fn))

Units ==
    UNION {InsnUnits(fn) \cup BlockUnits(fn) \cup {FunctionUnit(fn)} :
             fn \in {g \in ToSet(image.fns) : ~IsLibraryFunction(image, g)}}

\* What the report publishes at the places in within.
Published(within) ==
    UNION {{<<MatchedRule(name), e[2]>> : name \in {e[1]} \cup NamespaceHierarchy(by_name[e[1]])} :
             e \in {x \in ToSet(report) : <<by_name[x[1]].scope, x[2]>> \in within}}

Holds(n, pairs) ==
    EvaluateQuick(by_name[n].nodes, by_name[n].root,
                  FeatureSetOf(pairs \cup GlobalFeatures(image)))

\* The report is exact: a rule is in it at an instruction, block or function,
\* once, if and only if its statement holds there of all that was extracted at
\* that place and below it, with all that the report says matched there and
\* below; at the file, of the file's features and everything that matched.
\* Nothing below a library function counts.  So no match is lost or invented
\* between one scope and the next, whichever worker analysed what.  Rules that
\* refer to themselves are left out: what they read of their own match depends
\* on when it is looked at.
ReportExact ==
    phase = "reported" => \A units \in {Units} :
        LET unitOf(n) == {u \in units : u.scope = by_name[n].scope}
            all       == {<<u.scope, u.va>> : u \in units}
            times(n, va) == Cardinality({k \in DOMAIN report : report[k] = <<n, va>>})
        IN  \A n \in {m \in DOMAIN by_name : ~SelfReferring(m)} :
               IF by_name[n].scope = "file"
               THEN times(n, image.base) =
                      IF Holds(n, FileFeatures(image) \cup Published(all \cup {<<"file", image.base>>})) THEN 1 ELSE 0
               ELSE /\ \A u \in unitOf(n) :
                          times(n, u.va) = IF Holds(n, u.feats \cup Published(u.within)) THEN 1 ELSE 0
                    /\ \A k \in DOMAIN report : report[k][1] = n => \E u \in unitOf(n) : u.va = report[k][2]

-----------------------------------------------------------------------------
(* Parser and extractors.                                                  *)

\* The nodes of a rule's statement.
Reachable(rule) ==
    LET below[i \in 1..rule.root] ==
            {i} \cup UNION {below[rule.nodes[i].kids[k]] : k \in DOMAIN rule.nodes[i].kids}
    IN  {rule.nodes[i] : i \in below[rule.root]}

\* After subscope blocks have become rules of their own, no rule of the set
\* asks its scope for a feature that only a higher scope has: the parser judged
\* every leaf at the scope it is matched at.  (The parser does not judge the
\* name in a count of characteristics.)
LeavesLegal ==
    Built =>
        \A i \in DOMAIN rules : \A node \in Reachable(rules[i]) :
            node.kind = "feature" =>
                /\ IsFeatureAllowed(node.feat.tag, rules[i].scope)
                /\ node.feat.tag = "Characteristic" =>
                      IsCharacteristicAllowed(node.feat.datum, rules[i].scope)

FileUnit == [scope |-> "file", feats |-> FileFeatures(image) \cup GlobalFeatures(image)]

\* Every feature the extractors emit at a scope, the file's included, can be
\* asked for at that scope and at each one it bubbles up to, but for the
\* BasicBlock marker; the global features can be asked for at the file.
ExtractedIsAskable ==
    phase = "static" =>
        \A u \in Units \cup {FileUnit} : \A f \in {p[1] : p \in u.feats} :
            \/ f.tag = "BasicBlock"
            \/ /\ IsFeatureAllowed(f.tag, u.scope)
               /\ f.tag = "Characteristic" => IsCharacteristicAllowed(f.datum, u.scope)

-----------------------------------------------------------------------------
(* The analyses behind the features.                                       *)

\* The blocks reached from block b by one or more edges.
ReachedFrom(fn, b) ==
    LET grow[k \in 0..Len(fn.blocks)] ==
            IF k = 0 THEN ToSet(Succ(fn, b))
            ELSE grow[k - 1] \cup UNION {ToSet(Succ(fn, c)) : c \in grow[k - 1]}
    IN  grow[Len(fn.blocks)]

\* A function has the characteristic loop if and only if some block is reached
\* from itself through another one.
LoopIsCycle ==
    phase = "static" =>
        \A i \in DOMAIN image.fns :
            LET fn == image.fns[i]
            IN  (<<Char("loop"), fn.va>> \in FunctionFeatures(image, fn))
                  = \E b \in DOMAIN fn.blocks : b \in ReachedFrom(fn, b)

\* A write that leaves nothing of the register's old value: one as wide as what
\* is read and, where extend, one of 32 bits, which on x64 clears the upper half.
\* A write of 8 or 16 bits changes a part only: the code steps past it on purpose.
Overwrites(ins, reg, width, extend) ==
    /\ HasOp(ins, 1) /\ Op(ins, 1).kind = "reg" /\ Op(ins, 1).reg = reg
    /\ Op(ins, 1).width >= width \/ (extend /\ image.is64 /\ Op(ins, 1).width = 4)
    /\ ins.mn \in {"mov", "lea", "pop", "xor"}

OverwritesIn(bb, reg, width, extend) ==
    {n \in DOMAIN bb.insns : Overwrites(bb.insns[n], reg, width, extend)}

\* The blocks from whose end control can arrive at the entry of b without
\* meeting an instruction that overwrites the register.
Transparent(fn, b, reg, width, extend) ==
    LET free(p) == OverwritesIn(fn.blocks[p], reg, width, extend) = {}
        into(p) == {q \in DOMAIN fn.blocks : fn.blocks[p].va \in ToSet(fn.blocks[q].succ)}
        grow[k \in 0..Len(fn.blocks)] ==
            IF k = 0 THEN into(b)
            ELSE grow[k - 1] \cup UNION {into(c) : c \in {d \in grow[k - 1] : free(d)}}
    IN  grow[Len(fn.blocks)]

\* The n-th instruction of block b calls through a register.
IndirectCall(fn, b, n) ==
    LET ins == fn.blocks[b].insns[n]
    IN  ins.call /\ HasOp(ins, 1) /\ Op(ins, 1).kind = "reg"

\* On some path from the definition that find_definition gives the call to the
\* call, nothing overwrites the register.
DefinitionArrives(fn, b, n, extend) ==
    LET reg   == Op(fn.blocks[b].insns[n], 1).reg
        width == Op(fn.blocks[b].insns[n], 1).width
        def   == FindDefinition(fn, b, n, reg, width)
        d     == def[1]
        later == {k \in OverwritesIn(fn.blocks[d[1]], reg, width, extend) : k > d[2]}
    IN  def # None =>
           IF d[1] = b /\ d[2] < n
           THEN \A k \in later : k >= n
           ELSE later = {} /\ d[1] \in Transparent(fn, b, reg, width, extend)

\* Some instruction of the function writes 32 bits of the register that the
\* call reads 64 bits of.
ZeroExtends(fn, b, n) ==
    LET op == Op(fn.blocks[b].insns[n], 1)
    IN  \E p \in DOMAIN fn.blocks : \E ins \in ToSet(fn.blocks[p].insns) :
            /\ Overwrites(ins, op.reg, op.width, TRUE)
            /\ ~Overwrites(ins, op.reg, op.width, FALSE)

\* The definition an indirect call is resolved with arrives at the call: not on
\* every path, but on one (the walk of indirect_calls.cpp ends at the nearest).
\* One exception is stated as the code has it: it says that a 32-bit write
\* zero-extends on x64 (indirect_calls.cpp:29-30), yet compares only the widths
\* (line 33), so that a definition may be given that such a write replaced.
SliceReaches ==
    phase = "static" =>
        \A fn \in ToSet(image.fns) : \A b \in DOMAIN fn.blocks : \A n \in DOMAIN fn.blocks[b].insns :
            IndirectCall(fn, b, n) =>
                \/ DefinitionArrives(fn, b, n, TRUE)
                \/ ZeroExtends(fn, b, n) /\ DefinitionArrives(fn, b, n, FALSE)

-----------------------------------------------------------------------------
(* What a comment of the code says, and the code does not do.              *)

DeclaredStatic(doc) == ParseMeta(Find(Find(doc, "rule")[1][2], "meta")[1][2])

\* rule.h, Scopes: an absent scope signals "do not match in that pipeline", so
\* a rule without a static scope has no match in a static report.
UnsupportedNotMatched ==
    phase = "reported" =>
        \A k \in DOMAIN docs : DeclaredStatic(docs[k]).static = "unsupported" =>
            \A e \in ToSet(report) : e[1] # DeclaredStatic(docs[k]).name
=============================================================================
