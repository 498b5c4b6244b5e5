------------------------------- MODULE Flirt -------------------------------
(***************************************************************************)
(* Library identification by FLIRT signatures (flirt/flirt_classifier.cpp, *)
(* flirt/flirt_matcher.cpp, flirt/flirt_tree.cpp and                       *)
(* viv/flirt_analysis.cpp): as each function is reported, the signature    *)
(* packs are tried on it in turn.  A module of a pack that matches the     *)
(* bytes still has to have its references confirmed, which classifies the  *)
(* referenced functions first, with a cache of answers per pack, a         *)
(* tentative negative against cycles and a cap on the depth.  A match      *)
(* names the functions of its module, makes those of its local names that  *)
(* are still undefined, and making one analyses it in turn.                *)
(*                                                                         *)
(* Two actions: a function is decoded, and it is reported                  *)
(* (Discovery::on_function); in any order, since a caller is reported      *)
(* after its callees and pointers let any function be met first.           *)
(* The code is static: bytes, the span each function's decoding defines,   *)
(* and the reference each instruction emits.  Bytes are small numbers and  *)
(* the CRC of a tail is the parity of its sum, so that two tails can       *)
(* collide.                                                                *)
(***************************************************************************)
EXTENDS Integers, Sequences, SequencesExt, FiniteSets, TLC

CONSTANTS Scenes,        \* images with the packs to try on them
          MatchWindow,   \* kMatchWindow
          PatternLength, \* kMaxPatternLength
          MaxDepth       \* kMaxClassifyDepth

ASSUME FlirtAssumption ==
    /\ MatchWindow \in Nat \ {0} /\ PatternLength \in Nat /\ MaxDepth \in Nat

None == "none"      \* no name
NoTarget == -1      \* no reference

VARIABLES scene,  \* the image and the packs
          lib     \* what the analysis knows: see Init

vars == <<scene, lib>>

-----------------------------------------------------------------------------
(* The signature tree.                                                     *)

\* The largest window, halved until it ends inside the image.
CodeAt(va) ==
    LET fits == {k \in 0..MatchWindow : va + MatchWindow \div 2^k =< scene.size}
        w    == MatchWindow \div 2^(CHOOSE k \in fits : \A j \in fits : k =< j)
    IN  IF fits = {} THEN <<>> ELSE [i \in 1..w |-> scene.mem[va + i - 1]]

\* Offsets of a pattern that are not in the domain of bytes are wildcards.
PatternMatches(pat, buf) ==
    /\ Len(buf) >= pat.length
    /\ \A i \in DOMAIN pat.bytes : buf[i + 1] = pat.bytes[i]

Crc16(bytes) == FoldSeq(LAMBDA b, sum : (sum + b) % 2, 0, bytes)

ModuleVerifies(m, buf) ==
    LET end == PatternLength + m.tail
    IN  /\ Len(buf) >= end
        /\ Crc16(SubSeq(buf, PatternLength + 1, end)) = m.crc
        /\ \A off \in DOMAIN m.tailBytes :
               end + off < Len(buf) /\ buf[end + off + 1] = m.tailBytes[off]

\* A node whose pattern fails prunes its subtree.
RECURSIVE MatchModules(_, _)
MatchModules(node, buf) ==
    IF ~PatternMatches(node.pattern, buf) THEN <<>>
    ELSE SelectSeq(node.modules, LAMBDA m : ModuleVerifies(m, buf))
         \o FlattenSeq([k \in DOMAIN node.children |-> MatchModules(node.children[k], buf)])

\* The first name at offset 0, local or public.
MatchName(m) ==
    LET named == SelectSeq(m.names, LAMBDA n : n.off = 0)
    IN  IF named = <<>> THEN None ELSE named[1].name

-----------------------------------------------------------------------------
(* The classifier and the analyzer.  They call each other through          *)
(* on_match and make_function, so one recursion threads the state s        *)
(* through both: decoded the functions whose code is defined, fn the       *)
(* reported ones, names library_names_, cache the cache of the running     *)
(* classifier; ever, first and rematched are history: the names ever       *)
(* given, the names at hand when a function was reported, and the named    *)
(* functions that were matched again.                                      *)

Put(f, k, v) == (k :> v) @@ f
Defined(s, va) == \E f \in s.decoded : va \in scene.body[f]

\* resolve_xref of the instruction that contains the site, if there is one.
XrefFrom(s, site) == IF Defined(s, site) /\ site \in DOMAIN scene.xref
                     THEN scene.xref[site] ELSE [code |-> FALSE, to |-> NoTarget]

LibraryLookup(s, va) == IF va \in DOMAIN s.names THEN s.names[va] ELSE None
NameIt(s, va, name) ==
    IF va \notin s.fn THEN s
    ELSE [s EXCEPT !.names = Put(@, va, name), !.ever = @ \cup {<<va, name>>}]

RECURSIVE ClassifyAt(_, _, _, _), Survivors(_, _, _, _, _, _), References(_, _, _, _, _),
          ApplyNames(_, _, _), Enter(_, _), OnFunction(_, _), TryPacks(_, _, _)

\* Mutant of References: the target's name is not compared.
ReferencesAnyName(s, p, va, depth, refs) ==
    [s |-> s, ok |-> \A k \in DOMAIN refs : XrefFrom(s, va + refs[k].off).code = (refs[k].name # ".")]

\* references_satisfied: the state after the nested classifications, and the verdict.
References(s, p, va, depth, refs) ==
    IF refs = <<>> THEN [s |-> s, ok |-> TRUE]
    ELSE LET ref  == Head(refs)
             xref == XrefFrom(s, va + ref.off)
             sub  == ClassifyAt(s, p, xref.to, depth + 1).s
         IN  CASE xref.to = NoTarget \/ xref.code = (ref.name = ".") -> [s |-> s, ok |-> FALSE]
               [] ref.name = "." -> References(s, p, va, depth, Tail(refs))
               [] LibraryLookup(sub, xref.to) # ref.name -> [s |-> sub, ok |-> FALSE]
               [] OTHER -> References(sub, p, va, depth, Tail(refs))

\* The candidates in order; two that survive with different names confer none.
Survivors(s, p, va, depth, mods, winner) ==
    IF mods = <<>>
    THEN IF winner = <<>> THEN [s |-> s, name |-> None]
         ELSE LET siblings == FoldLeft(LAMBDA c, n : IF n.off = 0 THEN c ELSE Put(c, va + n.off, n.name),
                                       s.cache, winner[1].names)
                  named    == ApplyNames([s EXCEPT !.cache = siblings], va, winner[1].names)
              IN  [s |-> [named EXCEPT !.cache = Put(siblings, va, MatchName(winner[1]))],
                   name |-> MatchName(winner[1])]
    ELSE LET m == Head(mods)
             r == References(s, p, va, depth, m.refs)
         IN  CASE ~r.ok \/ MatchName(m) = None -> Survivors(r.s, p, va, depth, Tail(mods), winner)
               [] winner = <<>> -> Survivors(r.s, p, va, depth, Tail(mods), <<m>>)
               [] winner # <<>> /\ MatchName(winner[1]) # MatchName(m) -> [s |-> r.s, name |-> None]
               [] OTHER -> Survivors(r.s, p, va, depth, Tail(mods), winner)

\* classify_at.  The depth cap and a target that is no function leave the cache alone.
ClassifyAt(s, p, va, depth) ==
    CASE va \in DOMAIN s.cache -> [s |-> s, name |-> s.cache[va]]
      [] va \notin DOMAIN s.cache /\ (depth >= MaxDepth \/ va \notin s.fn) -> [s |-> s, name |-> None]
      [] OTHER ->
           Survivors([s EXCEPT !.cache = Put(@, va, None),
                               !.rematched = @ \cup ({va} \cap DOMAIN s.names)],
                     p, va, depth, MatchModules(p, CodeAt(va)), <<>>)

\* The functions that t calls, in the order of its calls.
Callees(t) ==
    LET sites == {x \in scene.body[t] \cap DOMAIN scene.xref : scene.xref[x].code}
    IN  [k \in 1..Cardinality(sites) |-> scene.xref[SetToSortSeq(sites, <)[k]].to]

\* add_entry_point: a function not entered before is decoded, the functions it
\* calls are entered and reported, then it is reported itself.
Enter(s, t) ==
    IF t \in s.decoded \/ t \notin DOMAIN scene.body THEN s
    ELSE LET flowed == FoldLeft(LAMBDA q, c : Enter(q, c), [s EXCEPT !.decoded = @ \cup {t}], Callees(t))
         IN  OnFunction([flowed EXCEPT !.fn = @ \cup {t}], t)

\* make_function_ of engine.cpp, for a local name: only where the address is
\* undefined and executable.
MakeFunction(s, t) == IF t \in s.fn \/ Defined(s, t) THEN s ELSE Enter(s, t)

\* apply_names: the local names first, then the public ones.
ApplyNames(s, va, names) ==
    LET Of(type)    == SelectSeq(names, LAMBDA n : n.type = type)
        Local(q, n) == NameIt(MakeFunction(q, va + n.off), va + n.off, n.name)
        Public(q, n) == NameIt(q, va + n.off, n.name)
    IN  FoldLeft(Public, FoldLeft(Local, s, Of("local")), Of("public"))

\* Mutant of TryPacks: one cache for all packs.
TryPacksOneCache(s, va, packs) ==
    IF packs = <<>> \/ va \in DOMAIN s.names THEN s
    ELSE TryPacks(ClassifyAt(s, Head(packs), va, 0).s, va, Tail(packs))

\* FlirtDiscoveryAnalyzer::on_function: a fresh cache per pack, until one names va.
TryPacks(s, va, packs) ==
    IF packs = <<>> \/ va \in DOMAIN s.names THEN s
    ELSE TryPacks(ClassifyAt([s EXCEPT !.cache = <<>>], Head(packs), va, 0).s, va, Tail(packs))

OnFunction(s, va) ==
    [TryPacks([s EXCEPT !.first = Put(@, va, s.names)], va, scene.packs) EXCEPT !.cache = s.cache]

-----------------------------------------------------------------------------
Init ==
    /\ scene \in Scenes
    /\ lib = [decoded |-> {}, fn |-> {}, names |-> <<>>, cache |-> <<>>,
              ever |-> {}, first |-> <<>>, rematched |-> {}]

Decode(va) ==
    /\ va \notin lib.decoded
    /\ lib' = [lib EXCEPT !.decoded = @ \cup {va}]
    /\ UNCHANGED scene

Report(va) ==
    /\ va \in lib.decoded \ lib.fn
    /\ lib' = OnFunction([lib EXCEPT !.fn = @ \cup {va}], va)
    /\ UNCHANGED scene

Done == lib.fn = DOMAIN scene.body /\ UNCHANGED vars

Next == Done \/ \E va \in DOMAIN scene.body : Decode(va) \/ Report(va)

Spec == Init /\ [][Next]_vars

-----------------------------------------------------------------------------
(* Properties.                                                             *)

Packs == {scene.packs[k] : k \in DOMAIN scene.packs}
Matching(p, va) == LET ms == MatchModules(p, CodeAt(va)) IN {ms[k] : k \in DOMAIN ms}

\* The references of m at va, confirmed by a set of (function, name) pairs.
Confirmed(m, va, named) ==
    \A k \in DOMAIN m.refs :
        LET x == XrefFrom(lib, va + m.refs[k].off)
        IN  x.to # NoTarget /\ IF m.refs[k].name = "." THEN ~x.code
                           ELSE x.code /\ <<x.to, m.refs[k].name>> \in named

\* Every library name belongs to a reported function and was earned: some
\* function's bytes match a module that carries the name at that distance,
\* and each named reference of the module leads to a function that was itself
\* given the referenced name (classify_at, references_satisfied, apply_names,
\* through every nesting of packs, caches and made functions).
NamesEarned ==
    \A <<va, name>> \in lib.ever :
        /\ va \in lib.fn
        /\ \E p \in Packs, w \in lib.fn : \E m \in Matching(p, w) :
               /\ \E k \in DOMAIN m.names : va = w + m.names[k].off /\ m.names[k].name = name
               /\ Confirmed(m, w, lib.ever)

\* A function is left unnamed only for a reason: when it was reported, each
\* pack either had no matching module whose references were already named
\* library functions, or has modules for these bytes that disagree on the name.
\* A reference to a function that was matched again does not count: its name
\* may be gone (NotRematched).  Neither the answers cached for another pack, nor a tentative negative,
\* nor the depth cap loses a match whose references are settled.
UnnamedForAReason ==
    \A va \in lib.fn \ DOMAIN lib.names : \A p \in Packs :
        LET at    == lib.first[va]
            cands == {m \in Matching(p, va) : MatchName(m) # None}
        IN  \/ ~\E m \in cands : Confirmed(m, va, {<<t, at[t]>> : t \in DOMAIN at \ lib.rematched})
            \/ Cardinality({MatchName(m) : m \in cands}) > 1

\* A function that has a library name is not matched again.
NotRematched == lib.rematched = {}
=============================================================================
