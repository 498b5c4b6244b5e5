---------------------------- MODULE MCStaticCaps ----------------------------
(***************************************************************************)
(* Rule documents and images for TLC.  The corpora of three rules read     *)
(* each other by name, by namespace, under not, under count and in nested  *)
(* subscopes, and meet an image without code; a corpus with rules of every *)
(* scope meets images with code, one of them with something for every      *)
(* extractor, the others with every flow graph of three blocks.            *)
(***************************************************************************)
EXTENDS StaticCaps

MCAny == "any"
MCHere == 1
Lim == <<7>>

-----------------------------------------------------------------------------
(* Rule documents.                                                         *)

Text(v)      == Scalar("text", v)
Lf(word, v)  == Item(<<word>>, Text(v))
A            == Lf("api", <<"dll", "f">>)
B            == Lf("mnemonic", "mov")
Scan         == Lf("substring", <<3>>)
Match(x)     == Lf("match", x)
AllOf(items)   == Item(<<"and">>, Sequence(items))
OneOf(items)   == Item(<<"or">>, Sequence(items))
No(item)     == Item(<<"not">>, Sequence(<<item>>))
In(s, items) == Item(<<s>>, Sequence(items))
Bound(form, n) == Scalar("range", <<form, n>>)
Times(word, v, range) == Item(<<"count", <<word>>, Text(v)>>, range)

Doc(name, ns, s, items) ==
    Item(<<"rule">>, Mapping(<<
        <<<<"meta">>, Mapping(<< <<<<"name">>, Text(name)>>, <<<<"namespace">>, Text(ns)>>,
                                 <<<<"scopes">>, Mapping(<< <<<<"static">>, Text(s)>>,
                                                            <<<<"dynamic">>, Text("unsupported")>> >>)>> >>)>>,
        <<<<"features">>, Sequence(items)>> >>))

First ==
    {Doc(<<1>>, ns, "file", st) : ns \in {<<7>>, <<8>>},
        st \in {<<B, Match(<<8>>)>>, <<No(Match(<<8>>))>>, <<No(Match(<<2>>))>>,
                <<OneOf(<<Scan, Match(<<3>>)>>)>>,
                <<OneOf(<<In("basic block", <<B>>),
                        In("basic block", <<Match(<<2>>), In("instruction", <<A>>)>>)>>)>>}}

Second ==
    {Doc(<<2>>, ns, "file", st) : ns \in {<<8>>, <<>>},
        st \in {<<A>>, <<No(Match(<<3>>))>>, <<OneOf(<<A, Match(<<8>>)>>)>>, <<A, Match(<<99>>)>>,
                <<Times("match", <<1>>, Bound("exact", 1))>>}}

Third ==
    {Doc(<<3>>, ns, s, st) : ns \in {<<8, 5>>, <<7, 1>>}, s \in {"file", "function"},
        st \in {<<B>>, <<B, Match(<<1>>)>>, <<OneOf(<<Scan, Match(<<2>>)>>)>>}}

\* A repeated name, and a source rule named like a synthetic one.
Clashes ==
    {<<Doc(<<1>>, <<>>, "file", <<A>>), Doc(<<1>>, <<8>>, "function", <<B>>)>>,
     <<Doc(<<1>>, <<>>, "file", <<In("basic block", <<B>>)>>), Doc(<<1, 0>>, <<>>, "file", <<B>>)>>}

Corpora3 == {<<r1, r2, r3>> : r1 \in First, r2 \in Second, r3 \in Third} \cup Clashes

Ch(name) == Lf("characteristic", name)

\* Rules of every scope, each reading what the scope below matched.
Layered ==
    <<Doc(<<1>>, <<5>>, "instruction", <<OneOf(<<A, Lf("string", <<2, 3>>), Ch("nzxor"),
                                              Item(<<"offset">>, Scalar("int", 4))>>)>>),
      Doc(<<2>>, <<6, 1>>, "basic block", <<Item(<<"N or more", 1>>, Sequence(<<Match(<<5>>), Ch("tight loop")>>))>>),
      Doc(<<3>>, <<>>, "function", <<OneOf(<<Ch("loop"), Ch("recursive call"),
                                          Times("match", <<1>>, Bound("or more", 2)),
                                          Item(<<"count blocks">>, Bound("or fewer", 1))>>),
                                     Item(<<"description">>, Text("x"))>>),
      Doc(<<4>>, <<>>, "file", <<Match(<<5>>), No(Match(<<3>>))>>),
      Doc(<<5, 9>>, <<>>, "file", <<OneOf(<<Lf("section", "data"), Ch("embedded pe")>>),
                                    Item(<<"optional">>, Sequence(<<Match(<<6>>)>>)),
                                    In("function", <<In("basic block", <<Ch("stack string")>>), Lf("os", "any")>>)>>)>>

\* For the flow graphs: the loop, and the import a call through a register reaches.
Flow == <<Doc(<<1>>, <<>>, "function", <<Ch("loop"), Match(<<2>>)>>), Doc(<<2>>, <<>>, "function", <<Lf("api", <<"gA">>)>>)>>

\* Leaves at scopes above and below their origin; the others do not parse.
Scoped ==
    {<<Doc(<<1>>, <<>>, s, <<In(b, <<f>>)>>), Doc(<<2>>, <<>>, s, <<f>>)>> :
        s \in {"file", "function", "unsupported"}, b \in {"function", "basic block", "instruction", "call"},
        f \in {Ch("loop"), Ch("tight loop"), Ch("nzxor"), Ch("embedded pe"), Lf("import", <<"f">>), A,
               Item(<<"number">>, Scalar("int", 65536)), Item(<<"operand", 5, "number">>, Scalar("int", 1)),
               Item(<<"operand", 1, "offset">>, Scalar("int", 65535)), Item(<<"offset">>, Scalar("float", 1)),
               Item(<<"property", "read">>, Text("p")), Item(<<"bytes">>, Scalar("wild", <<2>>)),
               Item(<<"com/class">>, Text("c")), Times("api", <<"f">>, Scalar("range", <<"tuple", 2, 1>>)),
               Item(<<"not">>, Sequence(<<A, B>>)), Lf("verb", "v")}}

MCDocSets == Corpora3 \cup {Layered, Flow} \cup Scoped
MCCorpora == {ParseRuleFiles(d) : d \in MCDocSets}

\* A rule that declares itself unsupported by the static pipeline.
UnsupportedDocs == {<<Doc(<<1>>, <<>>, "unsupported", <<B>>)>>}
UnsupportedCorpora == {ParseRuleFiles(d) : d \in UnsupportedDocs}

MCComClasses == [c |-> [bytes |-> <<1, 2>>, text |-> <<2, 2>>]]

-----------------------------------------------------------------------------
(* Images.  A byte has two bits, an address is past 32.                    *)

Opd(kind, reg, width, val) == [kind |-> kind, reg |-> reg, width |-> width, val |-> val, sib |-> FALSE]
Reg(r, w)   == Opd("reg", r, w, 0)
Imm(v, w)   == Opd("imm", "none", w, v)
Mem(r, v)   == Opd("regmem", r, 2, v)
Slot(v)     == Opd("immmem", "none", 8, v)
Rip(v)      == Opd("riprel", "none", 8, v)
Pc          == Opd("pcrel", "none", 8, 0)

Insn(va, mn, ops) ==
    [va |-> va, len |-> 1, mn |-> mn, ops |-> ops, call |-> mn = "call", jump |-> mn \in {"jmp", "jz"},
     cond |-> mn = "jz", ret |-> mn = "ret", to |-> None, seg |-> {}]
To(ins, va)  == [ins EXCEPT !.to = Opt(va)]
Seg(ins, s)  == [ins EXCEPT !.seg = {s}]

Block(va, succ, insns) == [va |-> va, succ |-> succ, insns |-> insns]
Fn(va, callers, blocks) == [va |-> va, callers |-> callers, blocks |-> blocks]

Imp(name, base, aw) == [dll |-> "dll", name |-> name, base |-> base, aw |-> aw]

Image(fns) ==
    [base |-> 32, is64 |-> TRUE,
     buf |-> <<0, 0, 1, 0, 2, 3, 0, 1, 2, 0, 3, 0, 0, 0, 1, 2>>,
     sections |-> <<[name |-> "text", va |-> 4, vsize |-> 24, raw |-> 0, rsize |-> 4, read |-> TRUE],
                    [name |-> "data", va |-> 32, vsize |-> 16, raw |-> 4, rsize |-> 12, read |-> TRUE]>>,
     iat |-> (76 :> Imp("f", "f", FALSE)) @@ (77 :> Imp("gA", "g", TRUE)),
     code |-> (58 :> Insn(58, "jmp", <<Slot(76)>>)) @@ (57 :> To(Insn(57, "jmp", <<Pc>>), 58)),
     endbr |-> {}, lib |-> (54 :> {"memcpy"}), arch |-> {"amd64"},
     exports |-> {[name |-> "e", va |-> 36, forwarder |-> ""], [name |-> "", va |-> 37, forwarder |-> "x.y"]},
     carved |-> {0, 3}, strings |-> {[off |-> 5, val |-> <<2, 3>>]}, fns |-> fns]

\* Something for every extractor; the last two functions are a thunk and a
\* function FLIRT named.
RichFns ==
    <<Fn(36, {48}, <<Block(36, <<36, 42>>,
                       <<Insn(36, "mov", <<Mem("bp", 1), Imm(10, 2)>>), Insn(37, "mov", <<Reg("ax", 8), Slot(76)>>),
                         Insn(38, "xor", <<Reg("ax", 8), Reg("bx", 8)>>), To(Insn(39, "call", <<Pc>>), 41),
                         Insn(40, "mov", <<Reg("bx", 8), Imm(64, 8)>>), Insn(41, "call", <<Reg("ax", 8)>>)>>),
                     Block(42, <<36>>,
                       <<Seg(Insn(42, "mov", <<Reg("ax", 8), Mem("cx", 3)>>), "gs access"),
                         Insn(43, "lea", <<Reg("ax", 8), Mem("cx", 4)>>), Insn(44, "add", <<Reg("cx", 8), Imm(4, 1)>>),
                         To(Insn(45, "call", <<Pc>>), 57), To(Insn(46, "jmp", <<Pc>>), 68)>>)>>),
      Fn(48, {}, <<Block(48, <<>>, <<Insn(48, "mov", <<Reg("ax", 8), Rip(22)>>), To(Insn(49, "call", <<Pc>>), 48),
                                     To(Insn(50, "call", <<Pc>>), 54), Insn(51, "call", <<Rip(25)>>),
                                     Insn(52, "ret", <<>>)>>)>>),
      Fn(58, {}, <<Block(58, <<>>, <<Insn(58, "jmp", <<Slot(76)>>)>>)>>),
      Fn(54, {}, <<Block(54, <<54>>, <<Insn(54, "xor", <<Reg("ax", 8), Reg("bx", 8)>>)>>)>>)>>

Edges == {<<>>, <<36>>, <<40>>, <<44>>, <<36, 40>>, <<40, 44>>, <<44, 36>>}
GraphFns(e, w) ==
    <<Fn(36, {}, <<Block(36, e[1], <<Insn(36, "mov", <<Reg("ax", 8), Slot(76)>>),
                                     Insn(37, "mov", <<Reg("ax", 8), Slot(77)>>)>>),
                   Block(40, e[2], <<Insn(40, "mov", <<Reg("ax", w), Slot(76)>>)>>),
                   Block(44, e[3], <<Insn(44, "call", <<Reg("ax", 8)>>)>>)>>)>>

MCImages(d) ==
    IF d = Flow THEN {Image(GraphFns(e, w)) : e \in [1..3 -> Edges], w \in {2, 4, 8}}
    ELSE IF d = Layered THEN {Image(RichFns)}
    ELSE {Image(<<>>)}

UnsupportedImages(d) == {Image(RichFns)}

-----------------------------------------------------------------------------
Held(feats) == [f \in feats |-> {MCHere}]
FA == Feat("Api", <<"f">>)
FB == Feat("Mnemonic", "mov")

MCFeatureSets ==
    {Held({}), Held({FA}), Held({FB}), Held({FA, FB}), Held({FA, MatchedRule(<<3>>)}),
     Held({FB, Feat("String", <<2, 3>>)})}
=============================================================================
