----------------------------- MODULE Extraction -----------------------------
(***************************************************************************)
(* The features of each scope (features/extractors/papa_native/insn.cpp,   *)
(* basic_block.cpp, function.cpp, extractor.cpp, and extractors/pefile.cpp *)
(* with global_.cpp and helpers.cpp for the file), and the two analyses an *)
(* API feature needs: the thunk chain of a call (imports.cpp) and the      *)
(* definition that reaches a call through a register (indirect_calls.cpp). *)
(*                                                                         *)
(* A feature set is a set of pairs <<feature, address>>.  An instruction   *)
(* is a record va, len, mn, ops, call, jump, cond, ret, to (branch_target, *)
(* None when there is none), seg (its segment prefixes); an operand is a   *)
(* record kind, reg, width, val (immediate or displacement) and sib.  The  *)
(* parts of a register share its name, their width is the operand's.  A    *)
(* block is a record va, insns, succ; blocks are in the order of their     *)
(* addresses.  The image also has iat (address -> import), code (what      *)
(* decodes at an address), endbr, lib (FLIRT names) and the rows of its    *)
(* tables.  Byte 0 is NUL, 1 is any unprintable byte, others print.        *)
(***************************************************************************)
EXTENDS PeImage

CONSTANTS ByteBits,        \* bits of a byte
          CallDistance,    \* kCallPlus5Distance
          PebX86, PebX64,  \* kPebOffsetX86, kPebOffsetX64
          CookieDelta,     \* kSecurityCookieBytesDelta
          ThunkDepth,      \* kThunkChainDepthDelta
          EndbranchLen,    \* kEndbranchSkipLen
          SliceBlocks,     \* kMaxBlocks of define_at_entry
          MaxBytes,        \* kMaxBytesFeatureSize
          ProbeBytes,      \* kStringProbeBytes
          MinString,       \* kMinStringLength
          MinStackString,  \* kMinStackStringLen
          MaxStructure     \* kMaxStructureSize

NoAddress == -1       \* NO_ADDRESS, of a feature of the whole file

F(tag, datum) == [tag |-> tag, datum |-> datum]
Char(name)  == F("Characteristic", name)
Word(x)     == x % 2^(8 * ByteBits)
Printable(b) == b >= 2

Op(ins, k)   == ins.ops[k]
HasOp(ins, k) == k =< Len(ins.ops)
TailJump(ins) == ins.jump /\ ~ins.cond

StackReg(op) == op.reg \in {"sp", "bp"}
\* rsp offsets are kept, esp ones are not.
OffsetExcluded(op, is64) == op.reg = "bp" \/ (~is64 /\ op.reg = "sp")

\* operand_target_va
TargetVa(ins, op) ==
    CASE op.kind = "imm" -> Opt(op.val)
      [] op.kind = "immmem" -> Opt(Word(op.val))
      [] op.kind = "riprel" -> Opt(Word(ins.va + ins.len + op.val))
      [] OTHER -> None

-----------------------------------------------------------------------------
(* imports.cpp: the import a direct call reaches.                          *)

Lookup(img, va) == IF va \in DOMAIN img.iat THEN Opt(img.iat[va]) ELSE None

\* The chain of unconditional branches from a call target to a slot of the
\* import table, at most ThunkDepth hops.
RECURSIVE ThunkChain(_, _, _)
ThunkChain(img, va, hop) ==
    LET at == IF va \in img.endbr THEN va + EndbranchLen ELSE va
        d  == img.code[at]
    IN  IF hop >= ThunkDepth THEN None
        ELSE IF Lookup(img, va) # None THEN Lookup(img, va)
        ELSE IF \/ at \notin DOMAIN img.code
                \/ ~(d.jump \/ d.call) \/ d.cond \/ d.ops = <<>> THEN None
        ELSE CASE Op(d, 1).kind \in {"riprel", "immmem"} -> Lookup(img, TargetVa(d, Op(d, 1))[1])
               [] Op(d, 1).kind = "pcrel" /\ d.to # None -> ThunkChain(img, d.to[1], hop + 1)
               [] OTHER -> None

ResolveDirectCallImport(img, ins) ==
    IF ~HasOp(ins, 1) THEN None
    ELSE CASE Op(ins, 1).kind \in {"immmem", "riprel"} -> Lookup(img, TargetVa(ins, Op(ins, 1))[1])
           [] Op(ins, 1).kind = "pcrel" /\ ins.to # None -> ThunkChain(img, ins.to[1], 0)
           [] OTHER -> None

-----------------------------------------------------------------------------
(* indirect_calls.cpp: the definition of a register that reaches a call.   *)

\* classify_definition: a destructive write at least as wide as the register
\* read.  A 32-bit write, which on x64 clears the upper half as well, does not
\* count for a 64-bit read (is_full_write_to_register).
Defines(ins, reg, width) ==
    /\ HasOp(ins, 1) /\ Op(ins, 1).kind = "reg" /\ Op(ins, 1).reg = reg
    /\ Op(ins, 1).width >= width
    /\ ins.mn \in {"mov", "lea", "pop", "xor"}

DefinitionValue(ins) == IF HasOp(ins, 2) THEN TargetVa(ins, Op(ins, 2)) ELSE None

\* Mutant: the first definition of the block is taken.
ScanForward(bb, n, reg, width) ==
    LET defs == {k \in 1..n : Defines(bb.insns[k], reg, width)}
    IN  IF defs = {} THEN 0 ELSE Min(defs)

\* The last definition among the first n instructions of a block, 0 if there is none.
ScanBackward(bb, n, reg, width) ==
    LET defs == {k \in 1..n : Defines(bb.insns[k], reg, width)}
    IN  IF defs = {} THEN 0 ELSE Max(defs)

\* BasicBlock::predecessors, which materialize_functions fills block by block
\* from their successors, so in the order of the blocks.
Preds(fn, b) == SelectSeq([k \in DOMAIN fn.blocks |-> k],
                          LAMBDA p : Contains(fn.blocks[p].succ, fn.blocks[b].va))

\* One level of the walk over predecessors: the nearest definition wins.
RECURSIVE DefineAtEntry(_, _, _, _, _, _)
DefineAtEntry(fn, frontier, visited, examined, reg, width) ==
    LET level == SelectSeq(FlattenSeq([k \in DOMAIN frontier |-> Preds(fn, frontier[k])]),
                           LAMBDA p : p \notin visited)
        next  == SelectSeq([k \in DOMAIN level |->
                              IF \E j \in 1..(k - 1) : level[j] = level[k] THEN 0 ELSE level[k]],
                           LAMBDA p : p # 0)
        scan  == [k \in DOMAIN next |->
                    ScanBackward(fn.blocks[next[k]], Len(fn.blocks[next[k]].insns), reg, width)]
        hits  == {k \in DOMAIN next : scan[k] # 0}
    IN  IF frontier = <<>> \/ examined >= SliceBlocks THEN None
        ELSE IF hits # {} THEN Opt(<<next[Min(hits)], scan[Min(hits)]>>)
        ELSE DefineAtEntry(fn, next, visited \cup ToSet(next), examined + Len(next), reg, width)

\* find_definition for the n-th instruction of block b: <<block, index>>.
FindDefinition(fn, b, n, reg, width) ==
    LET own == ScanBackward(fn.blocks[b], n - 1, reg, width)
    IN  IF own # 0 THEN Opt(<<b, own>>)
        ELSE DefineAtEntry(fn, <<b>>, {b}, 0, reg, width)

-----------------------------------------------------------------------------
(* helpers.cpp: the spellings of an imported symbol.                       *)

\* An import by ordinal has no A or W variant; base is the name without it.
GenerateSymbols(dll, imp) ==
    LET names == {imp.name} \cup (IF imp.aw THEN {imp.base} ELSE {})
    IN  IF imp.name = "" THEN {}
        ELSE UNION {{F("symbol", <<dll, n>>), F("symbol", <<n>>)} : n \in names}

SymbolFeatures(tag, imp, at) == {<<F(tag, s.datum), at>> : s \in GenerateSymbols(imp.dll, imp)}

-----------------------------------------------------------------------------
(* insn.cpp                                                                *)

ExtractSimple(img, ins) ==
    LET here(name) == <<Char(name), ins.va>>
        peb == IF img.is64 THEN PebX64 ELSE PebX86
    IN  {<<F("Mnemonic", ins.mn), ins.va>>}
        \cup {here("call $+5") : x \in {y \in {1} : ins.call /\ ins.to = Opt(ins.va + CallDistance)}}
        \cup {here("indirect call") : x \in {y \in {1} : /\ ins.call /\ HasOp(ins, 1)
                                                       /\ Op(ins, 1).kind \in {"reg", "regmem", "sib"}}}
        \cup {here(s) : s \in ins.seg}
        \cup {here("peb access") :
                k \in {j \in DOMAIN ins.ops :
                         /\ (IF img.is64 THEN "gs access" ELSE "fs access") \in ins.seg
                         /\ Op(ins, j).kind \in {"regmem", "sib", "immmem"} /\ Op(ins, j).val = peb}}

\* The slot of an import is no evidence of a cross-section flow.
CrossSection(img, ins) ==
    LET to == IF ins.to # None THEN ins.to
              ELSE IF HasOp(ins, 1) /\ Op(ins, 1).kind \in {"riprel", "immmem"}
                   THEN TargetVa(ins, Op(ins, 1)) ELSE None
        src == SectionAt(img, ins.va - img.base)
        dst == SectionAt(img, to[1] - img.base)
    IN  IF /\ ins.call \/ ins.jump
           /\ ins.va >= img.base /\ to # None /\ to[1] >= img.base
           /\ Lookup(img, to[1]) = None
           /\ src # None /\ dst # None /\ src # dst
        THEN {<<Char("cross section flow"), ins.va>>} ELSE {}

\* A stack cookie is mixed in near the start of the function or near a return.
SecurityCookie(fn, b, ins) ==
    LET bb   == fn.blocks[b]
        last == Last(bb.insns)
        end  == last.va + last.len
    IN  /\ HasOp(ins, 2)
        /\ ~(Op(ins, 2).kind = "reg" /\ ~StackReg(Op(ins, 2)))
        /\ \/ b = 1 /\ ins.va < bb.va + CookieDelta
           \/ last.ret /\ end >= CookieDelta /\ ins.va > end - CookieDelta

Nzxor(img, fn, b, ins) ==
    IF /\ ins.mn \in {"xor", "xorps", "xorpd", "pxor"} /\ HasOp(ins, 2)
       /\ ~(Op(ins, 1).kind = "reg" /\ Op(ins, 2).kind = "reg"
            /\ Op(ins, 1).reg = Op(ins, 2).reg /\ Op(ins, 1).width = Op(ins, 2).width)
       /\ ~SecurityCookie(fn, b, ins)
    THEN {<<Char("nzxor"), ins.va>>} ELSE {}

Utf16(bytes) ==
    /\ Len(bytes) % 2 = 0
    /\ \A i \in 1..(Len(bytes) \div 2) : bytes[2 * i] = 0 /\ Printable(bytes[2 * i - 1])

\* Data that is neither zero nor wholly text.
IsData(buf) ==
    /\ \E i \in DOMAIN buf : buf[i] # 0
    /\ \E i \in DOMAIN buf : ~Printable(buf[i])
    /\ ~Utf16(buf)

\* The addresses the operands of an instruction name.
TargetVas(ins) == UNION {ToSet(TargetVa(ins, Op(ins, k))) : k \in DOMAIN ins.ops}

ExtractBytes(img, ins) ==
    LET bufs == {ReadBytesCapped(img, t, MaxBytes) : t \in {v \in TargetVas(ins) : VaReadable(img, v)}}
    IN  IF ins.call THEN {}
        ELSE {<<F("Bytes", buf), ins.va>> : buf \in {x \in bufs : IsData(x)}}

\* read_string_at_va: text up to a NUL, else UTF-16 up to a double NUL.
StringIn(buf) ==
    LET nuls  == {i \in DOMAIN buf : buf[i] = 0}
        text  == SubSeq(buf, 1, IF nuls = {} THEN Len(buf) ELSE Min(nuls) - 1)
        units == {u \in 0..(Len(buf) \div 2 - 1) : buf[2 * u + 1] = 0 /\ buf[2 * u + 2] = 0}
        n     == IF units = {} THEN Len(buf) \div 2 ELSE Min(units)
        wide  == [u \in 1..n |-> buf[2 * u - 1]]
    IN  IF Len(text) >= MinString /\ \A i \in DOMAIN text : Printable(text[i]) THEN Opt(text)
        ELSE IF n >= MinString /\ Utf16(SubSeq(buf, 1, 2 * n)) THEN Opt(wide) ELSE None

ExtractString(img, ins) ==
    {<<F("String", s), ins.va>> :
        s \in UNION {ToSet(StringIn(ReadBytesCapped(img, t, ProbeBytes))) :
                        t \in {v \in TargetVas(ins) : v >= img.base}}}

\* Operands are numbered from 0.
NumberAt(i, v, va) == {<<F("Number", v), va>>, <<F("OperandNumber", <<i - 1, v>>), va>>}
OffsetAt(i, v, va) == {<<F("Offset", v), va>>, <<F("OperandOffset", <<i - 1, v>>), va>>}

\* An immediate is masked to the width of the first register or memory operand.
OperationWidth(img, ins) ==
    LET sized == {k \in DOMAIN ins.ops : Op(ins, k).kind \in {"reg", "regmem", "riprel", "immmem", "sib"}}
    IN  IF sized = {} THEN (IF img.is64 THEN 8 ELSE 4) ELSE Op(ins, Min(sized)).width

ExtractNumber(img, ins) ==
    LET addEsp == /\ ins.mn = "add" /\ HasOp(ins, 1)
                  /\ Op(ins, 1).kind = "reg" /\ Op(ins, 1).reg = "sp" /\ Op(ins, 1).width = 4
        value(k) == IF Op(ins, k).kind = "imm" /\ OperationWidth(img, ins) \in 1..7
                    THEN Word(Op(ins, k).val) % 2^(ByteBits * OperationWidth(img, ins))
                    ELSE Word(Op(ins, k).val)
        struct(k) == /\ ins.mn = "add" /\ HasOp(ins, 2) /\ Op(ins, 1).kind = "reg"
                     /\ ~StackReg(Op(ins, 1))
                     /\ value(k) > 0 /\ value(k) < MaxStructure
        emits == {k \in DOMAIN ins.ops : /\ Op(ins, k).kind \in {"imm", "immmem"}
                                         /\ ~addEsp /\ ~VaReadable(img, value(k))}
    IN  UNION {NumberAt(k, value(k), ins.va)
                 \cup (IF struct(k) THEN OffsetAt(k, value(k), ins.va) ELSE {}) : k \in emits}

ExtractOffset(img, ins) ==
    LET taken(k) == /\ Op(ins, k).kind \in {"regmem", "sib"}
                    /\ Op(ins, k).sib \/ ~OffsetExcluded(Op(ins, k), img.is64)
        off(k) == IF Op(ins, k).kind = "sib" /\ Op(ins, k).reg = "none" THEN 0 ELSE Op(ins, k).val
        v(k)   == Op(ins, k).val
        number(k) == /\ ins.mn = "lea" /\ v(k) > 0 /\ ~Op(ins, k).sib
                     /\ ~StackReg(Op(ins, k))
                     /\ ~ProbeReadable(img, IF v(k) >= img.base THEN v(k) - img.base ELSE v(k), 1)
    IN  UNION {OffsetAt(k, off(k), ins.va)
                 \cup (IF number(k) THEN NumberAt(k, v(k), ins.va) ELSE {}) :
               k \in {j \in DOMAIN ins.ops : taken(j)}}

\* The import in the slot a definition loads.
DefinitionImport(img, fn, def) ==
    IF def = None THEN None
    ELSE LET slot == DefinitionValue(fn.blocks[def[1][1]].insns[def[1][2]])
         IN  IF slot = None THEN None ELSE Lookup(img, slot[1])

RowFeatures(row, at) == IF row = None THEN {} ELSE SymbolFeatures("Api", row[1], at)

\* Calls and tail jumps: an import, directly, through thunks or through a
\* register, and a statically linked function FLIRT named.
ExtractApi(img, fn, b, n) ==
    LET ins  == fn.blocks[b].insns[n]
        row  == CASE Op(ins, 1).kind \in {"immmem", "riprel", "pcrel"} -> ResolveDirectCallImport(img, ins)
                  [] Op(ins, 1).kind = "reg" ->
                         DefinitionImport(img, fn, FindDefinition(fn, b, n, Op(ins, 1).reg, Op(ins, 1).width))
                  [] OTHER -> None
    IN  IF ~(ins.call \/ TailJump(ins)) \/ ~HasOp(ins, 1) THEN {}
        ELSE RowFeatures(row, ins.va)
             \cup (IF Op(ins, 1).kind = "pcrel" /\ ins.to # None /\ ins.to[1] \in DOMAIN img.lib
                   THEN {<<F("Api", <<s>>), ins.va>> : s \in img.lib[ins.to[1]]} ELSE {})

InsnFeatures(img, fn, b, n) ==
    LET ins == fn.blocks[b].insns[n]
    IN  ExtractSimple(img, ins) \cup CrossSection(img, ins) \cup Nzxor(img, fn, b, ins)
        \cup ExtractBytes(img, ins) \cup ExtractNumber(img, ins) \cup ExtractOffset(img, ins)
        \cup ExtractString(img, ins) \cup ExtractApi(img, fn, b, n)

-----------------------------------------------------------------------------
(* basic_block.cpp                                                         *)

\* The width 0 of an immediate the decoder did not size counts as 4; its bytes
\* are given in memory order.
StoreWidth(op) == IF op.width = 0 THEN 4 ELSE op.width
ByteOf(v, i) == (v \div 2^(ByteBits * i)) % 2^ByteBits

LeadingPrintable(op) ==
    LET bad == {i \in 0..(StoreWidth(op) - 1) : ~Printable(ByteOf(Word(op.val), i))}
    IN  IF bad = {} THEN StoreWidth(op) ELSE Min(bad)

StackStore(ins) ==
    /\ ins.mn = "mov" /\ HasOp(ins, 2)
    /\ Op(ins, 1).kind \in {"regmem", "sib"} /\ StackReg(Op(ins, 1)) /\ Op(ins, 2).kind = "imm"

\* The run of printable stores: a store with an unprintable byte ends it after
\* its leading bytes were counted alone.
StackString(bb) ==
    LET step(acc, ins) ==
            LET w == StoreWidth(Op(ins, 2))
                p == LeadingPrintable(Op(ins, 2))
            IN  CASE acc.found -> acc
                  [] ~acc.found /\ ~StackStore(ins) ->
                         [found |-> FALSE, run |-> 0, at |-> ins.va + ins.len]
                  [] ~acc.found /\ StackStore(ins) /\ p < w ->
                         [found |-> p >= MinStackString, run |-> 0, at |-> ins.va]
                  [] OTHER -> [found |-> acc.run + p >= MinStackString, run |-> acc.run + p,
                               at |-> IF acc.run = 0 THEN ins.va ELSE acc.at]
        end == FoldLeft(step, [found |-> FALSE, run |-> 0, at |-> bb.va], bb.insns)
    IN  IF end.found THEN {<<Char("stack string"), end.at>>} ELSE {}

BlockFeatures(bb) ==
    {<<F("BasicBlock", ""), bb.va>>}
    \cup (IF Contains(bb.succ, bb.va) THEN {<<Char("tight loop"), bb.va>>} ELSE {})
    \cup StackString(bb)

(* function.cpp                                                            *)

\* The successors of block i as block numbers, itself left out.
Succ(fn, i) ==
    SelectSeq(FlattenSeq([k \in DOMAIN fn.blocks[i].succ |->
                 SelectSeq([j \in DOMAIN fn.blocks |-> j],
                           LAMBDA j : fn.blocks[j].va = fn.blocks[i].succ[k])]),
              LAMBDA j : j # i)

\* Mutant of Peel: a block is ready as soon as one predecessor is peeled.
PeelEager(fn, degree, ready, peeled) ==
    LET v == CHOOSE x \in ready : TRUE
    IN  {i \in DOMAIN fn.blocks : i \in peeled \/ i \in ready \/ Contains(Succ(fn, v), i)}

\* Kahn's algorithm: the blocks that can be peeled off.
RECURSIVE Peel(_, _, _, _)
Peel(fn, degree, ready, peeled) ==
    LET v     == CHOOSE x \in ready : TRUE
        edges(w) == Cardinality({k \in DOMAIN Succ(fn, v) : Succ(fn, v)[k] = w})
        less  == [w \in DOMAIN fn.blocks |-> degree[w] - edges(w)]
        freed == {w \in DOMAIN fn.blocks : edges(w) > 0 /\ less[w] = 0}
    IN  IF ready = {} THEN peeled
        ELSE Peel(fn, less, (ready \ {v}) \cup freed, peeled \cup {v})

HasCycle(fn) ==
    LET n == DOMAIN fn.blocks
        degree == [w \in n |-> FoldSet(LAMBDA v, sum :
                       sum + Cardinality({k \in DOMAIN Succ(fn, v) : Succ(fn, v)[k] = w}), 0, n)]
    IN  Peel(fn, degree, {v \in n : degree[v] = 0}, {}) # n

InsnsOf(fn) == UNION {ToSet(fn.blocks[b].insns) : b \in DOMAIN fn.blocks}

\* The recursive call reported is the first in the order of the blocks.
FunctionFeatures(img, fn) ==
    LET calls == {i \in InsnsOf(fn) : i.call /\ i.to # None}
        self  == SelectSeq(FlattenSeq([b \in DOMAIN fn.blocks |-> fn.blocks[b].insns]),
                           LAMBDA i : i.call /\ i.to = Opt(fn.va))
    IN  (IF Len(fn.blocks) >= 2 /\ HasCycle(fn) THEN {<<Char("loop"), fn.va>>} ELSE {})
        \cup {<<Char("calls from"), i.va>> : i \in calls}
        \cup {<<Char("calls to"), c>> : c \in fn.callers}
        \cup (IF self = <<>> THEN {} ELSE {<<Char("recursive call"), self[1].va>>})

\* is_library_function: a thunk, one branch through memory, or named by FLIRT.
IsThunk(fn) ==
    /\ Len(fn.blocks) = 1 /\ Len(fn.blocks[1].insns) = 1
    /\ LET ins == fn.blocks[1].insns[1]
       IN  (ins.jump \/ ins.call) /\ ~ins.cond /\ HasOp(ins, 1)
           /\ Op(ins, 1).kind \in {"immmem", "riprel"}

IsLibraryFunction(img, fn) == IsThunk(fn) \/ fn.va \in DOMAIN img.lib

(* global_.cpp and pefile.cpp                                              *)

GlobalFeatures(img) ==
    {<<F("Os", "windows"), NoAddress>>, <<F("Format", "pe"), NoAddress>>}
    \cup {<<F("Arch", a), NoAddress>> : a \in img.arch}

\* A forwarded export is also an import under the forwarder's name.  What the
\* carver and the string scan find in the buffer is part of the image.
FileFeatures(img) ==
    {<<F("Format", "pe"), NoAddress>>}
    \cup {<<F("Section", img.sections[k].name), img.base + img.sections[k].va>> :
             k \in {j \in DOMAIN img.sections : img.sections[j].name # ""}}
    \cup UNION {SymbolFeatures("Import", img.iat[va], va) : va \in DOMAIN img.iat}
    \cup {<<F("Export", e.name), e.va>> : e \in {x \in img.exports : x.name # ""}}
    \cup UNION {{<<Char("forwarded export"), e.va>>, <<F("Import", <<e.forwarder>>), e.va>>} :
                  e \in {x \in img.exports : x.forwarder # ""}}
    \cup {<<Char("embedded pe"), o>> : o \in img.carved \ {0}}
    \cup {<<F("String", s.val), s.off>> : s \in img.strings}
=============================================================================
