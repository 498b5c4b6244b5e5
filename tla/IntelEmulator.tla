--------------------------- MODULE IntelEmulator ---------------------------
(***************************************************************************)
(* The instruction semantics of the discovery emulator                     *)
(* (emu/intel_emulator.cpp): operand access, the arithmetic with its       *)
(* flags, the stack, the conditions, and execute_opcode, one action per    *)
(* family of mnemonics.                                                    *)
(*                                                                         *)
(* A machine state m is a record of the general registers, the status      *)
(* flags, one XMM register, the memory overlay and the program counter.    *)
(* The auxiliary carry is left out: the emulator writes it and nothing     *)
(* reads it.  An instruction is a record of a mnemonic, its address and    *)
(* its operands.  Where the C++ is undefined (int64 overflow, a shift by   *)
(* 64 or more) the outcome is the Boolean ub, chosen freely by the action. *)
(***************************************************************************)
EXTENDS SandboxMemory, TLC

CONSTANTS Maps,        \* the memory maps, stack first
          Machines(_), \* the machine states of an architecture to start from
          Insns        \* the instructions to execute

VARIABLES is64,        \* the architecture of the image, fixed for a run
          m,           \* the machine
          pre,         \* the machine before the last instruction
          insn,        \* the last instruction
          result       \* ExecResult

vars == <<is64, m, pre, insn, result>>

Flag == {"cf", "zf", "sf", "of", "pf"}
Sizes == {1, 2, 4, 8}
Psize == PtrSize(is64)

(* Operands: a register lane, an immediate, or memory at a base register,  *)
(* an optional scaled index and a displacement.                            *)

Reg(reg, size) == [kind |-> "reg", lane |-> GpLane(reg, size), width |-> size]
High(reg) == [kind |-> "reg", lane |-> HighLane(reg), width |-> 1]
Imm(v, size) == [kind |-> "imm", imm |-> v, width |-> size]
Mem(base, index, scale, disp, size) ==
    [kind |-> "mem", base |-> base, index |-> index, scale |-> scale, disp |-> disp,
     width |-> size]
Xmm(size) == [kind |-> "xmm", width |-> size]

RegVal(s, lane) == GetRegister(s.regs, lane)
SetReg(s, lane, v) == [s EXCEPT !.regs = SetRegister(s.regs, lane, v, is64)]
Full(reg) == GpLane(reg, Psize)

\* get_oper_addr, masked to the address size.
OperAddr(s, op) ==
    LET base  == IF op.base = "none" THEN 0 ELSE RegVal(s, Full(op.base))
        index == IF op.index = "none" THEN 0 ELSE RegVal(s, Full(op.index)) * op.scale
    IN  (base + index + op.disp) % 2^Bits(Psize)

OperValue(s, op) ==
    CASE op.kind = "reg" -> RegVal(s, op.lane)
      [] op.kind = "imm" -> op.imm
      [] op.kind = "mem" -> ReadValue(Maps, s.ov, OperAddr(s, op), op.width)

\* A write to an immediate is dropped.
SetOper(s, op, v) ==
    CASE op.kind = "reg" -> SetReg(s, op.lane, Word(v))
      [] op.kind = "imm" -> s
      [] op.kind = "mem" ->
             [s EXCEPT !.ov = WriteValue(Maps, s.ov, OperAddr(s, op), Word(v), op.width)]

\* SIMD operands: an XMM register is read whole and written with its upper bytes
\* cleared, anything else is its low `width` bytes.
ReadSimd(s, op, width) ==
    IF op.kind = "xmm" THEN s.xmm
    ELSE OperValue(s, [op EXCEPT !.width = width]) % 2^Bits(width)

WriteSimd(s, op, v, width) ==
    CASE op.kind = "xmm" -> [s EXCEPT !.xmm = v % 2^Bits(width)]
      [] op.kind = "reg" -> SetReg(s, op.lane, v % 2^Bits(IF width < 8 THEN width ELSE 8))
      [] op.kind = "mem" ->
             [s EXCEPT !.ov = WriteValue(Maps, s.ov, OperAddr(s, op), v, width)]

SetFlags(s, fs) == [s EXCEPT !.f = [x \in Flag |-> IF x \in DOMAIN fs THEN fs[x] ELSE @[x]]]

\* The result flags every handler computes from a word at the operand size.
SignParity(v, size) == [sf |-> IsSigned(v, size), pf |-> IsParityByte(v)]

-----------------------------------------------------------------------------
(* Stack.                                                                  *)

\* Mutant: the value is written where the stack pointer was.
DoPushInPlace(s, v, size) ==
    LET sp == RegVal(s, Full("sp"))
    IN  SetReg([s EXCEPT !.ov = WriteValue(Maps, s.ov, sp, v, size)], Full("sp"), Word(sp - size))

DoPush(s, v, size) ==
    LET sp == Word(RegVal(s, Full("sp")) - size)
    IN  SetReg([s EXCEPT !.ov = WriteValue(Maps, s.ov, sp, v, size)], Full("sp"), sp)

PopValue(s, size) == ReadValue(Maps, s.ov, RegVal(s, Full("sp")), size)
DoPop(s, size) == SetReg(s, Full("sp"), Word(RegVal(s, Full("sp")) + size))

(* Arithmetic.  Each operator returns the new machine.                     *)

\* The second operand, sign-extended to the first when it is narrower.
SourceOf(s, i) == SignExtend(OperValue(s, i.ops[2]), i.ops[2].width, i.ops[1].width)

\* add and adc: op_add.
OpAdd(s, i, carryIn, ub) ==
    LET size == i.ops[1].width
        dst  == OperValue(s, i.ops[1])
        wide == size > i.ops[2].width
        src  == IF wide THEN SourceOf(s, i) ELSE OperValue(s, i.ops[2])
        ssz  == IF wide THEN size ELSE i.ops[2].width
        cf   == IF carryIn /\ s.f["cf"] THEN 1 ELSE 0
        ures == Word(Unsigned(dst, size) + Unsigned(src, ssz) + cf)
        sres == Signed(dst, size) + Signed(src, ssz) + cf
    IN  SetOper(SetFlags(s, [cf |-> IsUnsignedCarry(Int64(ures), size), zf |-> ures = 0,
                             of |-> IF InInt64(sres) THEN IsSignedOverflow(sres, size) ELSE ub]
                            @@ SignParity(ures, size)),
                i.ops[1], ures)

\* Mutant: the overflow is judged on the unsigned difference.
IntSubUnsigned(s, src, dst, size, ub) ==
    LET ures == Int64(Unsigned(dst, size)) - Int64(Unsigned(src, size))
    IN  [m   |-> SetFlags(s, [cf |-> IsUnsignedCarry(Int64(ures), size), zf |-> ures = 0,
                              of |-> IF InInt64(ures) THEN IsSignedOverflow(ures, size) ELSE ub]
                             @@ SignParity(Word(ures), size)),
         res |-> Word(ures)]

\* int_sub_base: the machine with its flags, and the difference.
IntSubBase(s, src, dst, size, ub) ==
    LET ures == Int64(Unsigned(dst, size)) - Int64(Unsigned(src, size))
        sres == Signed(dst, size) - Signed(src, size)
    IN  [m   |-> SetFlags(s, [cf |-> IsUnsignedCarry(Int64(ures), size), zf |-> sres = 0,
                              of |-> IF InInt64(sres) THEN IsSignedOverflow(sres, size) ELSE ub]
                             @@ SignParity(Word(ures), size)),
         res |-> Word(ures)]

IntegerSubtraction(s, i, ub) ==
    IntSubBase(s, SourceOf(s, i), OperValue(s, i.ops[1]), i.ops[1].width, ub)

LogicalAnd(s, i) ==
    LET size == i.ops[1].width
        res  == Unsigned(SourceOf(s, i), size) & Unsigned(OperValue(s, i.ops[1]), size)
    IN  [m |-> SetFlags(s, [cf |-> FALSE, of |-> FALSE, zf |-> res = 0]
                           @@ SignParity(res, size)),
         res |-> res]

\* or extends its source, xor does not.
LogicalOr(s, i, xor) ==
    LET dst == OperValue(s, i.ops[1])
        res == IF xor THEN OperValue(s, i.ops[2]) ^^ dst ELSE dst | SourceOf(s, i)
    IN  SetFlags(SetOper(s, i.ops[1], res),
                 [cf |-> FALSE, of |-> FALSE, zf |-> res = 0] @@ SignParity(res, i.ops[1].width))

\* inc, dec and neg work on the 64-bit value and store it whole.
Inc(s, i, ub) ==
    LET size == i.ops[1].width
        sval == Signed(OperValue(s, i.ops[1]), size) + 1
    IN  SetFlags(SetOper(s, i.ops[1], sval),
                 [of |-> IF InInt64(sval) THEN IsSignedOverflow(sval, size) ELSE ub,
                  zf |-> sval = 0] @@ SignParity(Word(sval), size))

Dec(s, i) ==
    LET res == Int64(OperValue(s, i.ops[1])) - 1
    IN  SetFlags(SetOper(s, i.ops[1], res),
                 [of |-> FALSE, zf |-> res = 0] @@ SignParity(Word(res), i.ops[1].width))

Neg(s, i) ==
    LET val == OperValue(s, i.ops[1])
        res == -Int64(val)
    IN  SetFlags(SetOper(s, i.ops[1], res),
                 [cf |-> val # 0, zf |-> res = 0] @@ SignParity(Word(res), i.ops[1].width))

-----------------------------------------------------------------------------
(* Shifts and rotates.  The count is masked to 5 or 6 bits by the operand  *)
(* size, so for bytes and 16-bit words it may exceed the operand.          *)

ShiftCount(s, i) ==
    OperValue(s, i.ops[2]) % (IF i.ops[1].width = 8 THEN WordBits ELSE Bits(4))

BitAt(x, k) == (x \div 2^k) % 2 = 1

Shl(s, i, ub) ==
    LET size == i.ops[1].width
        n    == ShiftCount(s, i)
        dst  == OperValue(s, i.ops[1])
        res  == Unsigned(Word(dst * 2^n), size)
        cf   == IF n =< Bits(size) THEN BitAt(dst, Bits(size) - n) ELSE ub
    IN  IF n = 0 THEN s
        ELSE SetOper(SetFlags(s, [cf |-> cf, zf |-> res = 0,
                                  of |-> n = 1 /\ (IsSigned(res, size) # cf)]
                                 @@ SignParity(res, size)),
                     i.ops[1], res)

\* shr and sar; the sign fill of sar is a shift by size - count bits.
Shr(s, i, arith, ub) ==
    LET size == i.ops[1].width
        n    == ShiftCount(s, i)
        dst  == OperValue(s, i.ops[1])
        neg  == IsSigned(dst, size)
        fill == IF n =< Bits(size)
                THEN (UMax(size) \div 2^(Bits(size) - n)) * 2^(Bits(size) - n)
                ELSE IF ub THEN UMax(size) ELSE 0
        res  == Unsigned(IF arith /\ neg THEN (dst \div 2^n) | fill ELSE dst \div 2^n, size)
    IN  IF n = 0 THEN s
        ELSE SetOper(SetFlags(s, [cf |-> BitAt(dst, n - 1), zf |-> res = 0,
                                  of |-> ~arith /\ n = 1 /\ neg] @@ SignParity(res, size)),
                     i.ops[1], res)

Rotate(s, i, left) ==
    LET size == i.ops[1].width
        w    == Bits(size)
        dst  == Unsigned(OperValue(s, i.ops[1]), size)
        n    == ShiftCount(s, i) % w
        k    == IF left THEN n ELSE w - n
        res  == Unsigned(dst * 2^k, size) + (dst \div 2^(w - k))
    IN  IF n = 0 THEN s
        ELSE SetFlags(SetOper(s, i.ops[1], res),
                      [cf |-> IF left THEN BitAt(res, 0) ELSE BitAt(res, w - 1)])

\* bt and its three writing forms; the index is reduced modulo the width.
BitTest(s, i, form) ==
    LET dst == OperValue(s, i.ops[1])
        k   == OperValue(s, i.ops[2]) % Bits(i.ops[1].width)
        was == BitAt(dst, k)
        set == CASE form = "bts" -> TRUE [] form = "btr" -> FALSE [] form = "btc" -> ~was
        t   == SetFlags(s, [cf |-> was])
        res == dst + (IF set THEN 2^k ELSE 0) - (IF was THEN 2^k ELSE 0)
    IN  IF form = "bt" THEN t ELSE SetOper(t, i.ops[1], res)

-----------------------------------------------------------------------------
(* Multiplication and division.                                            *)

\* Mutant: the carry out of the middle half words is lost.
UMulHiNoCarry(a, b) ==
    LET h == 2^(WordBits \div 2)
    IN  Word((a \div h) * (b \div h) + ((a % h) * (b \div h)) \div h
                                    + ((a \div h) * (b % h)) \div h)

\* The high word of the product, by half words.
UMulHi(a, b) ==
    LET h  == 2^(WordBits \div 2)
        ll == (a % h) * (b % h)
        lh == (a % h) * (b \div h)
        hl == (a \div h) * (b % h)
        hh == (a \div h) * (b \div h)
        cross == (ll \div h) + (lh % h) + (hl % h)
    IN  Word(hh + (lh \div h) + (hl \div h) + (cross \div h))

SMulHi(a, b) ==
    Word(UMulHi(a, b) - (IF IsSigned(a, 8) THEN b ELSE 0) - (IF IsSigned(b, 8) THEN a ELSE 0))

\* Shift-and-subtract division of a double word by a word: the quotient and the
\* remainder after the top k bits have been brought down.
UDiv128(hi, lo, d) ==
    LET bit(k) == IF k =< WordBits THEN (hi \div 2^(WordBits - k)) % 2
                                   ELSE (lo \div 2^(2 * WordBits - k)) % 2
        step[k \in 0..(2 * WordBits)] ==
            IF k = 0 THEN [quot |-> 0, rem |-> 0]
            ELSE LET p   == step[k - 1]
                     top == p.rem >= 2^(WordBits - 1)
                     rem == Word(2 * p.rem + bit(k))
                 IN  IF top \/ rem >= d
                     THEN [quot |-> Word(2 * p.quot + 1), rem |-> Word(rem - d)]
                     ELSE [quot |-> Word(2 * p.quot), rem |-> rem]
    IN  step[2 * WordBits]

\* Writes a double result: ax for bytes, the two registers' lanes otherwise.
SetDouble(s, size, low, high) ==
    IF size = 1 THEN SetReg(s, GpLane("ax", 2), low)
    ELSE SetReg(SetReg(s, GpLane("ax", size), Unsigned(low, size)), GpLane("dx", size), high)

Mul(s, i) ==
    LET size == i.ops[1].width
        a    == RegVal(s, GpLane("ax", size))
        val  == OperValue(s, i.ops[1])
        res  == a * val
        high == IF size = 8 THEN UMulHi(a, val) ELSE res \div 2^Bits(size)
    IN  SetFlags(SetDouble(s, size, Word(res), Unsigned(high, size)),
                 [cf |-> high # 0, of |-> high # 0])

\* imul with one operand, and with two or three.
IMul1(s, i) ==
    LET size == i.ops[1].width
        a    == RegVal(s, GpLane("ax", size))
        b    == OperValue(s, i.ops[1])
        sres == Signed(a, size) * Signed(b, size)
        low  == IF size = 8 THEN Word(a * b) ELSE Word(sres)
        high == IF size = 8 THEN SMulHi(a, b) ELSE Unsigned(low \div 2^Bits(size), size)
        of   == IF size = 8
                THEN high # (IF IsSigned(low, 8) THEN UMax(8) ELSE 0)
                ELSE IsUnsignedCarry(sres, size)
    IN  SetFlags(SetDouble(s, size, low, high),
                 [cf |-> of, of |-> of, pf |-> IsParityByte(low), sf |-> FALSE])

IMul2(s, i) ==
    LET size == i.ops[1].width
        n    == Len(i.ops)
        b    == LET v == OperValue(s, i.ops[n])
                IN  IF size > i.ops[n].width THEN SignExtend(v, i.ops[n].width, size) ELSE v
        res  == Word(OperValue(s, i.ops[n - 1]) * b)
        of   == res > UMax(size)
    IN  SetOper(SetFlags(s, [cf |-> of, of |-> of, pf |-> IsParityByte(res), sf |-> FALSE]),
                i.ops[1], res)

\* The double dividend of a size, as the code puts it together.
Dividend(s, size) ==
    IF size = 1 THEN RegVal(s, GpLane("ax", 2))
    ELSE RegVal(s, GpLane("dx", size)) * 2^Bits(size) + RegVal(s, GpLane("ax", size))

\* A quotient in the low part and a remainder in the high part, for each size.
SetQuotient(s, size, q, r) ==
    SetReg(SetReg(s, GpLane("ax", size), Word(q)), GpLane("dx", size), Word(r))

\* The byte form writes quotient and remainder to the whole of eax, the
\* quotient above the remainder.
Div(s, i) ==
    LET size == i.ops[1].width
        val  == OperValue(s, i.ops[1])
        tot  == Dividend(s, size)
        wide == UDiv128(RegVal(s, GpLane("dx", 8)), RegVal(s, GpLane("ax", 8)), val)
    IN  CASE size = 1 -> SetReg(s, Full("ax"), (tot \div val) * 2^ByteBits + (tot % val))
          [] size \in {2, 4} -> SetQuotient(s, size, tot \div val, tot % val)
          [] size = 8 -> SetQuotient(s, size, wide.quot, wide.rem)

\* C++ division truncates; -val of the least int64 wraps to itself.
Abs64(x) == IF x < 0 THEN Int64(-x) ELSE x
TruncDiv(a, b) == IF a < 0 THEN -((-a) \div b) ELSE a \div b

\* Below 8 bytes quotient and remainder are both negated when the signs differ;
\* the 8-byte form negates the remainder with the dividend.
IDiv(s, i) ==
    LET size == i.ops[1].width
        uval == OperValue(s, i.ops[1])
        d    == Signed(uval, size)
        val  == Signed(Dividend(s, size), 2 * size)
        q    == TruncDiv(Abs64(val), Abs64(d))
        r    == Abs64(val) - q * Abs64(d)
        sign == IF (val < 0) # (d < 0) THEN -1 ELSE 1
        hi   == RegVal(s, GpLane("dx", 8))
        lo   == RegVal(s, GpLane("ax", 8))
        neg  == IsSigned(hi, 8)
        ulo  == IF neg THEN Word(-lo) ELSE lo
        uhi  == IF neg THEN Word(UMax(8) - hi + (IF ulo = 0 THEN 1 ELSE 0)) ELSE hi
        dneg == IsSigned(uval, 8)
        wide == UDiv128(uhi, ulo, IF dneg THEN Word(-uval) ELSE uval)
    IN  CASE size = 1 -> SetReg(s, GpLane("ax", 2),
                                Unsigned(sign * r, 1) * 2^ByteBits + Unsigned(sign * q, 1))
          [] size \in {2, 4} -> SetQuotient(s, size, sign * q, sign * r)
          [] size = 8 -> SetQuotient(s, size, IF neg # dneg THEN -wide.quot ELSE wide.quot,
                                     IF neg THEN -wide.rem ELSE wide.rem)

-----------------------------------------------------------------------------
(* Conditions and conversions.                                             *)

\* condition_met, shared by jcc, setcc and cmovcc; jecxz reads all of the register.
Cond(s, cc) ==
    CASE cc = "b"  -> s.f["cf"]
      [] cc = "nb" -> ~s.f["cf"]
      [] cc = "be" -> s.f["cf"] \/ s.f["zf"]
      [] cc = "nbe" -> ~s.f["cf"] /\ ~s.f["zf"]
      [] cc = "z"  -> s.f["zf"]
      [] cc = "nz" -> ~s.f["zf"]
      [] cc = "l"  -> s.f["sf"] # s.f["of"]
      [] cc = "nl" -> s.f["sf"] = s.f["of"]
      [] cc = "le" -> (s.f["sf"] # s.f["of"]) \/ s.f["zf"]
      [] cc = "nle" -> ~s.f["zf"] /\ s.f["sf"] = s.f["of"]
      [] cc = "o"  -> s.f["of"]
      [] cc = "no" -> ~s.f["of"]
      [] cc = "s"  -> s.f["sf"]
      [] cc = "ns" -> ~s.f["sf"]
      [] cc = "p"  -> s.f["pf"]
      [] cc = "np" -> ~s.f["pf"]
      [] cc = "cxz" -> RegVal(s, GpLane("cx", 2)) = 0
      [] cc = "ecxz" -> RegVal(s, Full("cx")) = 0

\* cbw, cwde, cdqe widen the accumulator; cwd, cdq, cqo fill the data register
\* with its sign, cdq through the whole register.
Convert(s, mn) ==
    LET widen(from, to) == SetReg(s, GpLane("ax", to),
                                  SignExtend(RegVal(s, GpLane("ax", from)), from, to))
        fill(size, lane) == SetReg(s, lane, IF IsSigned(RegVal(s, GpLane("ax", size)), size)
                                            THEN UMax(size) ELSE 0)
    IN  CASE mn = "cbw" -> widen(1, 2)
          [] mn = "cwde" -> widen(2, 4)
          [] mn = "cdqe" -> widen(4, 8)
          [] mn = "cwd" -> fill(2, GpLane("dx", 2))
          [] mn = "cdq" -> fill(4, Full("dx"))
          [] mn = "cqo" -> fill(8, GpLane("dx", 8))

-----------------------------------------------------------------------------
(* execute_opcode.  A 64-bit operand only occurs on a 64-bit image.        *)

Simd == {"movs", "pxor", "psrldq", "pslldq"}

NoInsn == [mn |-> "none"]

Init == is64 \in BOOLEAN /\ m \in Machines(is64) /\ pre = m /\ insn = NoInsn /\ result = "none"

\* An instruction that continues: the program counter moves to pc.
Jump(i, s, pc) ==
    /\ \A k \in DOMAIN i.ops : i.ops[k].width =< Psize \/ i.mn \in Simd
    /\ pre' = m /\ insn' = i /\ UNCHANGED is64 /\ result' = "continue"
    /\ m' = [s EXCEPT !.pc = pc % 2^Bits(Psize)]

Continue(i, s) == Jump(i, s, i.va + i.len)

\* One that does not leaves the program counter on itself.
Fault(i, r) ==
    /\ \A k \in DOMAIN i.ops : i.ops[k].width =< Psize \/ i.mn \in Simd
    /\ pre' = m /\ insn' = i /\ UNCHANGED is64 /\ result' = r
    /\ m' = [m EXCEPT !.pc = i.va]

ExecMove ==
    \E i \in Insns :
       LET a == OperValue(m, i.ops[1])
           b == OperValue(m, i.ops[2])
       IN  /\ insn = NoInsn
           /\ \/ i.mn = "mov" /\ Continue(i, SetOper(m, i.ops[1], b))
              \/ i.mn = "movsx" /\ Continue(i, SetOper(m, i.ops[1], SourceOf(m, i)))
              \/ i.mn = "lea" /\ Continue(i, SetOper(m, i.ops[1], OperAddr(m, i.ops[2])))
              \/ i.mn = "cmov" /\ Continue(i, IF Cond(m, i.cc) THEN SetOper(m, i.ops[1], b)
                                                              ELSE m)
              \/ i.mn = "set" /\ Continue(i, SetOper(m, i.ops[1], IF Cond(m, i.cc) THEN 1 ELSE 0))
              \/ i.mn = "nop" /\ Continue(i, m)
              \/ i.mn = "xchg" /\ Continue(i, SetOper(SetOper(m, i.ops[1], b), i.ops[2], a))

\* xadd and cmpxchg.
ExecExchange ==
    \E i \in Insns :
       LET dst  == OperValue(m, i.ops[1])
           src  == OperValue(m, i.ops[2])
           size == i.ops[1].width
           sum  == Unsigned(dst + src, size)
           acc  == GpLane("ax", size)
           same == Unsigned(RegVal(m, acc), size) = Unsigned(dst, size)
       IN  /\ insn = NoInsn
           /\ \/ /\ i.mn = "xadd"
                 /\ Continue(i, SetFlags(SetOper(SetOper(m, i.ops[2], dst), i.ops[1], sum),
                                         [zf |-> sum = 0,
                                          cf |-> IsUnsignedCarry(Int64(dst + src), size)]
                                         @@ SignParity(sum, size)))
              \/ /\ i.mn = "cmpxchg"
                 /\ Continue(i, SetFlags(IF same THEN SetOper(m, i.ops[1], src)
                                                 ELSE SetReg(m, acc, dst), [zf |-> same]))

ExecArith ==
    \E i \in Insns, ub \in BOOLEAN :
       LET dst  == OperValue(m, i.ops[1])
           size == i.ops[1].width
           sub  == IntegerSubtraction(m, i, ub)
           cf   == IF m.f["cf"] THEN 1 ELSE 0
           sbb  == IntSubBase(m, Word(SourceOf(m, i) + cf), dst, size, ub)
       IN  /\ insn = NoInsn
           /\ \/ i.mn = "add" /\ Continue(i, OpAdd(m, i, FALSE, ub))
              \/ i.mn = "adc" /\ Continue(i, OpAdd(m, i, TRUE, ub))
              \/ i.mn = "sub" /\ Continue(i, SetOper(sub.m, i.ops[1], Unsigned(sub.res, size)))
              \/ i.mn = "sbb" /\ Continue(i, SetOper(sbb.m, i.ops[1], sbb.res))
              \/ i.mn = "cmp" /\ Continue(i, sub.m)
              \/ i.mn = "inc" /\ Continue(i, Inc(m, i, ub))
              \/ i.mn = "dec" /\ Continue(i, Dec(m, i))
              \/ i.mn = "neg" /\ Continue(i, Neg(m, i))

ExecLogic ==
    \E i \in Insns :
       LET and == LogicalAnd(m, i)
       IN  /\ insn = NoInsn
           /\ \/ i.mn = "and" /\ Continue(i, SetOper(and.m, i.ops[1], and.res))
              \/ i.mn = "test" /\ Continue(i, and.m)
              \/ i.mn = "or" /\ Continue(i, LogicalOr(m, i, FALSE))
              \/ i.mn = "xor" /\ Continue(i, LogicalOr(m, i, TRUE))
              \/ i.mn = "not" /\ Continue(i, SetOper(m, i.ops[1],
                                       OperValue(m, i.ops[1]) ^^ UMax(i.ops[1].width)))

ExecShift ==
    \E i \in Insns, ub \in BOOLEAN :
       /\ insn = NoInsn
       /\ \/ i.mn = "shl" /\ Continue(i, Shl(m, i, ub))
          \/ i.mn = "shr" /\ Continue(i, Shr(m, i, FALSE, ub))
          \/ i.mn = "sar" /\ Continue(i, Shr(m, i, TRUE, ub))
          \/ i.mn = "rol" /\ Continue(i, Rotate(m, i, TRUE))
          \/ i.mn = "ror" /\ Continue(i, Rotate(m, i, FALSE))
          \/ i.mn \in {"bt", "bts", "btr", "btc"} /\ Continue(i, BitTest(m, i, i.mn))

ExecMulDiv ==
    \E i \in Insns :
       /\ insn = NoInsn
       /\ \/ i.mn = "mul" /\ Continue(i, Mul(m, i))
          \/ i.mn = "imul" /\ Continue(i, IF Len(i.ops) = 1 THEN IMul1(m, i) ELSE IMul2(m, i))
          \/ i.mn = "div" /\ OperValue(m, i.ops[1]) # 0 /\ Continue(i, Div(m, i))
          \/ i.mn = "idiv" /\ OperValue(m, i.ops[1]) # 0 /\ Continue(i, IDiv(m, i))
          \/ /\ i.mn \in {"cbw", "cwde", "cdqe", "cwd", "cdq", "cqo"}
             /\ i.mn \in {"cdqe", "cqo"} => is64
             /\ Continue(i, Convert(m, i.mn))

\* A byte or word push is 2 or pointer-size bytes; a narrow immediate is extended.
PushSize(size) == IF size = 2 THEN 2 ELSE Psize

\* The target of a call is read once the return address is on the stack.
ExecStack ==
    \E i \in Insns :
       LET op   == i.ops[1]
           size == PushSize(op.width)
           v    == OperValue(m, op)
           ext  == IF op.kind = "imm" /\ op.width < size THEN SignExtend(v, op.width, size) ELSE v
           left == SetReg(m, Full("sp"), RegVal(m, Full("bp")))
           sp   == RegVal(DoPop(m, Psize), Full("sp"))
           into == DoPush(m, i.va + i.len, Psize)
       IN  /\ insn = NoInsn
           /\ \/ i.mn = "push" /\ Continue(i, DoPush(m, ext, size))
              \/ i.mn = "pop" /\ Continue(i, SetOper(DoPop(m, size), op, PopValue(m, size)))
              \/ i.mn = "call" /\ Jump(i, into, OperValue(into, op))
              \/ i.mn = "leave" /\ Continue(i, SetReg(DoPop(left, Psize), Full("bp"),
                                                      PopValue(left, Psize)))
              \/ i.mn = "ret" /\ Jump(i, IF Len(i.ops) = 0 THEN DoPop(m, Psize)
                                         ELSE SetReg(m, Full("sp"), Word(sp + v)),
                                      PopValue(m, Psize))

ExecJump ==
    \E i \in Insns :
       LET to == OperValue(m, i.ops[1])
       IN  /\ insn = NoInsn
           /\ \/ i.mn = "jmp" /\ Jump(i, m, to)
              \/ i.mn = "jcc" /\ Jump(i, m, IF Cond(m, i.cc) THEN to ELSE i.va + i.len)

ExecSimd ==
    \E i \in Insns :
       LET a == ReadSimd(m, i.ops[1], 16)
           b == ReadSimd(m, i.ops[2], 16)
           n == IF OperValue(m, i.ops[2]) < 16 THEN OperValue(m, i.ops[2]) ELSE 16
       IN  /\ insn = NoInsn
           /\ \/ i.mn = "movs" /\ Continue(i, WriteSimd(m, i.ops[1],
                                           ReadSimd(m, i.ops[2], i.width), i.width))
              \/ i.mn = "pxor" /\ Continue(i, WriteSimd(m, i.ops[1], a ^^ b, 16))
              \/ i.mn = "psrldq" /\ Continue(i, WriteSimd(m, i.ops[1], a \div 2^Bits(n), 16))
              \/ i.mn = "pslldq" /\ Continue(i, WriteSimd(m, i.ops[1], (a % 2^Bits(16 - n)) * 2^Bits(n), 16))

ExecFault ==
    \E i \in Insns :
       /\ insn = NoInsn
       /\ \/ i.mn = "int" /\ Fault(i, "breakpoint")
          \/ i.mn = "ud" /\ Fault(i, "badOpcode")
          \/ i.mn = "io" /\ Fault(i, "outInstruction")
          \/ i.mn = "other" /\ Fault(i, "unsupported")
          \/ /\ i.mn \in {"div", "idiv"}
             /\ OperValue(m, i.ops[1]) = 0
             /\ Fault(i, "divideByZero")

Next == \/ ExecMove \/ ExecExchange \/ ExecArith \/ ExecLogic \/ ExecShift \/ ExecMulDiv
        \/ ExecStack \/ ExecJump \/ ExecSimd \/ ExecFault

Spec == Init /\ [][Next]_vars

-----------------------------------------------------------------------------
(* Properties.                                                             *)

Dst == OperValue(pre, insn.ops[1])

\* After a comparison the unsigned conditions order the operands exactly, below
\* 8 bytes, and the signed ones wherever the difference is not the least value
\* of the size, which the emulator counts as an overflow on purpose.  Equality
\* is exact at every size.
CompareDecides ==
    insn.mn = "cmp" =>
        LET size == insn.ops[1].width
            src  == SourceOf(pre, insn)
            u    == Unsigned(Dst, size)
            v    == Unsigned(src, size)
            diff == Signed(Dst, size) - Signed(src, size)
        IN  /\ Cond(m, "z") <=> u = v
            /\ size < 8 => /\ Cond(m, "b") <=> u < v
                           /\ Cond(m, "be") <=> u =< v
            /\ InInt64(diff) /\ diff # -SMax(size) - 1 =>
                   /\ Cond(m, "l") <=> diff < 0
                   /\ Cond(m, "nle") <=> diff > 0

\* Where a result has its high part: ah for bytes, the data register otherwise.
HighPart(s, size) == RegVal(s, IF size = 1 THEN HighLane("ax") ELSE GpLane("dx", size))
LowPart(s, size)  == RegVal(s, GpLane("ax", size))
Magnitude(x)      == IF x < 0 THEN -x ELSE x

\* At every size: the one-operand product spans the high and the low part
\* exactly, unsigned and signed; a quotient that fits and its remainder give the
\* dividend back, unsigned and signed.  The half-word multiplication and the
\* bit-serial division are right.  Two forms are not the processor's, and are
\* stated as the code has them: the byte form of div leaves the quotient above
\* the remainder, a quirk of vivisect the tests keep; and idiv below 8 bytes
\* gives the remainder the sign of the quotient, so that only its magnitude is
\* right (7 by -2 is -3, remainder -1).  Not covered: imul with two or three
\* operands, and a quotient that does not fit, where the processor would fault.
ProductsAndQuotients ==
    LET size == insn.ops[1].width
        mod  == 2^Bits(size)
        high(s) == HighPart(s, size)
        low(s)  == LowPart(s, size)
        tot  == high(pre) * mod + low(pre)
        stot == IF tot >= mod * SignBit(size) THEN tot - mod * mod ELSE tot
        quot == IF size = 1 THEN high(m) ELSE low(m)
        rem  == IF size = 1 THEN low(m) ELSE high(m)
        sd   == Signed(Dst, size)
        sq   == Signed(low(m), size)
        sr   == Signed(high(m), size)
        fits == Magnitude(stot) \div Magnitude(sd) =< SMax(size)
    IN  /\ insn.mn = "mul" => high(m) * mod + low(m) = low(pre) * Dst
        /\ insn.mn = "imul" /\ Len(insn.ops) = 1 =>
               sr * mod + low(m) = Signed(low(pre), size) * sd
        /\ insn.mn = "div" /\ result = "continue" /\ high(pre) < Dst =>
               /\ tot = quot * Dst + rem
               /\ rem < Dst
        /\ insn.mn = "idiv" /\ result = "continue" /\ fits =>
               /\ Magnitude(stot) = Magnitude(sq) * Magnitude(sd) + Magnitude(sr)
               /\ Magnitude(sr) < Magnitude(sd)
               /\ sq # 0 => (sq < 0 <=> (stot < 0) # (sd < 0))
               /\ sr # 0 => (sr < 0 <=> IF size = 8 THEN stot < 0 ELSE (stot < 0) # (sd < 0))

\* What was pushed onto writable stack is what the next pop returns, and that pop
\* restores the stack pointer; a call pushes the address a ret returns to.
StackRoundTrip ==
    insn.mn \in {"push", "call"} =>
        LET size == IF insn.mn = "call" THEN Psize ELSE PushSize(insn.ops[1].width)
            sp   == RegVal(pre, Full("sp"))
            v    == IF insn.mn = "call" THEN insn.va + insn.len
                    ELSE SignExtend(Dst, insn.ops[1].width, size)
        IN  /\ RegVal(DoPop(m, size), Full("sp")) = sp
            /\ (sp >= size /\ Probe(Maps, sp - size, size, "w")
                /\ Cardinality(DOMAIN pre.ov) + size =< OverlayCap
                /\ (insn.mn = "call" \/ insn.ops[1].kind = "imm" \/ insn.ops[1].width = size)) =>
                   PopValue(m, size) = Unsigned(v, size)
====
