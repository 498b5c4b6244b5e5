------------------------------ MODULE EmuBits ------------------------------
(***************************************************************************)
(* The bit helpers (emu/bits.h) and the register file (emu/registers.cpp)  *)
(* of the discovery emulator.  A size is a number of bytes, as in the      *)
(* code; a byte has ByteBits bits, 8 in the program and fewer in a model,  *)
(* so that every width keeps its ratio to the others: a word is 8 bytes,   *)
(* std::uint64_t is a natural below 2^WordBits and std::int64_t the same   *)
(* bits read as a two's complement number.                                 *)
(***************************************************************************)
EXTENDS Integers, FiniteSets, Bitwise

CONSTANT ByteBits

ASSUME ByteBitsAssumption == ByteBits \in Nat \ {0}

Bits(size) == ByteBits * size
WordBits == Bits(8)
Word(x) == x % 2^WordBits
Int64Min == -(2^(WordBits - 1))
Int64Max == 2^(WordBits - 1) - 1
InInt64(x) == Int64Min =< x /\ x =< Int64Max
Int64(x) == IF Word(x) > Int64Max THEN Word(x) - 2^WordBits ELSE Word(x)

UMax(size) == 2^Bits(size) - 1
SignBit(size) == 2^(Bits(size) - 1)
SMax(size) == UMax(size) - SignBit(size)
Unsigned(x, size) == x % 2^Bits(size)
IsSigned(x, size) == Unsigned(x, size) >= SignBit(size)
Signed(x, size) ==
    IF IsSigned(x, size) THEN Unsigned(x, size) - 2^Bits(size) ELSE Unsigned(x, size)

\* Only widening extends; a narrower target leaves the value of the wider size.
SignExtend(x, cur, new) ==
    LET u == Unsigned(x, cur)
    IN  IF cur < new /\ IsSigned(u, cur) THEN u + UMax(new - cur) * 2^Bits(cur) ELSE u

\* The comparison is of two int64: for 8 bytes UMax reads as -1.
IsUnsignedCarry(v, size) == v > Int64(UMax(size)) \/ v < 0

\* INT_MIN itself counts as an overflow, as in vivisect.
IsSignedOverflow(v, size) == v > SMax(size) \/ v < -SMax(size)

\* Even parity of the low byte.
IsParityByte(x) ==
    Cardinality({b \in 0..(ByteBits - 1) : (Word(x) \div 2^b) % 2 = 1}) % 2 = 0

-----------------------------------------------------------------------------
(* The register file: a whole register, or a lane of `bits` bits at bit    *)
(* offset `off` of it.                                                     *)

PtrSize(is64) == IF is64 THEN 8 ELSE 4

Lane(reg, off, bits) == [reg |-> reg, off |-> off, bits |-> bits]

\* The register operands the decoder names, al to rax and ah: a lane, or the
\* whole register when the size is that of the architecture.
GpLane(reg, size) == Lane(reg, 0, Bits(size))
HighLane(reg) == Lane(reg, Bits(1), Bits(1))

GetRegister(file, lane) == (file[lane.reg] \div 2^lane.off) % 2^lane.bits

\* A 32-bit lane of a 64-bit register is redirected to the whole of it, and the
\* value masked by the whole register's mask; a smaller lane is spliced in.
SetRegister(file, lane, value, is64) ==
    LET old   == file[lane.reg]
        low   == old % 2^lane.off
        high  == old \div 2^(lane.off + lane.bits)
        whole == lane.off = 0 /\ lane.bits >= Bits(4)
        new   == IF whole THEN value
                 ELSE low + (value % 2^lane.bits) * 2^lane.off
                          + high * 2^(lane.off + lane.bits)
    IN  [file EXCEPT ![lane.reg] = new % 2^Bits(PtrSize(is64))]
=============================================================================
