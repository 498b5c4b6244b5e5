--------------------------- MODULE SandboxMemory ---------------------------
(***************************************************************************)
(* The emulator's memory (emu/memory.cpp): maps over read-only backing     *)
(* bytes and one overlay of written bytes, capped.  The maps are a         *)
(* sequence, searched from the front; the stack map is put at the front    *)
(* (init_stack).  An overlay is a function from addresses to bytes.        *)
(***************************************************************************)
EXTENDS EmuBits, Sequences, Functions

CONSTANTS OverlayCap,   \* overlay_cap_
          StackFill,    \* kStackFill: what an unwritten stack byte reads as
          TaintByte     \* kTaintByte: what an unreadable byte reads as

\* A map: its first address, its bytes (only the count for the stack, which is
\* filled) and its permissions.
Map(base, size, perms, fill) ==
    [base |-> base, size |-> size, perms |-> perms, fill |-> fill]

InitStack(maps, base, size) == <<Map(base, size, {"r", "w"}, StackFill)>> \o maps

InMap(m, va) == va >= m.base /\ va < m.base + m.size

FindMap(maps, va) ==
    LET hits == {k \in DOMAIN maps : InMap(maps[k], va)}
    IN  IF hits = {} THEN <<>> ELSE <<maps[CHOOSE k \in hits : \A j \in hits : k =< j]>>

\* The whole range lies within the one map that holds its first byte.
Probe(maps, va, size, perm) ==
    LET m == FindMap(maps, va)
    IN  /\ m # <<>>
        /\ va + size =< m[1].base + m[1].size
        /\ perm \in m[1].perms

ReadByte(maps, overlay, va) ==
    IF va \in DOMAIN overlay THEN overlay[va] ELSE FindMap(maps, va)[1].fill

\* Little endian, all taint bytes when the range cannot be read.
ReadValue(maps, overlay, va, size) ==
    LET byte(k) == IF Probe(maps, va, size, "r") THEN ReadByte(maps, overlay, va + k)
                                                 ELSE TaintByte
        sum[k \in 0..size] == IF k = 0 THEN 0 ELSE sum[k - 1] + byte(k - 1) * 2^Bits(k - 1)
    IN  sum[size]

\* Byte by byte: a byte the overlay already holds is replaced, a new one is
\* added below the cap, and the first new byte at the cap ends the write.
WriteValue(maps, overlay, va, value, size) ==
    LET addr(k) == va + k
        fresh(k) == {j \in 0..(k - 1) : addr(j) \notin DOMAIN overlay}
        full(k) == /\ addr(k) \notin DOMAIN overlay
                   /\ Cardinality(DOMAIN overlay) + Cardinality(fresh(k)) >= OverlayCap
        kept == {k \in 0..(size - 1) : \A j \in 0..k : ~full(j)}
        byte(k) == (value \div 2^Bits(k)) % 2^ByteBits
        written == {addr(k) : k \in kept}
    IN  IF ~Probe(maps, va, size, "w") THEN overlay
        ELSE [a \in DOMAIN overlay \cup written |->
                 IF a \in written THEN byte(a - va) ELSE overlay[a]]

=============================================================================
