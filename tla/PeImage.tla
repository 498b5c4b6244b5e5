------------------------------ MODULE PeImage ------------------------------
(***************************************************************************)
(* The memory view of a parsed image (pe/pe_image.cpp): sections over a    *)
(* file buffer.  An image is a record: buf, the file's bytes; base, the    *)
(* image base; is64; sections, a sequence of records va, vsize, raw, rsize *)
(* and read.  Addresses are RVAs unless called va; a failed read is None.  *)
(***************************************************************************)
EXTENDS Integers, Sequences, SequencesExt, FiniteSets, FiniteSetsExt

CONSTANTS HeaderGuard,   \* kHeaderGuard
          AddressBits    \* the width of an address, 64

None == <<>>
Opt(x) == <<x>>

SectionEnd(s) == s.va + Max({s.vsize, s.rsize})

\* section_containing_rva: the first section in table order.
SectionAt(img, rva) ==
    LET in == {k \in DOMAIN img.sections :
                  img.sections[k].va =< rva /\ rva < SectionEnd(img.sections[k])}
    IN  IF in = {} THEN None ELSE Opt(Min(in))

\* Past the raw bytes of a section nothing is mapped; outside every section a
\* small RVA is a header and maps to itself.
OffsetWithin(s, rva) == IF rva - s.va >= s.rsize THEN None ELSE Opt(s.raw + rva - s.va)

RvaToFileOffset(img, rva) ==
    LET at == SectionAt(img, rva)
    IN  IF at # None THEN OffsetWithin(img.sections[at[1]], rva)
        ELSE IF rva < Len(img.buf) /\ rva < HeaderGuard THEN Opt(rva) ELSE None

\* n bytes of a buffer from an offset, if there is one.
Slice(buf, off, n) ==
    IF off = None \/ off[1] > Len(buf) \/ n > Len(buf) - off[1] THEN None
    ELSE Opt(SubSeq(buf, off[1] + 1, off[1] + n))

\* read_at_rva: only the start is checked against the section.
ReadAtRva(img, rva, n) == Slice(img.buf, RvaToFileOffset(img, rva), n)

ProbeReadable(img, rva, n) ==
    LET at == SectionAt(img, rva)
    IN  /\ at # None /\ img.sections[at[1]].read
        /\ n =< 2^AddressBits - 1 - rva
        /\ rva + n =< SectionEnd(img.sections[at[1]])

\* read_bytes_capped and decode_insn_at: when the whole window cannot be read,
\* the longest prefix that a bisection over lengths finds.
RECURSIVE Bisect(_, _, _, _)
Bisect(img, rva, lo, hi) ==
    IF hi - lo =< 1 THEN lo
    ELSE LET mid == lo + (hi - lo) \div 2
         IN  IF ReadAtRva(img, rva, mid) # None THEN Bisect(img, rva, mid, hi)
             ELSE Bisect(img, rva, lo, mid)

ReadBytesCapped(img, va, cap) ==
    LET rva  == va - img.base
        all  == ReadAtRva(img, rva, cap)
        some == Bisect(img, rva, 0, cap)
    IN  IF va = 0 \/ va < img.base THEN <<>>
        ELSE IF all # None THEN all[1]
        ELSE IF some = 0 THEN <<>> ELSE ReadAtRva(img, rva, some)[1]

VaReadable(img, va) == va >= img.base /\ ProbeReadable(img, va - img.base, 1)
=============================================================================
