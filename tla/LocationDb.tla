----------------------------- MODULE LocationDb -----------------------------
(***************************************************************************)
(* The two databases every analysis pass of the function recovery shares:  *)
(* LocationDb (viv/location_db.cpp), defined byte ranges keyed by their    *)
(* start address, and XrefDb (viv/xref_db.cpp), code edges with their      *)
(* branch flags.                                                           *)
(*                                                                         *)
(* A location database is a function from start addresses to records       *)
(* [size, type]; an edge database is a function from pairs <<from, to>> to *)
(* sets of flags.                                                          *)
(***************************************************************************)
EXTENDS Integers, FiniteSets

CONSTANT NoVa   \* std::nullopt where an address is optional

ASSUME NoVaAssumption == NoVa \notin Int

EmptyDb == [x \in {} |-> x]

\* by_start_[va] = Location{va, size, type}
AddLocation(db, va, size, type) ==
    [s \in DOMAIN db \cup {va} |->
        IF s = va THEN [size |-> size, type |-> type] ELSE db[s]]

\* The location with the greatest start not past va, when it reaches over va:
\* its start address, or NoVa.
GetLocation(db, va) ==
    LET before == {s \in DOMAIN db : s <= va}
    IN  IF before = {}
        THEN NoVa
        ELSE LET start == CHOOSE s \in before : \A t \in before : t <= s
             IN  IF va < start + db[start].size THEN start ELSE NoVa

Defined(db, va) == GetLocation(db, va) # NoVa

\* The flags that the branches brs of the instruction at `from` give an edge.
BranchFlags(from, brs, edge) ==
    UNION {b.flags : b \in {c \in brs : <<from, c.to>> = edge}}

\* add_code_xref for each branch of a set: one edge per pair of addresses,
\* flags accumulate.
AddCodeXrefs(x, from, brs) ==
    [e \in DOMAIN x \cup {<<from, b.to>> : b \in brs} |->
        IF e \in DOMAIN x THEN x[e] \cup BranchFlags(from, brs, e)
        ELSE BranchFlags(from, brs, e)]

CodeXrefsFrom(x, va) == {e \in DOMAIN x : e[1] = va}

HasCodeXrefTo(x, va) == \E e \in DOMAIN x : e[2] = va
=============================================================================
