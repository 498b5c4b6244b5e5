----------------------------- MODULE CodeBlocks -----------------------------
(***************************************************************************)
(* The basic blocks of one function (viv/codeblocks.cpp, analyze_function) *)
(* and the verdict that a function does not return (noreturn.cpp).         *)
(*                                                                         *)
(* code[va] is the instruction the reader decodes at va, or Bad.  db and x *)
(* are the location and edge databases at the moment of the analysis.      *)
(***************************************************************************)
EXTENDS LocationDb

CONSTANTS
    MaxVa,  \* the greatest address a location, an edge or a block end can name
    Bad     \* what the reader returns where no instruction decodes

ASSUME VaAssumption == MaxVa \in Nat

Va == 0 .. MaxVa

\* The instruction record: kind, length and static branch target.
IsJump(op) == op.kind \in {"jump", "cond"}
IsFallthrough(op) == op.kind \in {"plain", "call", "cond"}

\* Edges that end a block: neither calls nor dereferenced branches.
FlowTargets(x, va) ==
    {e[2] : e \in {d \in CodeXrefsFrom(x, va) : x[d] \cap {"proc", "deref"} = {}}}

\* Mutant of EndsBlock: a block runs on over an address other code leads to.
EndsAtBranchOnly(code, x, va, loc, next) ==
    ~IsFallthrough(code[loc]) \/ FlowTargets(x, va) # {}

\* The instruction at va ends its block: it does not fall through, or flow
\* leaves it (Split-B), or flow enters the next instruction (Split-C).
EndsBlock(code, x, va, loc, next) ==
    \/ ~IsFallthrough(code[loc])
    \/ FlowTargets(x, va) # {}
    \/ HasCodeXrefTo(x, next)

\* A no-fall instruction leaves an end marker behind it, any other one that
\* ends a block pushes the next address as a block start.
PushesEndMarker(op) == ~IsFallthrough(op)

(***************************************************************************)
(* The inner walk: from a block start, instruction by instruction, until   *)
(* something ends the block.  `end` is where it ends (NoVa: the walk broke *)
(* on an unparsable opcode and recorded no size), `marks` whether an end   *)
(* marker is pushed, `todo` the block starts it pushes.                    *)
(***************************************************************************)
BlockWalk(code, db, x) ==
    LET walk[va \in Va] ==
            LET loc  == GetLocation(db, va)
                next == va + db[loc].size
            IN  IF loc = NoVa \/ db[loc].type # "op"     \* Stop-A
                THEN [end |-> va, marks |-> TRUE, todo |-> {}]
                ELSE IF code[va] = Bad                   \* can_parse fails
                THEN [end |-> NoVa, marks |-> FALSE, todo |-> {}]
                ELSE IF EndsBlock(code, x, va, loc, next)
                THEN [end   |-> next,
                      marks |-> PushesEndMarker(code[loc]),
                      todo  |-> FlowTargets(x, va) \cup
                                {n \in {next} : IsFallthrough(code[loc])}]
                ELSE walk[next]
    IN  walk

\* Every block start reached from the function's entry, the `done` set.
BlockStarts(walk, fva) ==
    LET reach[n \in 0 .. Cardinality(Va)] ==
            IF n = 0 THEN {fva}
            ELSE reach[n - 1] \cup UNION {walk[s].todo : s \in reach[n - 1]}
    IN  reach[Cardinality(Va)]

BlockSize(walk, s) == IF walk[s].end = NoVa THEN 0 ELSE walk[s].end - s

\* The registration loop visits the markers in ascending order, an end before
\* a begin of the same address, and stops without registering when the marker
\* it has popped, a begin, was the last one.
Registered(walk, starts) ==
    LET marked == starts \cup {walk[s].end : s \in {t \in starts : walk[t].marks}}
        isLast(s) == \A m \in marked : m <= s
    IN  {s \in starts : ~isLast(s) /\ BlockSize(walk, s) # 0}

AnalyzeFunction(code, db, x, fva) ==
    LET walk == BlockWalk(code, db, x)
    IN  {[va |-> s, size |-> BlockSize(walk, s)] :
            s \in Registered(walk, BlockStarts(walk, fva))}

-----------------------------------------------------------------------------
\* The last instruction materialize_function decodes inside block b, by
\* decoding from its start for as long as something decodes.
Terminator(code, b) ==
    LET last[va \in Va] ==
            LET next == va + code[va].len
            IN  IF next >= b.va + b.size \/ code[next] = Bad THEN va ELSE last[next]
    IN  IF code[b.va] = Bad THEN NoVa ELSE last[b.va]

\* The blocks of the same function the terminator leads to.
Successors(code, x, blocks, b) ==
    LET starts == {c.va : c \in blocks}
        term   == Terminator(code, b)
    IN  IF term = NoVa THEN {}
        ELSE (FlowTargets(x, term) \cup
              {n \in {term + code[term].len} : IsFallthrough(code[term])}) \cap starts

\* function_is_noreturn: no block without successors can return.  NoReturn is
\* the set of call sites known not to return.
FunctionIsNoReturn(code, x, blocks, noReturnSites) ==
    /\ blocks # {}
    /\ \A b \in blocks :
         LET term == Terminator(code, b)
         IN  \/ term = NoVa
             \/ Successors(code, x, blocks, b) # {}
             \/ code[term].kind = "call" /\ term \in noReturnSites
             \/ code[term].kind \notin {"ret", "jump", "cond"}
=============================================================================
