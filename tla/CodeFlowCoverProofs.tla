------------------------- MODULE CodeFlowCoverProofs --------------------------
(***************************************************************************)
(* What the recovery covers: no edge that flow can follow leads to code it *)
(* missed, every function a decoded call names was entered, and nothing    *)
(* was decoded behind a call that does not return.                         *)
(*                                                                         *)
(* How deep it goes: add_entry_point checks the descent cap before it      *)
(* enters a callee, but not before it enters a deferred or a blocked       *)
(* function; these entries never stack up when FLIRT makes no local names, *)
(* so that the native stack is bounded.                                    *)
(*                                                                         *)
(* And what analyze_function makes of it: blocks that neither overlap nor  *)
(* get lost.                                                               *)
(***************************************************************************)
EXTENDS CodeFlowProofs

\* The greatest element of a set of addresses.
LEMMA GreatestVa ==
  ASSUME NEW S, S \subseteq Va, S # {}
  PROVE  \E x \in S : \A y \in S : y <= x
<1> DEFINE T == {MaxVa - s : s \in S}
<1>0. \A s \in S : MaxVa - s \in Nat
  BY VaAssumption DEF Va
<1>1. T \subseteq Nat /\ T # {}
  BY <1>0
<1>2. PICK t \in T : \A u \in T : t <= u
  BY <1>1, LeastNatural
<1>3. PICK x \in S : t = MaxVa - x
  BY <1>2
<1>4. \A y \in S : MaxVa - x <= MaxVa - y
  BY <1>2, <1>3
<1> QED
  BY <1>4, VaAssumption DEF Va

\* Defined, without the choice of get_location: the last location that starts
\* at or before va reaches over it.
Covers(db, s, va) ==
    /\ s \in DOMAIN db /\ s <= va /\ va < s + db[s].size
    /\ \A t \in DOMAIN db : t <= va => t <= s

LEMMA DefinedIffCovered ==
  ASSUME NEW db, DOMAIN db \subseteq Va, NEW va \in Int
  PROVE  Defined(db, va) <=> \E s \in DOMAIN db : Covers(db, s, va)
<1> DEFINE before == {s \in DOMAIN db : s <= va}
<1>1. DOMAIN db \subseteq Int
  BY VaAssumption DEF Va
<1>2. CASE before = {}
  BY <1>2, <1>1 DEF Defined, GetLocation, Covers
<1>3. CASE before # {}
  <2>1. \E x \in before : \A y \in before : y <= x
    BY <1>3, GreatestVa
  <2>2. PICK start : start = CHOOSE s \in before : \A t \in before : t <= s
    OBVIOUS
  <2>3. start \in before /\ \A t \in before : t <= start
    BY <2>1, <2>2
  <2>4. GetLocation(db, va) = IF va < start + db[start].size THEN start ELSE NoVa
    BY <1>3, <2>2 DEF GetLocation
  <2>5. start # NoVa
    BY <1>1, <2>3, NoVaAssumption
  <2>6. Defined(db, va) <=> va < start + db[start].size
    BY <2>4, <2>5 DEF Defined
  <2>7. \A s \in DOMAIN db : Covers(db, s, va) => s = start
    BY <1>1, <2>3 DEF Covers
  <2>8. va < start + db[start].size => Covers(db, start, va)
    BY <2>3 DEF Covers
  <2> QED
    BY <2>3, <2>6, <2>7, <2>8 DEF Covers
<1> QED
  BY <1>2, <1>3

\* Decoding at an undefined address undefines nothing: were the new location
\* in front of one that covers va, its address would have been covered.
LEMMA DefinedStays ==
  ASSUME TypeInv, NEW new \in Va, ~Defined(locations, new),
         NEW size, locations' = AddLocation(locations, new, size, "op"),
         NEW va \in Int, Defined(locations, va)
  PROVE  Defined(locations, va)'
<1>0. DOMAIN locations \subseteq Va /\ new \in Int
  BY VaAssumption DEF TypeInv, DbType, Va
<1>1. PICK s \in DOMAIN locations : Covers(locations, s, va)
  BY <1>0, DefinedIffCovered
<1>2. DOMAIN locations \subseteq Int /\ s \in Int
  BY VaAssumption DEF TypeInv, DbType, Va
<1>3. locations[s].size \in Nat
  BY DEF TypeInv, DbType, Instruction
<1>4. ~Covers(locations, s, new)
  BY <1>0, DefinedIffCovered
<1>5. ~(s <= new /\ new <= va)
  BY <1>0, <1>1, <1>2, <1>3, <1>4 DEF Covers
<1>6. /\ DOMAIN locations' = DOMAIN locations \cup {new}
      /\ \A t \in DOMAIN locations : t # new => locations'[t] = locations[t]
  BY DEF AddLocation
<1>7. s # new
  BY <1>0, <1>1, <1>2, <1>5 DEF Covers
<1>8. Covers(locations', s, va)
  <2>1. s \in DOMAIN locations' /\ locations'[s] = locations[s]
    BY <1>6, <1>7
  <2>2. new <= va => new <= s
    BY <1>0, <1>2, <1>5
  <2>3. \A t \in DOMAIN locations' : t <= va => t <= s
    BY <1>1, <1>6, <2>2 DEF Covers
  <2> QED
    BY <1>1, <2>1, <2>3 DEF Covers
<1>9. DOMAIN locations' \subseteq Va
  BY <1>0, <1>6
<1>10. Defined(locations', va) <=> \E t \in DOMAIN locations' : Covers(locations', t, va)
  BY <1>9, DefinedIffCovered
<1> QED
  BY <1>6, <1>8, <1>10

\* An instruction is defined where it starts.
LEMMA StartsDefined ==
  ASSUME TypeInv, NEW va \in DOMAIN locations
  PROVE  Defined(locations, va)
<1>1. va \in Int /\ DOMAIN locations \subseteq Int /\ locations[va].size \in Nat \ {0}
  BY VaAssumption DEF TypeInv, DbType, Va, Instruction
<1>2. Covers(locations, va, va)
  BY <1>1 DEF Covers
<1> QED
  BY <1>1, <1>2, DefinedIffCovered DEF TypeInv, DbType

-----------------------------------------------------------------------------
(***************************************************************************)
(* The frames and the databases.                                           *)
(***************************************************************************)

\* FLIRT's local names are made only from inside a report.
NamesInv ==
    \A i \in DOMAIN stack :
        stack[i].names # <<>> => stack[i].phase \in {"release", "freed"}

\* An edge leaves a decoded instruction, a suppressed one falls through.
EdgeInv ==
    /\ \A e \in DOMAIN xrefs : e[1] \in DOMAIN locations
    /\ \A e \in noflow : \E c \in DOMAIN locations : e = <<c, c + code[c].len>>

\* The functions being flowed have decoded their first instruction, but for
\* the innermost, which may be about to.
PathInv ==
    \A k \in DOMAIN cf_blocks :
        \/ cf_blocks[k] \in DOMAIN locations
        \/ k = Len(cf_blocks) /\ InPhase("flow") /\ Top.va = cf_blocks[k]

LEMMA NamesKept ==
  ASSUME TypeInv, NamesInv, NEW g \in Frame, Continues(g),
         g.names # <<>> => g.phase \in {"release", "freed"}
  PROVE  NamesInv'
<1> SUFFICES ASSUME NEW i \in DOMAIN stack'
             PROVE  stack'[i].names # <<>> => stack'[i].phase \in {"release", "freed"}
  BY DEF NamesInv
<1> QED
  BY StackAfter DEF NamesInv, NewFrame

LEMMA NamesStep == TypeInv /\ NamesInv /\ [Next]_vars => NamesInv'
<1> SUFFICES ASSUME TypeInv, NamesInv, [Next]_vars PROVE NamesInv'
  OBVIOUS
<1>0. stack # <<>> /\ Top.names # <<>> => Top.phase \in {"release", "freed"}
  BY TopType DEF TypeInv, NamesInv
<1> USE DEF Kept, Fields, Continues
<1>a. ASSUME NEW g \in Frame, Continues(g), g.names = Top.names,
             Top.phase \in {"release", "freed"} => g.phase \in {"release", "freed"}
      PROVE  NamesInv'
  BY <1>0, <1>a, NamesKept, StackAfter
<1>1. CASE SkipAddress
  BY <1>1, <1>a, SkipAddressEffect
<1>2. CASE DecodeOpcode
  BY <1>2, <1>a, DecodeOpcodeEffect
<1>3. CASE EndFlow
  BY <1>3, <1>a, EndFlowEffect
<1>4. CASE BranchesDone
  BY <1>4, <1>a, BranchesDoneEffect
<1>5. CASE SkipBranch
  BY <1>5, <1>a, SkipBranchEffect
<1>6. CASE CallBranch
  BY <1>6, <1>a, CallBranchEffect, EnteringContinues
<1>7. CASE AfterCall
  BY <1>7, <1>a, AfterCallEffect
<1>8. CASE TailBranch
  BY <1>8, <1>a, TailBranchEffect
<1>9. CASE FlowBranch
  BY <1>9, <1>a, FlowBranchEffect
<1>10. ASSUME NEW jt \in JumpTables, ResolveJumpTable(jt) PROVE NamesInv'
  BY <1>10, <1>a, ResolveJumpTableEffect
<1>11. CASE DrainDeferred
  BY <1>11, <1>a, DrainDeferredEffect, EnteringContinues
<1>12. CASE StartBlocked
  BY <1>12, <1>a, StartBlockedEffect
<1>13. CASE DrainBlocked
  BY <1>13, <1>a, DrainBlockedEffect, EnteringContinues
<1>b. ASSUME Popped PROVE NamesInv'
  BY <1>b DEF Popped, NamesInv, TypeInv
<1>14. CASE FinishFlow
  BY <1>14, <1>a, <1>b, FinishFlowEffect
<1>15. CASE Report
  BY <1>15, ReportEffect, NamesKept
<1>16. CASE MakeLocalName
  <2>1. PICK g \in Frame : Kept(g, {"names"}) /\ Continues(g)
    BY <1>16, MakeLocalNameEffect, EnteringContinues
  <2>2. Top.phase \in {"release", "freed"}
    BY <1>0, <1>16, MakeLocalNameEffect DEF MakeLocalName
  <2> QED
    BY <2>1, <2>2, NamesKept
<1>17. CASE Release
  BY <1>17, <1>a, ReleaseEffect
<1>18. CASE Return
  BY <1>18, <1>b, ReturnEffect
<1>19. ASSUME NEW waiter \in Va, ReportFreed(waiter) PROVE NamesInv'
  BY <1>19, ReportFreedEffect, NamesKept
<1>20. ASSUME NEW va \in Seeds, MakeFunction(va) PROVE NamesInv'
  <2>1. \A i \in DOMAIN stack' : stack'[i] = NewFrame(va)
    BY <1>20, MakeFunctionEffect
  <2> QED
    BY <2>1 DEF NamesInv, NewFrame
<1>21. CASE UNCHANGED vars
  BY <1>21 DEF vars, NamesInv
<1> QED
  BY <1>1, <1>2, <1>3, <1>4, <1>5, <1>6, <1>7, <1>8, <1>9, <1>10, <1>11, <1>12, <1>13, <1>14,
     <1>15, <1>16, <1>17, <1>18, <1>19, <1>20, <1>21 DEF Next, Step

\* The frame on top, and the instruction whose branches it handles.
LEMMA TopInsn ==
  ASSUME TypeInv, InsnInv, stack # <<>>
  PROVE  /\ InsnFrame(Top) /\ Top \in Frame
         /\ Top.phase \in {"branch", "called"} => Top.cur \in DOMAIN locations
<1>1. Top = stack[Len(stack)] /\ Len(stack) \in DOMAIN stack /\ Top \in Frame
  BY TopType DEF TypeInv
<1> QED
  BY <1>1 DEF InsnInv, InsnFrame

LEMMA EdgeStep == TypeInv /\ InsnInv /\ EdgeInv /\ [Next]_vars => EdgeInv'
<1> SUFFICES ASSUME TypeInv, InsnInv, EdgeInv, [Next]_vars PROVE EdgeInv'
  OBVIOUS
<1> USE DEF deferralVars, discoveryVars
<1>1. CASE DecodeOpcode
  <2>1. PICK va : va = Last(Top.optodo)
    OBVIOUS
  <2>2. PICK far : xrefs' = AddCodeXrefs(xrefs, va, far)
    BY <1>1, <2>1, DecodeOpcodeEffect
  <2>3. DOMAIN xrefs' = DOMAIN xrefs \cup {<<va, b.to>> : b \in far}
    BY <2>2, Zenon DEF AddCodeXrefs
  <2>4. DOMAIN locations' = DOMAIN locations \cup {va} /\ noflow' = noflow /\ code' = code
    BY <1>1, <2>1, DecodeOpcodeEffect DEF DecodeOpcode
  <2> QED
    BY <2>3, <2>4 DEF EdgeInv
<1>2. ASSUME NEW jt \in JumpTables, ResolveJumpTable(jt) PROVE EdgeInv'
  <2>1. PICK va, far : va = Top.cur /\ xrefs' = AddCodeXrefs(xrefs, va, far)
    BY <1>2, ResolveJumpTableEffect
  <2>2. DOMAIN xrefs' = DOMAIN xrefs \cup {<<va, b.to>> : b \in far}
    BY <2>1, Zenon DEF AddCodeXrefs
  <2>3. va \in DOMAIN locations
    BY <1>2, <2>1, TopInsn, ResolveJumpTableEffect DEF Replaced
  <2>4. UNCHANGED <<locations, noflow, code>>
    BY <1>2 DEF ResolveJumpTable
  <2> QED
    BY <2>2, <2>3, <2>4 DEF EdgeInv
<1>3. CASE AfterCall
  <2>1. Top.cur \in DOMAIN locations
    BY <1>3, TopInsn, AfterCallEffect DEF Replaced
  <2>2. noflow' \subseteq noflow \cup {<<Top.cur, Top.cur + code[Top.cur].len>>}
    BY <1>3 DEF AfterCall, NextVa
  <2>3. UNCHANGED <<locations, xrefs, code>>
    BY <1>3 DEF AfterCall
  <2> QED
    BY <2>1, <2>2, <2>3 DEF EdgeInv
<1>4. CASE UNCHANGED <<locations, xrefs, noflow, code>>
  BY <1>4 DEF EdgeInv
<1>5. CASE UNCHANGED vars
  BY <1>4, <1>5 DEF vars
<1>6. ASSUME Next, ~DecodeOpcode, ~AfterCall, ~\E jt \in JumpTables : ResolveJumpTable(jt)
      PROVE  UNCHANGED <<locations, xrefs, noflow, code>>
  BY <1>6 DEF Next, Step, MakeFunction, SkipAddress, EndFlow, BranchesDone, SkipBranch,
     CallBranch, TailBranch, FlowBranch, DrainDeferred, StartBlocked, DrainBlocked, FinishFlow,
     Report, ReportFreed, MakeLocalName, Release, Return
<1> QED
  BY <1>1, <1>2, <1>3, <1>4, <1>5, <1>6

\* The frame on top after a step.
LEMMA TopAfter ==
  ASSUME NEW g
  PROVE  /\ Replaced(g) => stack' # <<>> /\ Top' = g
         /\ \A w : Pushed(g, w) => stack' # <<>> /\ Top' = NewFrame(w)
<1>1. ASSUME Replaced(g) PROVE stack' # <<>> /\ Top' = g
  <2>1. stack' \in Seq(Frame) /\ Len(stack') = Len(stack) /\ stack'[Len(stack)] = g
    BY <1>1 DEF Replaced
  <2>2. stack' # <<>>
    BY <1>1 DEF Replaced
  <2> QED
    BY <2>1, <2>2 DEF Top, Last
<1>2. ASSUME NEW w, Pushed(g, w) PROVE stack' # <<>> /\ Top' = NewFrame(w)
  BY <1>2 DEF Pushed, Top, Last
<1> QED
  BY <1>1, <1>2

\* Outside the worklist loop, whatever is on the active path has been decoded.
LEMMA PathDecoded ==
  ASSUME PathInv, ~InPhase("flow"), NEW va, OnActivePath(va)
  PROVE  va \in DOMAIN locations
BY DEF PathInv, OnActivePath, Contains

LEMMA PathKept ==
  ASSUME TypeInv, PathInv, ~InPhase("flow"), NEW g,
         \/ Replaced(g) /\ cf_blocks' = cf_blocks
         \/ \E w \in Va : \E known : EntersFrom(g, w, known),
         locations' = locations
  PROVE  PathInv'
<1>1. \A k \in DOMAIN cf_blocks : cf_blocks[k] \in DOMAIN locations
  BY DEF PathInv
<1>2. CASE cf_blocks' = cf_blocks
  BY <1>1, <1>2 DEF PathInv
<1>3. ASSUME NEW w \in Va, cf_blocks' = Append(cf_blocks, w), Pushed(g, w) PROVE PathInv'
  <2>1. Len(cf_blocks') = Len(cf_blocks) + 1 /\ DOMAIN cf_blocks' = 1 .. (Len(cf_blocks) + 1)
    BY <1>3 DEF TypeInv
  <2>2. \A k \in DOMAIN cf_blocks' : \/ k \in DOMAIN cf_blocks /\ cf_blocks'[k] = cf_blocks[k]
                                     \/ k = Len(cf_blocks') /\ cf_blocks'[k] = w
    BY <1>3, <2>1 DEF TypeInv
  <2>3. stack' # <<>> /\ Top' = NewFrame(w)
    BY <1>3, TopAfter
  <2>4. InPhase("flow")' /\ Top'.va = w
    BY <2>3 DEF InPhase, NewFrame
  <2> QED
    BY <1>1, <2>2, <2>4 DEF PathInv
<1> QED
  BY <1>2, <1>3 DEF EntersFrom

LEMMA PathStep == TypeInv /\ NamesInv /\ InsnInv /\ PathInv /\ [Next]_vars => PathInv'
<1> SUFFICES ASSUME TypeInv, NamesInv, InsnInv, PathInv, [Next]_vars PROVE PathInv'
  OBVIOUS
<1> USE DEF Kept, Fields, deferralVars, discoveryVars
<1>a. ASSUME NEW g \in Frame, Top.phase # "flow", locations' = locations,
             \/ Replaced(g) /\ cf_blocks' = cf_blocks
             \/ \E w \in Va : \E known : EntersFrom(g, w, known)
      PROVE  PathInv'
  BY <1>a, PathKept DEF InPhase
<1>1. CASE SkipAddress
  <2>1. PICK g \in Frame : Replaced(g) /\ g.phase = "flow" /\ g.va = Top.va
    BY <1>1, SkipAddressEffect
  <2>2. InPhase("flow")' /\ Top'.va = Top.va
    BY <2>1, TopAfter DEF InPhase
  <2>3. UNCHANGED <<cf_blocks, locations>>
    BY <1>1 DEF SkipAddress
  <2> QED
    BY <2>2, <2>3 DEF PathInv
<1>2. CASE DecodeOpcode
  <2>1. cf_blocks' = cf_blocks /\ DOMAIN locations \subseteq DOMAIN locations'
    BY <1>2, DecodeOpcodeEffect DEF DecodeOpcode
  <2>2. Top.va \in DOMAIN locations'
    <3>1. PICK g \in Frame : /\ Replaced(g) /\ g.va = Top.va
                             /\ g.insns = Top.insns \cup {Last(Top.optodo)}
      BY <1>2, DecodeOpcodeEffect
    <3>2. InsnInv' /\ stack' # <<>> /\ Top' = g /\ TypeInv'
      BY <3>1, InsnStep, TypeStep, TopAfter
    <3>3. Len(stack') \in DOMAIN stack' /\ stack'[Len(stack')] = g
      BY <3>1, <3>2 DEF Replaced
    <3>4. (g.insns # {} => g.va \in DOMAIN locations)'
      BY <3>2, <3>3 DEF InsnInv, InsnFrame
    <3> QED
      BY <3>1, <3>4
  <2> QED
    BY <2>1, <2>2 DEF PathInv
<1>3. CASE EndFlow
  <2>1. cf_blocks' = Front(cf_blocks) /\ locations' = locations
    BY <1>3 DEF EndFlow
  <2>2. PICK s \in Seq(Va) : s = cf_blocks
    BY DEF TypeInv
  <2>3. /\ DOMAIN Front(s) \subseteq 1 .. (Len(s) - 1)
        /\ \A k \in DOMAIN Front(s) : Front(s)[k] = s[k] /\ k \in DOMAIN s /\ k # Len(s)
    BY DEF Front
  <2> QED
    BY <2>1, <2>2, <2>3 DEF PathInv
<1>4. CASE BranchesDone
  BY <1>4, <1>a, BranchesDoneEffect DEF BranchesDone
<1>5. CASE SkipBranch
  BY <1>5, <1>a, SkipBranchEffect DEF SkipBranch
<1>6. CASE CallBranch
  BY <1>6, <1>a, CallBranchEffect DEF CallBranch
<1>7. CASE AfterCall
  BY <1>7, <1>a, AfterCallEffect DEF AfterCall
<1>8. CASE TailBranch
  BY <1>8, <1>a, TailBranchEffect DEF TailBranch
<1>9. CASE FlowBranch
  BY <1>9, <1>a, FlowBranchEffect DEF FlowBranch
<1>10. ASSUME NEW jt \in JumpTables, ResolveJumpTable(jt) PROVE PathInv'
  BY <1>10, <1>a, ResolveJumpTableEffect DEF ResolveJumpTable
<1>11. CASE DrainDeferred
  BY <1>11, <1>a, DrainDeferredEffect DEF DrainDeferred
<1>12. CASE StartBlocked
  BY <1>12, <1>a, StartBlockedEffect DEF StartBlocked
<1>13. CASE DrainBlocked
  BY <1>13, <1>a, DrainBlockedEffect DEF DrainBlocked
<1>b. ASSUME ~InPhase("flow"), UNCHANGED <<cf_blocks, locations>> PROVE PathInv'
  BY <1>b DEF PathInv
<1>14. CASE FinishFlow
  BY <1>14, <1>b, FinishFlowEffect DEF FinishFlow, InPhase
<1>15. CASE Report
  BY <1>15, <1>a, ReportEffect DEF Report
<1>16. CASE MakeLocalName
  <2>1. Top.phase \in {"release", "freed"}
    BY <1>16, MakeLocalNameEffect, TopType DEF MakeLocalName, NamesInv, TypeInv
  <2> QED
    BY <1>16, <1>a, <2>1, MakeLocalNameEffect DEF MakeLocalName
<1>17. CASE Release
  BY <1>17, <1>a, ReleaseEffect DEF Release
<1>18. CASE Return
  BY <1>18, <1>b, ReturnEffect DEF Return, InPhase
<1>19. ASSUME NEW waiter \in Va, ReportFreed(waiter) PROVE PathInv'
  BY <1>19, <1>a, ReportFreedEffect DEF ReportFreed
<1>20. ASSUME NEW va \in Seeds, MakeFunction(va) PROVE PathInv'
  <2>1. /\ stack = <<>> /\ cf_blocks' = Append(cf_blocks, va) /\ locations' = locations
        /\ stack' # <<>> /\ Top' = NewFrame(va)
    BY <1>20, MakeFunctionEffect DEF MakeFunction, Top, Last
  <2>2. \A k \in DOMAIN cf_blocks : cf_blocks[k] \in DOMAIN locations
    BY <2>1 DEF PathInv, InPhase
  <2>3. Len(cf_blocks') = Len(cf_blocks) + 1 /\ DOMAIN cf_blocks' = 1 .. (Len(cf_blocks) + 1)
    BY <2>1, <1>20, MakeFunctionEffect DEF TypeInv
  <2>4. \A k \in DOMAIN cf_blocks' : \/ k \in DOMAIN cf_blocks /\ cf_blocks'[k] = cf_blocks[k]
                                     \/ k = Len(cf_blocks') /\ cf_blocks'[k] = va
    BY <1>20, <2>1, <2>3, MakeFunctionEffect DEF TypeInv
  <2> QED
    BY <2>1, <2>2, <2>4 DEF PathInv, InPhase, NewFrame
<1>21. CASE UNCHANGED vars
  BY <1>21 DEF vars, PathInv, InPhase, Top
<1> QED
  BY <1>1, <1>2, <1>3, <1>4, <1>5, <1>6, <1>7, <1>8, <1>9, <1>10, <1>11, <1>12, <1>13, <1>14,
     <1>15, <1>16, <1>17, <1>18, <1>19, <1>20, <1>21 DEF Next, Step

-----------------------------------------------------------------------------
(***************************************************************************)
(* Flow is closed.                                                         *)
(***************************************************************************)

\* There is nothing left to decode at va.
Settled(va) == Defined(locations, va) \/ va \in TableData \/ code[va] = Bad

\* The frame f will still look at n, where the instruction at va leads: n is
\* on its worklist, or among the branches of va it has not handled.
Pends(f, va, n) ==
    \/ f.phase \in {"flow", "branch", "called"} /\ n \in ToSet(f.optodo)
    \/ /\ f.phase \in {"branch", "called"} /\ f.cur = va
       /\ \E b \in ToSet(f.branches) : b.to = n /\ "proc" \notin b.flags

(***************************************************************************)
(* What FlowClosed says of a returned make_function, for every state: an   *)
(* edge that flow can follow ends at a settled address, or some frame of   *)
(* the stack will still look at its end.                                   *)
(***************************************************************************)
FlowInv ==
    /\ \A i \in DOMAIN stack : \A v \in stack[i].visited : Settled(v)
    /\ \A va \in DOMAIN locations : \A n \in FlowsTo(va) :
           Settled(n) \/ \E i \in DOMAIN stack : Pends(stack[i], va, n)

LEMMA FlowKept ==
  ASSUME TypeInv, FlowInv, NEW g \in Frame, Continues(g), code' = code,
         \A v \in Va : Settled(v) => Settled(v)',
         \A v \in g.visited : Settled(v)',
         \A va \in DOMAIN locations' : \A n \in FlowsTo(va)' :
             \/ va \in DOMAIN locations /\ n \in FlowsTo(va)
             \/ Settled(n)' \/ Pends(g, va, n),
         \A va \in DOMAIN locations' : \A n \in FlowsTo(va)' :
             Pends(Top, va, n) => Settled(n)' \/ Pends(g, va, n)
  PROVE  FlowInv'
<1>1. ASSUME NEW i \in DOMAIN stack', NEW v \in stack'[i].visited PROVE Settled(v)'
  <2>1. CASE i \in DOMAIN stack /\ stack'[i] = stack[i]
    <3>0. stack[i] \in Frame
      BY <2>1 DEF TypeInv
    <3>1. v \in Va
      BY <1>1, <2>1, <3>0 DEF Frame
    <3> QED
      BY <1>1, <2>1, <3>1 DEF FlowInv
  <2>2. CASE stack'[i] = g
    BY <1>1, <2>2
  <2>3. ASSUME NEW w, stack'[i] = NewFrame(w) PROVE FALSE
    BY <1>1, <2>3 DEF NewFrame
  <2> QED
    BY <2>1, <2>2, <2>3, StackAfter
<1>2. ASSUME NEW va \in DOMAIN locations', NEW n \in FlowsTo(va)'
      PROVE  Settled(n)' \/ \E i \in DOMAIN stack' : Pends(stack'[i], va, n)
  <2>1. CASE Pends(g, va, n)
    <3>1. Len(stack) \in DOMAIN stack' /\ stack'[Len(stack)] = g
      BY StackAfter
    <3> QED
      BY <2>1, <3>1
  <2>2. ASSUME va \in DOMAIN locations, n \in FlowsTo(va), ~Settled(n)', ~Pends(g, va, n)
        PROVE  \E i \in DOMAIN stack' : Pends(stack'[i], va, n)
    <3>1. n \in Va
      BY <2>2, CodeFlowAssumption DEF FlowsTo, Followable
    <3>2. ~Settled(n)
      BY <2>2, <3>1
    <3>3. PICK i \in DOMAIN stack : Pends(stack[i], va, n)
      BY <2>2, <3>2 DEF FlowInv
    <3>4. i # Len(stack)
      BY <1>2, <2>2, <3>3, StackAfter
    <3> QED
      BY <3>3, <3>4, StackAfter
  <2> QED
    BY <1>2, <2>1, <2>2
<1> QED
  BY <1>1, <1>2 DEF FlowInv, Pends

\* A step that decodes nothing and adds no edge.
LEMMA FlowKeptAside ==
  ASSUME TypeInv, FlowInv, NEW g \in Frame, Continues(g),
         UNCHANGED <<code, locations, xrefs>>, noflow \subseteq noflow',
         \A v \in g.visited : v \in Top.visited \/ Settled(v),
         \A va \in DOMAIN locations : \A n \in FlowsTo(va) :
             Pends(Top, va, n) => Settled(n) \/ Pends(g, va, n)
  PROVE  FlowInv'
<1>1. \A v : Settled(v)' <=> Settled(v)
  BY DEF Settled, Defined, GetLocation
<1>2. \A v \in g.visited : Settled(v)
  <2>1. Len(stack) \in DOMAIN stack /\ stack[Len(stack)] = Top
    BY StackAfter
  <2> QED
    BY <2>1 DEF FlowInv
<1>3. \A va : FlowsTo(va)' \subseteq FlowsTo(va)
  BY DEF FlowsTo, Followable, FlowTargets, CodeXrefsFrom
<1> QED
  BY <1>1, <1>2, <1>3, FlowKept

\* Where flow leads after add_code_xref: where it led, or to a branch added.
LEMMA NewTargets ==
  ASSUME NEW x, NEW from, NEW brs, NEW y, y = AddCodeXrefs(x, from, brs),
         NEW va, NEW n \in FlowTargets(y, va)
  PROVE  \/ n \in FlowTargets(x, va)
         \/ va = from /\ \E b \in brs : b.to = n /\ "proc" \notin b.flags
<1>1. PICK e \in DOMAIN y : e[1] = va /\ e[2] = n /\ y[e] \cap {"proc", "deref"} = {}
  BY DEF FlowTargets, CodeXrefsFrom
<1>2. CASE e \in DOMAIN x
  <2>1. x[e] \cap {"proc", "deref"} = {}
    BY <1>1, <1>2, XrefsAdded
  <2> QED
    BY <1>1, <1>2, <2>1 DEF FlowTargets, CodeXrefsFrom
<1>3. ASSUME NEW b \in brs, e = <<from, b.to>>
      PROVE  va = from /\ b.to = n /\ "proc" \notin b.flags
  BY <1>1, <1>3, XrefsAdded
<1>4. DOMAIN y = DOMAIN x \cup {<<from, b.to>> : b \in brs}
  BY DEF AddCodeXrefs
<1>5. e \in DOMAIN x \/ \E b \in brs : e = <<from, b.to>>
  BY <1>1, <1>4
<1> QED
  BY <1>2, <1>3, <1>5

LEMMA FallBranch ==
  ASSUME NEW va \in Va, code[va] \in Instruction, IsFallthrough(code[va])
  PROVE  \E b \in ToSet(GetBranches(va)) : b.to = va + code[va].len /\ "proc" \notin b.flags
<1>1. code[va].to \in Nat \cup {NoVa}
  BY DEF Instruction
<1>2. GetBranches(va) # <<>> /\ 1 \in DOMAIN GetBranches(va)
      /\ GetBranches(va)[1].to = va + code[va].len /\ "proc" \notin GetBranches(va)[1].flags
  <2>1. CASE code[va].kind = "plain"
    BY <2>1, BranchesByKind
  <2>2. CASE code[va].kind = "call"
    BY <1>1, <2>2, BranchesByKind
  <2>3. CASE code[va].kind = "cond"
    BY <1>1, <2>3, BranchesByKind
  <2> QED
    BY <2>1, <2>2, <2>3 DEF IsFallthrough
<1> QED
  BY <1>2 DEF ToSet

LEMMA ConcatElements ==
  ASSUME NEW S, NEW s \in Seq(S), NEW t \in Seq(S)
  PROVE  ToSet(s \o t) = ToSet(s) \cup ToSet(t)
<1>1. \A i \in DOMAIN s : i \in DOMAIN (s \o t) /\ (s \o t)[i] = s[i]
  OBVIOUS
<1>2. \A i \in DOMAIN t : i + Len(s) \in DOMAIN (s \o t) /\ (s \o t)[i + Len(s)] = t[i]
  OBVIOUS
<1>3. \A i \in DOMAIN (s \o t) : (i \in DOMAIN s /\ (s \o t)[i] = s[i])
                              \/ (i - Len(s) \in DOMAIN t /\ (s \o t)[i] = t[i - Len(s)])
  OBVIOUS
<1>4. ToSet(s \o t) \subseteq ToSet(s) \cup ToSet(t)
  BY <1>3 DEF ToSet
<1>5. ToSet(s) \subseteq ToSet(s \o t)
  BY <1>1 DEF ToSet
<1>6. ToSet(t) \subseteq ToSet(s \o t)
  BY <1>2 DEF ToSet
<1> QED
  BY <1>4, <1>5, <1>6

\* No flow can decode more instructions than there are addresses.
LEMMA CapUnreached ==
  ASSUME MaxInsns > MaxVa + 1, NEW f \in Frame
  PROVE  Cardinality(f.insns) < MaxInsns
<1>1. IsFiniteSet(Va) /\ Cardinality(Va) = MaxVa + 1
  BY VaAssumption, FS_Interval DEF Va
<1>2. f.insns \subseteq Va
  BY DEF Frame
<1>3. IsFiniteSet(f.insns) /\ Cardinality(f.insns) <= Cardinality(Va)
  BY <1>1, <1>2, FS_Subset
<1>4. Cardinality(f.insns) \in Nat /\ MaxInsns \in Nat
  BY <1>3, FS_CardinalityType, CodeFlowAssumption
<1> QED
  BY <1>1, <1>3, <1>4, VaAssumption

\* What is left of the stack when a frame returns.
LEMMA PoppedFrames ==
  ASSUME TypeInv, Popped
  PROVE  /\ \A i \in DOMAIN stack' : i \in DOMAIN stack /\ stack'[i] = stack[i]
         /\ \A i \in DOMAIN stack : \/ i \in DOMAIN stack' /\ stack'[i] = stack[i]
                                    \/ stack[i] = Top
<1>1. PICK n \in Nat : n = Len(stack) /\ DOMAIN stack = 1 .. n /\ stack[n] = Top
  BY TopType DEF Popped, TypeInv
<1>2. DOMAIN stack' = 1 .. (n - 1) /\ \A i \in 1 .. (n - 1) : stack'[i] = stack[i]
  BY <1>1 DEF Popped
<1> QED
  BY <1>1, <1>2

LEMMA FlowStep ==
  ASSUME MaxInsns > MaxVa + 1
  PROVE  TypeInv /\ InsnInv /\ NamesInv /\ EdgeInv /\ PathInv /\ FlowInv /\ [Next]_vars => FlowInv'
<1> SUFFICES ASSUME TypeInv, InsnInv, NamesInv, EdgeInv, PathInv, FlowInv, [Next]_vars
             PROVE  FlowInv'
  OBVIOUS
<1> USE DEF Kept, Fields, deferralVars, discoveryVars, Continues
<1>s. \A v : Defined(locations, v) => Settled(v)
  BY DEF Settled
<1>d. \A v \in DOMAIN locations : Settled(v)
  BY <1>s, StartsDefined
<1>v. ASSUME stack # <<>> PROVE \A v \in Top.visited : Settled(v)
  <2>1. Len(stack) \in DOMAIN stack /\ stack[Len(stack)] = Top
    BY <1>v, TopType DEF TypeInv
  <2> QED
    BY <2>1 DEF FlowInv
<1>e. \A va : \A n \in FlowsTo(va) : n \in Va /\ n \in Exec /\ <<va, n>> \notin noflow
  BY CodeFlowAssumption DEF FlowsTo, Followable
\* Steps that leave the worklist, the branches and the databases alone.
<1>a. ASSUME NEW g \in Frame, Continues(g), UNCHANGED <<code, locations, xrefs>>,
             noflow \subseteq noflow',
             g.visited = Top.visited, g.optodo = Top.optodo, g.cur = Top.cur,
             g.branches = Top.branches,
             \/ g.phase = Top.phase
             \/ Top.phase \notin {"flow", "branch", "called"}
             \/ Top.phase = "called" /\ g.phase = "branch"
      PROVE  FlowInv'
  <2>1. \A va, n : Pends(Top, va, n) => Pends(g, va, n)
    BY <1>a DEF Pends
  <2> QED
    BY <1>a, <2>1, FlowKeptAside
<1>1. CASE SkipAddress
  <2>1. PICK g \in Frame : /\ Replaced(g) /\ Kept(g, {"optodo", "visited"})
                           /\ g.visited = Top.visited \cup {Last(Top.optodo)}
                           /\ g.optodo = Front(Top.optodo)
    BY <1>1, SkipAddressEffect
  <2>2. Top \in Frame /\ Top.phase = "flow" /\ Top.optodo # <<>> /\ stack # <<>>
    BY <1>1, <2>1, SkipAddressEffect DEF Replaced
  <2>3. Settled(Last(Top.optodo))
    <3>1. ~Decodable(Top, Last(Top.optodo))
      BY <1>1 DEF SkipAddress
    <3>2. Top.data \subseteq TableData
      BY <2>2 DEF Frame
    <3> QED
      BY <1>v, <2>2, <3>1, <3>2 DEF Decodable, Settled
  <2>4. ToSet(Top.optodo) = ToSet(g.optodo) \cup {Last(Top.optodo)}
    BY <2>1, <2>2, FrontElements DEF Frame
  <2>5. \A va, n : Pends(Top, va, n) => Settled(n) \/ Pends(g, va, n)
    BY <2>1, <2>2, <2>3, <2>4 DEF Pends
  <2>6. UNCHANGED <<code, locations, xrefs, noflow>>
    BY <1>1 DEF SkipAddress
  <2> QED
    BY <2>1, <2>3, <2>5, <2>6, FlowKeptAside
<1>2. CASE DecodeOpcode
  <2>1. PICK va \in Va : va = Last(Top.optodo)
    BY <1>2, DecodeOpcodeEffect
  <2>2. PICK far : /\ far = {b \in ToSet(GetBranches(va)) : b.to # NoVa /\ "fall" \notin b.flags}
                   /\ xrefs' = AddCodeXrefs(xrefs, va, far)
    BY <1>2, <2>1, DecodeOpcodeEffect
  <2>3. /\ Top \in Frame /\ Top.phase = "flow" /\ Top.optodo # <<>>
        /\ code[va] \in Instruction /\ ~Defined(locations, va)
        /\ DOMAIN locations' = DOMAIN locations \cup {va}
        /\ locations' = AddLocation(locations, va, code[va].len, "op")
    BY <1>2, <2>1, DecodeOpcodeEffect DEF Decodable
  <2>4. PICK g \in Frame :
           /\ Replaced(g) /\ g.optodo = Front(Top.optodo) /\ g.visited = Top.visited \cup {va}
           /\ g.cur = va /\ g.branches = GetBranches(va) /\ g.phase = "branch"
    BY <1>2, <2>1, DecodeOpcodeEffect
  <2>5. code' = code /\ noflow' = noflow
    BY <1>2 DEF DecodeOpcode
  <2>6. \A v \in Va : Settled(v) => Settled(v)'
    <3>1. \A v \in Va : Defined(locations, v) => Defined(locations, v)'
      BY <2>3, DefinedStays, VaAssumption DEF Va
    <3> QED
      BY <2>5, <3>1 DEF Settled
  <2>7. Settled(va)'
    <3>1. TypeInv'
      BY TypeStep
    <3>2. DOMAIN locations' \subseteq Va /\ va \in DOMAIN locations' /\ va \in Int
      BY <2>3, <3>1, VaAssumption DEF TypeInv, DbType, Va
    <3>3. locations'[va].size \in Nat \ {0}
      BY <2>3 DEF AddLocation, Instruction
    <3>4. Covers(locations', va, va)
      BY <3>2, <3>3, VaAssumption DEF Covers, Va
    <3>5. Defined(locations', va)
      BY <3>2, <3>4, DefinedIffCovered
    <3> QED
      BY <3>5 DEF Settled
  <2>8. \A v \in g.visited : Settled(v)'
    <3>1. Top.visited \subseteq Va /\ stack # <<>>
      BY <2>3, <2>4 DEF Frame, Replaced
    <3> QED
      BY <1>v, <2>4, <2>6, <2>7, <3>1
  <2>9. ASSUME NEW u \in DOMAIN locations', NEW n \in FlowsTo(u)'
        PROVE  (u \in DOMAIN locations /\ n \in FlowsTo(u)) \/ Settled(n)' \/ Pends(g, u, n)
    <3>1. Followable(u, n)
      BY <2>5, <2>9 DEF FlowsTo, Followable
    <3>2. CASE n = u + code[u].len /\ IsFallthrough(code[u])
      <4>1. CASE u = va
        BY <2>3, <2>4, <3>2, <4>1, FallBranch DEF Pends
      <4>2. CASE u # va
        BY <2>3, <2>9, <3>1, <3>2, <4>2 DEF FlowsTo
      <4> QED
        BY <4>1, <4>2
    <3>3. CASE n \in FlowTargets(xrefs', u)
      <4>1. CASE n \in FlowTargets(xrefs, u)
        <5>1. u \in DOMAIN locations
          BY <4>1 DEF EdgeInv, FlowTargets, CodeXrefsFrom
        <5> QED
          BY <3>1, <4>1, <5>1 DEF FlowsTo
      <4>2. CASE u = va /\ \E b \in far : b.to = n /\ "proc" \notin b.flags
        BY <2>2, <2>4, <4>2 DEF Pends
      <4> QED
        BY <2>2, <3>3, <4>1, <4>2, NewTargets
    <3> QED
      BY <2>5, <2>9, <3>2, <3>3 DEF FlowsTo
  <2>10. \A u, n : Pends(Top, u, n) => Settled(n)' \/ Pends(g, u, n)
    <3>1. ToSet(Top.optodo) = ToSet(g.optodo) \cup {va}
      BY <2>1, <2>3, <2>4, FrontElements DEF Frame
    <3> QED
      BY <2>3, <2>4, <2>7, <3>1 DEF Pends
  <2> QED
    BY <2>4, <2>5, <2>6, <2>8, <2>9, <2>10, FlowKept
<1>3. CASE EndFlow
  <2>1. PICK g \in Frame : Replaced(g) /\ Kept(g, {"phase", "todo"})
    BY <1>3, EndFlowEffect
  <2>2. Top \in Frame /\ Top.phase = "flow"
    BY <1>3, EndFlowEffect
  <2>3. Top.optodo = <<>>
    BY <1>3, <2>2, CapUnreached DEF EndFlow, Flowing
  <2>4. \A va, n : ~Pends(Top, va, n)
    BY <2>2, <2>3 DEF Pends, ToSet
  <2>5. UNCHANGED <<code, locations, xrefs, noflow>>
    BY <1>3 DEF EndFlow
  <2> QED
    BY <2>1, <2>4, <2>5, FlowKeptAside
<1>4. CASE BranchesDone
  <2>1. PICK g \in Frame : Replaced(g) /\ Kept(g, {"phase"}) /\ g.phase = "flow"
    BY <1>4, BranchesDoneEffect
  <2>2. Top.branches = <<>>
    BY <1>4, BranchesDoneEffect
  <2>3. \A va, n : Pends(Top, va, n) => Pends(g, va, n)
    BY <2>1, <2>2 DEF Pends, ToSet
  <2>4. UNCHANGED <<code, locations, xrefs, noflow>>
    BY <1>4 DEF BranchesDone
  <2> QED
    BY <2>1, <2>3, <2>4, FlowKeptAside
\* Steps that take the last branch of the instruction.
<1>b. ASSUME NEW g \in Frame, Continues(g), UNCHANGED <<code, locations, xrefs, noflow>>,
             Top \in Frame, Top.phase = "branch", Top.branches # <<>>,
             g.visited = Top.visited, g.cur = Top.cur, g.phase \in {"branch", "called"},
             ToSet(Top.optodo) \subseteq ToSet(g.optodo), g.branches = Front(Top.branches),
             \A n \in FlowsTo(Top.cur) : n = Branch.to /\ "proc" \notin Branch.flags
                  => Settled(n) \/ n \in ToSet(g.optodo)
      PROVE  FlowInv'
  <2>1. ToSet(Top.branches) = ToSet(g.branches) \cup {Branch}
    BY <1>b, FrontElements DEF Frame, Branch
  <2>2. \A va : \A n \in FlowsTo(va) : Pends(Top, va, n) => Settled(n) \/ Pends(g, va, n)
    BY <1>b, <2>1 DEF Pends
  <2> QED
    BY <1>b, <2>2, FlowKeptAside
<1>5. CASE SkipBranch
  <2>1. \A n \in FlowsTo(Top.cur) : n # Branch.to
    <3>1. Branch.to = NoVa \/ Branch.to \notin Exec \/ <<Top.cur, Branch.to>> \in noflow
      BY <1>5 DEF SkipBranch, Followed
    <3> QED
      BY <1>e, <3>1, NoVaAssumption, VaAssumption DEF Va
  <2>2. UNCHANGED <<code, locations, xrefs, noflow>>
    BY <1>5 DEF SkipBranch
  <2> QED
    BY <1>5, <1>b, <2>1, <2>2, SkipBranchEffect
<1>6. CASE CallBranch
  <2>1. PICK g \in Frame : /\ Continues(g) /\ Kept(g, {"branches", "phase", "deferred"})
                           /\ g.branches = Front(Top.branches) /\ g.phase \in {"branch", "called"}
    BY <1>6, CallBranchEffect, EnteringContinues
  <2>2. /\ Top \in Frame /\ Top.phase = "branch" /\ Top.branches # <<>> /\ "proc" \in Branch.flags
        /\ UNCHANGED <<code, locations, xrefs, noflow>>
    BY <1>6, CallBranchEffect DEF CallBranch
  <2> QED
    BY <1>b, <2>1, <2>2
<1>7. CASE AfterCall
  <2>1. UNCHANGED <<code, locations, xrefs>> /\ noflow \subseteq noflow'
    BY <1>7 DEF AfterCall
  <2> QED
    BY <1>7, <1>a, <2>1, AfterCallEffect
<1>8. CASE TailBranch
  <2>1. Branch.to \in DOMAIN locations
    BY <1>8, PathDecoded, TailBranchEffect DEF TailBranch, TailJump, InPhase
  <2>2. UNCHANGED <<code, locations, xrefs, noflow>>
    BY <1>8 DEF TailBranch
  <2> QED
    BY <1>8, <1>b, <1>d, <2>1, <2>2, TailBranchEffect
<1>9. CASE FlowBranch
  <2>1. PICK g \in Frame : /\ Replaced(g) /\ Kept(g, {"optodo", "branches"})
                           /\ g.branches = Front(Top.branches)
                           /\ g.optodo = IF Branch.to \in Top.visited THEN Top.optodo
                                         ELSE Append(Top.optodo, Branch.to)
    BY <1>9, FlowBranchEffect
  <2>2. /\ Top \in Frame /\ Top.phase = "branch" /\ Top.branches # <<>> /\ Branch.to \in Va
        /\ stack # <<>> /\ UNCHANGED <<code, locations, xrefs, noflow>>
    BY <1>9, <2>1, FlowBranchEffect DEF FlowBranch, Replaced
  <2>3. CASE Branch.to \in Top.visited
    BY <1>b, <1>v, <2>1, <2>2, <2>3
  <2>4. CASE Branch.to \notin Top.visited
    <3>1. ToSet(g.optodo) = ToSet(Top.optodo) \cup {Branch.to}
      BY <2>1, <2>2, <2>4, AppendElements DEF Frame
    <3> QED
      BY <1>b, <2>1, <2>2, <3>1
  <2> QED
    BY <2>3, <2>4
<1>10. ASSUME NEW jt \in JumpTables, ResolveJumpTable(jt) PROVE FlowInv'
  <2>1. PICK va, brs : /\ va = Top.cur /\ brs = ToSet(CaseBranches(jt))
                       /\ xrefs' = AddCodeXrefs(xrefs, va, brs)
    BY <1>10, ResolveJumpTableEffect
  <2>2. PICK g \in Frame : /\ Replaced(g) /\ Kept(g, {"branches", "data"})
                           /\ g.branches = Front(Top.branches) \o CaseBranches(jt)
    BY <1>10, ResolveJumpTableEffect
  <2>3. /\ Top \in Frame /\ Top.phase = "branch" /\ Top.branches # <<>>
        /\ CaseBranches(jt) \in Seq(BranchRec) /\ stack # <<>>
    BY <1>10, <2>2, ResolveJumpTableEffect DEF Replaced
  <2>4. Branch.to = NoVa /\ UNCHANGED <<code, noflow, locations>>
    BY <1>10 DEF ResolveJumpTable
  <2>5. /\ ToSet(Top.branches) = ToSet(Front(Top.branches)) \cup {Branch}
        /\ ToSet(g.branches) = ToSet(Front(Top.branches)) \cup brs
    <3>1. Top.branches \in Seq(BranchRec) /\ Front(Top.branches) \in Seq(BranchRec)
      BY <2>3, ListType DEF Frame
    <3> QED
      BY <2>1, <2>2, <2>3, <3>1, FrontElements, ConcatElements DEF Branch
  <2>6. \A v : Settled(v)' <=> Settled(v)
    BY <2>4 DEF Settled, Defined, GetLocation
  <2>7. ASSUME NEW u \in DOMAIN locations', NEW n \in FlowsTo(u)'
        PROVE  (u \in DOMAIN locations /\ n \in FlowsTo(u)) \/ Pends(g, u, n)
    <3>1. Followable(u, n) /\ u \in DOMAIN locations
      BY <2>4, <2>7 DEF FlowsTo, Followable
    <3>2. CASE n = u + code[u].len /\ IsFallthrough(code[u])
      BY <3>1, <3>2 DEF FlowsTo
    <3>3. CASE n \in FlowTargets(xrefs', u)
      <4>1. CASE n \in FlowTargets(xrefs, u)
        BY <3>1, <4>1 DEF FlowsTo
      <4>2. CASE u = va /\ \E b \in brs : b.to = n /\ "proc" \notin b.flags
        BY <2>1, <2>2, <2>3, <2>5, <4>2 DEF Pends
      <4> QED
        BY <2>1, <3>3, <4>1, <4>2, NewTargets
    <3> QED
      BY <2>4, <2>7, <3>2, <3>3 DEF FlowsTo
  <2>8. ASSUME NEW u \in DOMAIN locations', NEW n \in FlowsTo(u)', Pends(Top, u, n)
        PROVE  Pends(g, u, n)
    <3>1. n \in Exec
      BY <2>8 DEF FlowsTo, Followable
    <3>2. n # NoVa
      BY <3>1, CodeFlowAssumption, NoVaAssumption, VaAssumption DEF Va
    <3> QED
      BY <2>2, <2>3, <2>4, <2>5, <2>8, <3>2 DEF Pends
  <2> QED
    BY <1>v, <2>2, <2>3, <2>4, <2>6, <2>7, <2>8, FlowKept
<1>11. CASE DrainDeferred
  <2>1. PICK g \in Frame : Continues(g) /\ Kept(g, {"todo"})
    BY <1>11, DrainDeferredEffect, EnteringContinues
  <2> QED
    BY <1>11, <1>a, <2>1, DrainDeferredEffect DEF DrainDeferred
<1>12. CASE StartBlocked
  BY <1>12, <1>a, StartBlockedEffect DEF StartBlocked
<1>13. CASE DrainBlocked
  <2>1. PICK g \in Frame : Continues(g) /\ Kept(g, {"todo", "still"})
    BY <1>13, DrainBlockedEffect, EnteringContinues
  <2> QED
    BY <1>13, <1>a, <2>1, DrainBlockedEffect DEF DrainBlocked
<1>p. ASSUME Popped, UNCHANGED <<code, locations, xrefs, noflow>>,
             Top.phase \notin {"flow", "branch", "called"}
      PROVE  FlowInv'
  <2>1. \A v : Settled(v)' <=> Settled(v)
    BY <1>p DEF Settled, Defined, GetLocation
  <2>2. \A va : FlowsTo(va)' = FlowsTo(va)
    BY <1>p DEF FlowsTo, Followable, FlowTargets, CodeXrefsFrom
  <2>3. \A i \in DOMAIN stack' : i \in DOMAIN stack /\ stack'[i] = stack[i]
    BY <1>p, PoppedFrames
  <2>4. \A i \in DOMAIN stack : \/ i \in DOMAIN stack' /\ stack'[i] = stack[i]
                                \/ stack[i] = Top
    BY <1>p, PoppedFrames
  <2>5. \A va, n : ~Pends(Top, va, n)
    BY <1>p DEF Pends
  <2>6. \A i \in DOMAIN stack' : \A v \in stack'[i].visited : Settled(v)'
    BY <2>1, <2>3 DEF FlowInv
  <2>7. \A va \in DOMAIN locations' : \A n \in FlowsTo(va)' :
           Settled(n)' \/ \E i \in DOMAIN stack' : Pends(stack'[i], va, n)
    BY <1>p, <2>1, <2>2, <2>4, <2>5 DEF FlowInv
  <2> QED
    BY <2>6, <2>7 DEF FlowInv, Pends
<1>14. CASE FinishFlow
  <2>1. UNCHANGED <<code, locations, xrefs, noflow>> /\ Top.phase = "blocked"
    BY <1>14, FinishFlowEffect DEF FinishFlow
  <2>2. CASE Popped
    BY <1>p, <2>1, <2>2
  <2>3. ASSUME NEW g \in Frame, Replaced(g), Kept(g, {"phase"}) PROVE FlowInv'
    BY <1>a, <2>1, <2>3
  <2> QED
    BY <1>14, <2>2, <2>3, FinishFlowEffect
<1>15. CASE Report
  BY <1>15, <1>a, ReportEffect DEF Report
<1>16. CASE MakeLocalName
  <2>1. PICK g \in Frame : Continues(g) /\ Kept(g, {"names"})
    BY <1>16, MakeLocalNameEffect, EnteringContinues
  <2> QED
    BY <1>16, <1>a, <2>1 DEF MakeLocalName
<1>17. CASE Release
  BY <1>17, <1>a, ReleaseEffect DEF Release
<1>18. CASE Return
  BY <1>18, <1>p, ReturnEffect DEF Return
<1>19. ASSUME NEW waiter \in Va, ReportFreed(waiter) PROVE FlowInv'
  BY <1>19, <1>a, ReportFreedEffect DEF ReportFreed
<1>20. ASSUME NEW w \in Seeds, MakeFunction(w) PROVE FlowInv'
  <2>1. UNCHANGED <<code, locations, xrefs, noflow>> /\ stack = <<>>
    BY <1>20 DEF MakeFunction
  <2>2. \A v : Settled(v)' <=> Settled(v)
    BY <2>1 DEF Settled, Defined, GetLocation
  <2>3. \A va : FlowsTo(va)' = FlowsTo(va)
    BY <2>1 DEF FlowsTo, Followable, FlowTargets, CodeXrefsFrom
  <2>4. \A i \in DOMAIN stack' : stack'[i] = NewFrame(w)
    BY <1>20, MakeFunctionEffect
  <2>5. \A va \in DOMAIN locations : \A n \in FlowsTo(va) : Settled(n)
    BY <2>1 DEF FlowInv
  <2> QED
    BY <2>1, <2>2, <2>3, <2>4, <2>5 DEF FlowInv, NewFrame
<1>21. CASE UNCHANGED vars
  BY <1>21 DEF vars, FlowInv, Settled, Defined, GetLocation, FlowsTo, Followable, FlowTargets,
     CodeXrefsFrom, Pends
<1> QED
  BY <1>1, <1>2, <1>3, <1>4, <1>5, <1>6, <1>7, <1>8, <1>9, <1>10, <1>11, <1>12, <1>13, <1>14,
     <1>15, <1>16, <1>17, <1>18, <1>19, <1>20, <1>21 DEF Next, Step

\* When make_function has returned, no code that flow leads to was missed:
\* for every image, jump-table answer, FLIRT match and setting of the other
\* caps, as long as no function is cut off by the cap on its instructions.
THEOREM FlowIsClosed ==
  ASSUME MaxInsns > MaxVa + 1
  PROVE  Spec => []FlowClosed
<1>1. Init => InsnInv /\ NamesInv /\ EdgeInv /\ PathInv /\ FlowInv
  BY DEF Init, InsnInv, NamesInv, EdgeInv, PathInv, FlowInv, EmptyDb
<1>2. FlowInv => FlowClosed
  <2> SUFFICES ASSUME FlowInv, stack = <<>>, NEW va \in DOMAIN locations, NEW n \in FlowsTo(va)
               PROVE  Defined(locations, n) \/ n \in TableData
    BY DEF FlowClosed, Idle
  <2>1. code[n] # Bad
    BY DEF FlowsTo, Followable
  <2> QED
    BY <2>1 DEF FlowInv, Settled
<1>3. TypeInv /\ InsnInv /\ NamesInv /\ EdgeInv /\ PathInv /\ FlowInv /\ [Next]_vars => FlowInv'
  BY FlowStep
<1> QED
  BY <1>1, <1>2, <1>3, CodeFlowTypes, InsnStep, NamesStep, EdgeStep, PathStep, PTL DEF Spec

-----------------------------------------------------------------------------
(***************************************************************************)
(* functions_ never shrinks.  Draining the blocked list forgets a function *)
(* and enters it again; that entry is admitted because the function was    *)
(* known, so that forgetting it makes room below the cap.                  *)
(***************************************************************************)

Lists(f) == ToSet(f.deferred) \cup ToSet(f.todo) \cup ToSet(f.still)

KnownInv ==
    /\ Cardinality(functions) <= MaxFunctions
    /\ IsInjective(cf_blocks)
    /\ ToSet(cf_blocks) \subseteq functions
    /\ ToSet(blocked_recursion) \subseteq functions
    /\ \A i \in DOMAIN stack : Lists(stack[i]) \subseteq functions

LEMMA FunctionsFinite ==
  ASSUME NEW S, S \subseteq Va
  PROVE  IsFiniteSet(S) /\ Cardinality(S) \in Nat /\ Cardinality(S) <= MaxVa + 1
<1>1. IsFiniteSet(Va) /\ Cardinality(Va) = MaxVa + 1
  BY VaAssumption, FS_Interval DEF Va
<1> QED
  BY <1>1, FS_Subset, FS_CardinalityType

\* A known function is admitted again once it is forgotten.
LEMMA Readmitted ==
  ASSUME TypeInv, KnownInv, NEW w \in functions
  PROVE  MayEnter(w, functions \ {w})
<1>1. IsFiniteSet(functions) /\ Cardinality(functions) \in Nat
  BY FunctionsFinite DEF TypeInv
<1>2. Cardinality(functions \ {w}) = Cardinality(functions) - 1
  BY <1>1, FS_RemoveElement
<1> QED
  BY <1>1, <1>2, CodeFlowAssumption DEF MayEnter, KnownInv

\* The active path after an entry.
LEMMA PathGrows ==
  ASSUME cf_blocks \in Seq(Va), IsInjective(cf_blocks), NEW w \in Va, w \notin ToSet(cf_blocks),
         cf_blocks' = Append(cf_blocks, w)
  PROVE  IsInjective(cf_blocks') /\ ToSet(cf_blocks') = ToSet(cf_blocks) \cup {w}
<1>1. \A k \in DOMAIN cf_blocks : cf_blocks[k] # w
  BY DEF ToSet
<1>2. DOMAIN cf_blocks' = 1 .. (Len(cf_blocks) + 1) /\ DOMAIN cf_blocks = 1 .. Len(cf_blocks)
  OBVIOUS
<1>3. \A k \in DOMAIN cf_blocks' : \/ k \in DOMAIN cf_blocks /\ cf_blocks'[k] = cf_blocks[k]
                                   \/ k = Len(cf_blocks) + 1 /\ cf_blocks'[k] = w
  BY <1>2
<1>4. IsInjective(cf_blocks')
  BY <1>1, <1>3 DEF IsInjective
<1> QED
  BY <1>4, AppendElements

LEMMA KnownKept ==
  ASSUME TypeInv, KnownInv, NEW g \in Frame, Lists(g) \subseteq functions,
         \/ Replaced(g) /\ functions' = functions /\ cf_blocks' = cf_blocks
         \/ \E w \in Va : EntersFrom(g, w, functions)
         \/ \E w \in functions : ~OnActivePath(w) /\ EntersFrom(g, w, functions \ {w}),
         ToSet(blocked_recursion') \subseteq functions
  PROVE  KnownInv' /\ functions \subseteq functions'
<1>1. functions \subseteq functions'
  BY Readmitted DEF EntersFrom
<1>2. Cardinality(functions') <= MaxFunctions
  <2>1. CASE functions' = functions
    BY <2>1 DEF KnownInv
  <2>2. ASSUME NEW w, MayEnter(w, functions), functions' = functions \cup {w}
        PROVE  Cardinality(functions') <= MaxFunctions
    <3>1. IsFiniteSet(functions) /\ Cardinality(functions) \in Nat
      BY FunctionsFinite DEF TypeInv
    <3>2. w \notin functions
      BY <2>2 DEF MayEnter
    <3>3. Cardinality(functions \cup {w}) = Cardinality(functions) + 1
      BY <3>1, <3>2, FS_AddElement
    <3> QED
      BY <2>2, <3>1, <3>3, CodeFlowAssumption DEF MayEnter
  <2>3. ASSUME NEW w \in functions, EntersFrom(g, w, functions \ {w}) PROVE functions' = functions
    BY <2>3, Readmitted DEF EntersFrom
  <2> QED
    BY <2>1, <2>2, <2>3 DEF EntersFrom
<1>3. IsInjective(cf_blocks') /\ ToSet(cf_blocks') \subseteq functions'
  <2>1. CASE cf_blocks' = cf_blocks
    BY <1>1, <2>1 DEF KnownInv
  <2>2. ASSUME NEW w \in Va, w \in functions', w \notin ToSet(cf_blocks), cf_blocks' = Append(cf_blocks, w)
        PROVE  IsInjective(cf_blocks') /\ ToSet(cf_blocks') \subseteq functions'
    BY <1>1, <2>2, PathGrows DEF KnownInv, TypeInv
  <2>3. ASSUME NEW w \in Va, EntersFrom(g, w, functions)
        PROVE  IsInjective(cf_blocks') /\ ToSet(cf_blocks') \subseteq functions'
    BY <2>1, <2>2, <2>3 DEF EntersFrom, MayEnter, KnownInv
  <2>4. ASSUME NEW w \in functions, ~OnActivePath(w), EntersFrom(g, w, functions \ {w})
        PROVE  IsInjective(cf_blocks') /\ ToSet(cf_blocks') \subseteq functions'
    <3>1. w \notin ToSet(cf_blocks)
      BY <2>4 DEF OnActivePath, Contains, ToSet
    <3>2. cf_blocks' = Append(cf_blocks, w) /\ w \in functions' /\ w \in Va
      BY <2>4, Readmitted DEF EntersFrom, TypeInv
    <3> QED
      BY <2>2, <3>1, <3>2
  <2> QED
    BY <2>1, <2>3, <2>4
<1>4. ASSUME NEW i \in DOMAIN stack' PROVE Lists(stack'[i]) \subseteq functions'
  <2>1. Continues(g)
    <3>1. functions \subseteq Va
      BY DEF TypeInv
    <3> QED
      BY <3>1, EnteringContinues DEF Continues
  <2>2. \A w : Lists(NewFrame(w)) = {}
    BY DEF Lists, NewFrame, ToSet
  <2> QED
    BY <1>1, <2>1, <2>2, StackAfter DEF KnownInv
<1>5. ToSet(blocked_recursion') \subseteq functions'
  BY <1>1
<1> QED
  BY <1>1, <1>2, <1>3, <1>4, <1>5 DEF KnownInv, Lists, ToSet

LEMMA KnownStep == TypeInv /\ KnownInv /\ [Next]_vars => KnownInv' /\ functions \subseteq functions'
<1> SUFFICES ASSUME TypeInv, KnownInv, [Next]_vars PROVE KnownInv' /\ functions \subseteq functions'
  OBVIOUS
<1> USE DEF Kept, Fields, deferralVars, discoveryVars
<1>t. ASSUME stack # <<>> PROVE Top \in Frame /\ Lists(Top) \subseteq functions
  <2>1. Len(stack) \in DOMAIN stack /\ stack[Len(stack)] = Top /\ Top \in Frame
    BY <1>t, TopType DEF TypeInv
  <2> QED
    BY <2>1 DEF KnownInv
\* Steps that leave the three lists of the frame and the blocked list alone.
<1>a. ASSUME NEW g \in Frame, stack # <<>>, Lists(g) = Lists(Top), UNCHANGED blocked_recursion,
             \/ Replaced(g) /\ functions' = functions /\ cf_blocks' = cf_blocks
             \/ \E w \in Va : EntersFrom(g, w, functions)
      PROVE  KnownInv' /\ functions \subseteq functions'
  BY <1>a, <1>t, KnownKept DEF KnownInv
<1>b. ASSUME NEW g \in Frame, Replaced(g), UNCHANGED <<functions, cf_blocks, blocked_recursion>>,
             g.deferred = Top.deferred, g.todo = Top.todo, g.still = Top.still
      PROVE  KnownInv' /\ functions \subseteq functions'
  BY <1>a, <1>b DEF Lists, Replaced
<1>1. CASE SkipAddress
  BY <1>1, <1>b, SkipAddressEffect DEF SkipAddress
<1>2. CASE DecodeOpcode
  BY <1>2, <1>b, DecodeOpcodeEffect DEF DecodeOpcode
<1>3. CASE EndFlow
  <2>1. PICK g \in Frame : Replaced(g) /\ Kept(g, {"phase", "todo"}) /\ g.todo = Top.deferred
    BY <1>3, EndFlowEffect
  <2>2. cf_blocks' = Front(cf_blocks) /\ UNCHANGED <<functions, blocked_recursion>>
    BY <1>3 DEF EndFlow
  <2>3. Lists(g) \subseteq functions
    BY <1>t, <2>1 DEF Lists, Replaced
  <2>4. ASSUME NEW i \in DOMAIN stack' PROVE Lists(stack'[i]) \subseteq functions
    BY <2>1, <2>3, StackAfter DEF KnownInv, Continues, Replaced, Pushed
  <2>5. PICK s \in Seq(Va) : s = cf_blocks
    BY DEF TypeInv
  <2>6. \A k \in DOMAIN Front(s) : k \in DOMAIN s /\ Front(s)[k] = s[k]
    BY DEF Front
  <2>7. IsInjective(cf_blocks') /\ ToSet(cf_blocks') \subseteq ToSet(cf_blocks)
    BY <2>2, <2>5, <2>6 DEF IsInjective, ToSet, KnownInv
  <2> QED
    BY <2>2, <2>4, <2>7 DEF KnownInv, Lists, ToSet
<1>4. CASE BranchesDone
  BY <1>4, <1>b, BranchesDoneEffect DEF BranchesDone
<1>5. CASE SkipBranch
  BY <1>5, <1>b, SkipBranchEffect DEF SkipBranch
<1>6. CASE CallBranch
  <2>1. PICK g \in Frame :
           /\ Kept(g, {"branches", "phase", "deferred"})
           /\ \/ /\ g.deferred = Top.deferred
                 /\ Replaced(g) /\ functions' = functions /\ cf_blocks' = cf_blocks
              \/ /\ g.deferred = PushUnique(Top.deferred, Branch.to) /\ OnActivePath(Branch.to)
                 /\ Replaced(g) /\ functions' = functions /\ cf_blocks' = cf_blocks
              \/ g.deferred = Top.deferred /\ EntersFrom(g, Branch.to, functions)
    BY <1>6, CallBranchEffect
  <2>2. Branch.to \in Va /\ stack # <<>> /\ UNCHANGED blocked_recursion
    BY <1>6, CallBranchEffect DEF CallBranch, Followed, Branching, InPhase
  <2>3. Lists(g) \subseteq Lists(Top) \cup {t \in {Branch.to} : OnActivePath(t)}
    <3>1. Top.deferred \in Seq(Va)
      BY <1>t, <2>2 DEF Frame
    <3>2. CASE g.deferred = Top.deferred
      BY <2>1, <3>2 DEF Lists
    <3>3. CASE g.deferred = PushUnique(Top.deferred, Branch.to) /\ OnActivePath(Branch.to)
      <4>1. ToSet(g.deferred) = ToSet(Top.deferred) \cup {Branch.to}
        BY <2>2, <3>1, <3>3, PushUniqueFacts
      <4> QED
        BY <2>1, <3>3, <4>1 DEF Lists
    <3> QED
      BY <2>1, <3>2, <3>3
  <2>4. OnActivePath(Branch.to) => Branch.to \in functions
    BY DEF OnActivePath, Contains, KnownInv, ToSet
  <2>5. Lists(g) \subseteq functions
    BY <1>t, <2>2, <2>3, <2>4
  <2> QED
    BY <2>1, <2>2, <2>5, KnownKept DEF KnownInv
<1>7. CASE AfterCall
  BY <1>7, <1>b, AfterCallEffect DEF AfterCall
<1>8. CASE TailBranch
  BY <1>8, <1>b, TailBranchEffect DEF TailBranch
<1>9. CASE FlowBranch
  BY <1>9, <1>b, FlowBranchEffect DEF FlowBranch
<1>10. ASSUME NEW jt \in JumpTables, ResolveJumpTable(jt)
       PROVE  KnownInv' /\ functions \subseteq functions'
  BY <1>10, <1>b, ResolveJumpTableEffect DEF ResolveJumpTable
<1>11. CASE DrainDeferred
  <2>1. PICK w \in Va : w = Head(Top.todo)
    BY <1>11, DrainDeferredEffect
  <2>2. PICK g \in Frame :
           /\ Kept(g, {"todo"}) /\ g.todo = Tail(Top.todo)
           /\ \/ Replaced(g) /\ functions' = functions /\ cf_blocks' = cf_blocks
              \/ EntersFrom(g, w, functions)
    BY <1>11, <2>1, DrainDeferredEffect
  <2>3. Top \in Frame /\ Top.todo # <<>> /\ stack # <<>>
    BY <1>11, DrainDeferredEffect DEF DrainDeferred, Draining, InPhase
  <2>4. ToSet(Top.todo) = ToSet(g.todo) \cup {w}
    BY <2>1, <2>2, <2>3, TailElements DEF Frame
  <2>5. Lists(g) \subseteq functions /\ w \in functions
    BY <1>t, <2>2, <2>3, <2>4 DEF Lists
  <2>6. ToSet(blocked_recursion') \subseteq functions
    <3>1. blocked_recursion' \in {blocked_recursion, PushUnique(blocked_recursion, w)}
      BY <1>11, <2>1 DEF DrainDeferred
    <3>2. ToSet(PushUnique(blocked_recursion, w)) = ToSet(blocked_recursion) \cup {w}
      BY <2>1, PushUniqueFacts DEF TypeInv
    <3> QED
      BY <2>5, <3>1, <3>2 DEF KnownInv
  <2> QED
    BY <2>2, <2>5, <2>6, KnownKept
<1>12. CASE StartBlocked
  <2>1. PICK g \in Frame : Replaced(g) /\ Kept(g, {"phase", "todo"}) /\ g.todo = blocked_recursion
    BY <1>12, StartBlockedEffect
  <2>2. Lists(g) \subseteq functions
    BY <1>t, <2>1 DEF Lists, Replaced, KnownInv
  <2> QED
    BY <1>12, <2>1, <2>2, KnownKept DEF StartBlocked, KnownInv
<1>13. CASE DrainBlocked
  <2>1. PICK w \in Va : w = Head(Top.todo)
    BY <1>13, DrainBlockedEffect
  <2>2. PICK g \in Frame :
           /\ Kept(g, {"todo", "still"}) /\ g.todo = Tail(Top.todo)
           /\ \/ /\ Unblocked(w) /\ g.still = Top.still /\ EntersFrom(g, w, functions \ {w})
                 /\ blocked_recursion' = RemoveFirst(blocked_recursion, w)
              \/ /\ g.still = Append(Top.still, w)
                 /\ Replaced(g) /\ functions' = functions /\ cf_blocks' = cf_blocks
                 /\ blocked_recursion' = blocked_recursion
    BY <1>13, <2>1, DrainBlockedEffect
  <2>3. Top \in Frame /\ Top.todo # <<>> /\ stack # <<>>
    BY <1>13, DrainBlockedEffect DEF DrainBlocked, Draining, InPhase
  <2>4. ToSet(Top.todo) = ToSet(g.todo) \cup {w}
    BY <2>1, <2>2, <2>3, TailElements DEF Frame
  <2>5. w \in functions
    BY <1>t, <2>3, <2>4 DEF Lists
  <2>6. ToSet(Append(Top.still, w)) = ToSet(Top.still) \cup {w}
    BY <2>3, AppendElements DEF Frame
  <2>7. Lists(g) \subseteq functions
    BY <1>t, <2>2, <2>3, <2>4, <2>5, <2>6 DEF Lists
  <2>8. ToSet(blocked_recursion') \subseteq functions
    <3>1. ToSet(RemoveFirst(blocked_recursion, w)) \subseteq ToSet(blocked_recursion)
      BY RemoveFirstFacts DEF TypeInv
    <3> QED
      BY <2>2, <3>1 DEF KnownInv
  <2> QED
    BY <2>2, <2>5, <2>7, <2>8, KnownKept DEF Unblocked
<1>14. CASE FinishFlow
  <2>1. blocked_recursion' = Top.still /\ UNCHANGED <<functions, cf_blocks>> /\ stack # <<>>
    BY <1>14 DEF FinishFlow, InPhase
  <2>2. ToSet(blocked_recursion') \subseteq functions
    BY <1>t, <2>1 DEF Lists
  <2>3. CASE Popped
    <3>1. \A i \in DOMAIN stack' : i \in DOMAIN stack /\ stack'[i] = stack[i]
      BY <2>3 DEF Popped, TypeInv
    <3> QED
      BY <2>1, <2>2, <3>1 DEF KnownInv, Lists, ToSet
  <2>4. ASSUME NEW g \in Frame, Replaced(g), Kept(g, {"phase"})
        PROVE  KnownInv' /\ functions \subseteq functions'
    <3>1. Lists(g) \subseteq functions
      BY <1>t, <2>1, <2>4 DEF Lists
    <3> QED
      BY <2>1, <2>2, <2>4, <3>1, KnownKept
  <2> QED
    BY <1>14, <2>3, <2>4, FinishFlowEffect
<1>15. CASE Report
  BY <1>15, <1>b, ReportEffect DEF Report
<1>16. CASE MakeLocalName
  <2>1. PICK g \in Frame : /\ Kept(g, {"names"})
                           /\ \/ Replaced(g) /\ functions' = functions /\ cf_blocks' = cf_blocks
                              \/ \E w \in Va : EntersFrom(g, w, functions)
    BY <1>16, MakeLocalNameEffect
  <2>2. stack # <<>> /\ UNCHANGED blocked_recursion
    BY <1>16 DEF MakeLocalName
  <2>3. Lists(g) = Lists(Top)
    BY <2>1 DEF Lists
  <2> QED
    BY <1>a, <2>1, <2>2, <2>3
<1>17. CASE Release
  BY <1>17, <1>b, ReleaseEffect DEF Release
<1>18. CASE Return
  <2>1. Popped /\ UNCHANGED <<functions, cf_blocks, blocked_recursion>>
    BY <1>18, ReturnEffect DEF Return
  <2>2. \A i \in DOMAIN stack' : i \in DOMAIN stack /\ stack'[i] = stack[i]
    BY <2>1 DEF Popped, TypeInv
  <2> QED
    BY <2>1, <2>2 DEF KnownInv, Lists, ToSet
<1>19. ASSUME NEW waiter \in Va, ReportFreed(waiter)
       PROVE  KnownInv' /\ functions \subseteq functions'
  BY <1>19, <1>b, ReportFreedEffect DEF ReportFreed
<1>20. ASSUME NEW w \in Seeds, MakeFunction(w) PROVE KnownInv' /\ functions \subseteq functions'
  <2>1. /\ w \in Va /\ MayEnter(w, functions) /\ functions' = functions \cup {w}
        /\ cf_blocks' = Append(cf_blocks, w) /\ UNCHANGED blocked_recursion
        /\ \A i \in DOMAIN stack' : stack'[i] = NewFrame(w)
    BY <1>20, MakeFunctionEffect DEF MakeFunction
  <2>2. Lists(NewFrame(w)) = {}
    BY DEF Lists, NewFrame, ToSet
  <2>3. Cardinality(functions') <= MaxFunctions
    <3>1. IsFiniteSet(functions) /\ Cardinality(functions) \in Nat /\ w \notin functions
      BY <2>1, FunctionsFinite DEF TypeInv, MayEnter
    <3>2. Cardinality(functions \cup {w}) = Cardinality(functions) + 1
      BY <3>1, FS_AddElement
    <3> QED
      BY <2>1, <3>1, <3>2, CodeFlowAssumption DEF MayEnter
  <2>4. IsInjective(cf_blocks') /\ ToSet(cf_blocks') = ToSet(cf_blocks) \cup {w}
    BY <2>1, PathGrows DEF MayEnter, KnownInv, TypeInv
  <2>5. \A i \in DOMAIN stack' : Lists(stack'[i]) \subseteq functions'
    BY <2>1, <2>2
  <2> QED
    BY <2>1, <2>3, <2>4, <2>5 DEF KnownInv, Lists, ToSet
<1>21. CASE UNCHANGED vars
  BY <1>21 DEF vars, KnownInv, Lists, ToSet
<1> QED
  BY <1>1, <1>2, <1>3, <1>4, <1>5, <1>6, <1>7, <1>8, <1>9, <1>10, <1>11, <1>12, <1>13, <1>14,
     <1>15, <1>16, <1>17, <1>18, <1>19, <1>20, <1>21 DEF Next, Step

-----------------------------------------------------------------------------
(***************************************************************************)
(* Every function a decoded call names was entered.                        *)
(***************************************************************************)

\* The call at va that add_code_flow follows.
CallsInto(va, to) ==
    code[va].kind = "call" /\ code[va].to = to /\ to \in Exec \ {va + code[va].len}

\* The frame f has not handled the call at va yet.
Calling(f, va, to) ==
    /\ f.phase \in {"branch", "called"} /\ f.cur = va
    /\ \E b \in ToSet(f.branches) : b.to = to /\ "proc" \in b.flags

CallInv ==
    \A va \in DOMAIN locations : \A to \in Va :
        CallsInto(va, to) =>
            to \in functions \/ \E i \in DOMAIN stack : Calling(stack[i], va, to)

LEMMA IndirectNotExec == NoVa \notin Exec
<1>1. Exec \subseteq Int
  BY CodeFlowAssumption, VaAssumption DEF Va
<1> QED
  BY <1>1, NoVaAssumption

\* The active path is no longer than there are addresses.
LEMMA PathShort ==
  ASSUME TypeInv, KnownInv, MaxDescent > MaxVa + 1
  PROVE  Len(cf_blocks) < MaxDescent
<1>1. IsFiniteSet(Va) /\ Cardinality(Va) = MaxVa + 1
  BY VaAssumption, FS_Interval DEF Va
<1>2. cf_blocks \in Injection(1 .. Len(cf_blocks), Va) /\ Len(cf_blocks) \in Nat
  BY DEF TypeInv, KnownInv, Injection
<1>3. Cardinality(1 .. Len(cf_blocks)) <= Cardinality(Va)
  BY <1>1, <1>2, FS_Injection
<1>4. \A n \in Nat : Cardinality(1 .. n) = n
  BY FS_Interval
<1> QED
  BY <1>1, <1>2, <1>3, <1>4, VaAssumption, CodeFlowAssumption

LEMMA CallKept ==
  ASSUME TypeInv, CallInv, NEW g, Continues(g), code' = code, functions \subseteq functions',
         \A va \in DOMAIN locations' \ DOMAIN locations : \A to \in Va :
             CallsInto(va, to) => to \in functions' \/ Calling(g, va, to),
         \A va, to : CallsInto(va, to) /\ Calling(Top, va, to) =>
             to \in functions' \/ Calling(g, va, to)
  PROVE  CallInv'
<1> SUFFICES ASSUME NEW va \in DOMAIN locations', NEW to \in Va, CallsInto(va, to), to \notin functions'
             PROVE  \E i \in DOMAIN stack' : Calling(stack'[i], va, to)
  BY DEF CallInv, CallsInto, Calling
<1>1. CASE Calling(g, va, to)
  <2>1. Len(stack) \in DOMAIN stack' /\ stack'[Len(stack)] = g
    BY StackAfter
  <2> QED
    BY <1>1, <2>1
<1>2. CASE va \in DOMAIN locations /\ ~Calling(g, va, to)
  <2>1. PICK i \in DOMAIN stack : Calling(stack[i], va, to)
    BY <1>2 DEF CallInv
  <2>2. i # Len(stack)
    BY <1>2, <2>1, StackAfter
  <2> QED
    BY <2>1, <2>2, StackAfter
<1> QED
  BY <1>1, <1>2

LEMMA CallStep ==
  ASSUME MaxFunctions > MaxVa + 1, MaxDescent > MaxVa + 1
  PROVE  TypeInv /\ InsnInv /\ EdgeInv /\ KnownInv /\ CallInv /\ [Next]_vars => CallInv'
<1> SUFFICES ASSUME TypeInv, InsnInv, EdgeInv, KnownInv, CallInv, [Next]_vars PROVE CallInv'
  OBVIOUS
<1> USE DEF Kept, Fields, deferralVars, discoveryVars, Continues
<1>f. functions \subseteq functions'
  BY KnownStep
\* Steps that leave the branches and the databases alone.
<1>a. ASSUME NEW g \in Frame, Continues(g), UNCHANGED <<code, locations>>,
             g.cur = Top.cur, g.branches = Top.branches,
             \/ Top.phase \notin {"branch", "called"}
             \/ g.phase \in {"branch", "called"}
             \/ Top.branches = <<>>
      PROVE  CallInv'
  <2>1. \A va, to : Calling(Top, va, to) => Calling(g, va, to)
    BY <1>a DEF Calling, ToSet
  <2> QED
    BY <1>a, <1>f, <2>1, CallKept
\* Steps that take the last branch of the instruction, and may add others.
<1>b. ASSUME NEW g \in Frame, Continues(g), UNCHANGED <<code, locations>>,
             Top \in Frame, Top.phase = "branch", Top.branches # <<>>,
             g.cur = Top.cur, g.phase \in {"branch", "called"},
             ToSet(Front(Top.branches)) \subseteq ToSet(g.branches),
             "proc" \in Branch.flags /\ CallsInto(Top.cur, Branch.to) => Branch.to \in functions'
      PROVE  CallInv'
  <2>1. ToSet(Top.branches) = ToSet(Front(Top.branches)) \cup {Branch}
    BY <1>b, FrontElements DEF Frame, Branch
  <2>2. \A va, to : CallsInto(va, to) /\ Calling(Top, va, to) => to \in functions' \/ Calling(g, va, to)
    BY <1>b, <2>1 DEF Calling
  <2> QED
    BY <1>b, <1>f, <2>2, CallKept
<1>1. CASE SkipAddress
  BY <1>1, <1>a, SkipAddressEffect DEF SkipAddress
<1>2. CASE DecodeOpcode
  <2>1. PICK va \in Va : va = Last(Top.optodo)
    BY <1>2, DecodeOpcodeEffect
  <2>2. PICK g \in Frame : /\ Replaced(g) /\ g.cur = va
                           /\ g.branches = GetBranches(va) /\ g.phase = "branch"
    BY <1>2, <2>1, DecodeOpcodeEffect
  <2>3. /\ Top.phase = "flow" /\ code[va] \in Instruction /\ code' = code
        /\ DOMAIN locations' = DOMAIN locations \cup {va}
    BY <1>2, <2>1, DecodeOpcodeEffect DEF DecodeOpcode
  <2>4. ASSUME NEW to \in Va, CallsInto(va, to) PROVE Calling(g, va, to)
    <3>1. code[va].kind = "call" /\ code[va].to # NoVa /\ code[va].to = to
      BY <2>4, NoVaAssumption, VaAssumption DEF CallsInto, Va
    <3>2. GetBranches(va) = <<[to |-> va + code[va].len, flags |-> {"fall"}],
                              [to |-> to, flags |-> {"proc"}]>>
      BY <2>3, <3>1, BranchesByKind
    <3>3. 2 \in DOMAIN GetBranches(va) /\ GetBranches(va)[2].to = to
          /\ "proc" \in GetBranches(va)[2].flags
      BY <3>2
    <3> QED
      BY <2>2, <3>3 DEF Calling, ToSet
  <2>5. \A u, to : ~Calling(Top, u, to)
    BY <2>3 DEF Calling
  <2> QED
    BY <1>f, <2>2, <2>3, <2>4, <2>5, CallKept
<1>3. CASE EndFlow
  BY <1>3, <1>a, EndFlowEffect DEF EndFlow
<1>4. CASE BranchesDone
  BY <1>4, <1>a, BranchesDoneEffect DEF BranchesDone
<1>5. CASE SkipBranch
  <2>1. Branch.to = NoVa \/ Branch.to \notin Exec \/ <<Top.cur, Branch.to>> \in noflow
    BY <1>5 DEF SkipBranch, Followed
  <2>2. ~CallsInto(Top.cur, Branch.to)
    <3>1. ASSUME <<Top.cur, Branch.to>> \in noflow PROVE Branch.to = Top.cur + code[Top.cur].len
      BY <3>1 DEF EdgeInv
    <3> QED
      BY <2>1, <3>1, IndirectNotExec DEF CallsInto
  <2>3. UNCHANGED <<code, locations>>
    BY <1>5 DEF SkipBranch
  <2> QED
    BY <1>5, <1>b, <2>2, <2>3, SkipBranchEffect
<1>6. CASE CallBranch
  <2>1. PICK g \in Frame :
           /\ Kept(g, {"branches", "phase", "deferred"}) /\ g.branches = Front(Top.branches)
           /\ g.phase = IF Branch.to = NextVa THEN "branch" ELSE "called"
           /\ \/ /\ Branch.to = NextVa \/ Len(cf_blocks) >= MaxDescent
                 /\ Replaced(g)
              \/ OnActivePath(Branch.to) /\ Replaced(g)
              \/ EntersFrom(g, Branch.to, functions)
    BY <1>6, CallBranchEffect
  <2>2. /\ Top \in Frame /\ Top.phase = "branch" /\ Top.branches # <<>> /\ Branch.to \in Va
        /\ UNCHANGED <<code, locations>>
    BY <1>6, CallBranchEffect DEF CallBranch
  <2>3. ASSUME CallsInto(Top.cur, Branch.to) PROVE Branch.to \in functions'
    <3>1. Branch.to # NextVa
      BY <2>3 DEF CallsInto, NextVa
    <3>2. ~(Len(cf_blocks) >= MaxDescent)
      BY PathShort, CodeFlowAssumption DEF TypeInv
    <3>3. CASE OnActivePath(Branch.to)
      BY <1>f, <3>3 DEF OnActivePath, Contains, KnownInv, ToSet
    <3>4. CASE EntersFrom(g, Branch.to, functions)
      <4>1. Cardinality(functions) < MaxFunctions
        BY FunctionsFinite, CodeFlowAssumption, VaAssumption DEF TypeInv
      <4> QED
        BY <3>4, <4>1 DEF EntersFrom, MayEnter
    <3> QED
      BY <2>1, <3>1, <3>2, <3>3, <3>4
  <2>4. Continues(g) /\ g.phase \in {"branch", "called"}
    BY <2>1, <2>2, EnteringContinues
  <2> QED
    BY <1>b, <2>1, <2>2, <2>3, <2>4
<1>7. CASE AfterCall
  BY <1>7, <1>a, AfterCallEffect DEF AfterCall
<1>8. CASE TailBranch
  <2>1. "proc" \notin Branch.flags /\ UNCHANGED <<code, locations>>
    BY <1>8 DEF TailBranch
  <2> QED
    BY <1>8, <1>b, <2>1, TailBranchEffect
<1>9. CASE FlowBranch
  <2>1. "proc" \notin Branch.flags /\ UNCHANGED <<code, locations>>
    BY <1>9 DEF FlowBranch
  <2> QED
    BY <1>9, <1>b, <2>1, FlowBranchEffect
<1>10. ASSUME NEW jt \in JumpTables, ResolveJumpTable(jt) PROVE CallInv'
  <2>1. PICK g \in Frame : /\ Replaced(g) /\ Kept(g, {"branches", "data"})
                           /\ g.branches = Front(Top.branches) \o CaseBranches(jt)
    BY <1>10, ResolveJumpTableEffect
  <2>2. /\ Top \in Frame /\ Top.phase = "branch" /\ Top.branches # <<>>
        /\ CaseBranches(jt) \in Seq(BranchRec)
    BY <1>10, ResolveJumpTableEffect
  <2>3. Branch.to = NoVa /\ UNCHANGED <<code, locations>>
    BY <1>10 DEF ResolveJumpTable
  <2>4. ~CallsInto(Top.cur, Branch.to)
    BY <2>3, IndirectNotExec DEF CallsInto
  <2>5. ToSet(Front(Top.branches)) \subseteq ToSet(g.branches)
    <3>1. Front(Top.branches) \in Seq(BranchRec)
      BY <2>2, ListType DEF Frame
    <3> QED
      BY <2>1, <2>2, <3>1, ConcatElements
  <2> QED
    BY <1>b, <2>1, <2>2, <2>3, <2>4, <2>5
<1>11. CASE DrainDeferred
  <2>1. PICK g \in Frame : Continues(g) /\ Kept(g, {"todo"})
    BY <1>11, DrainDeferredEffect, EnteringContinues
  <2> QED
    BY <1>11, <1>a, <2>1, DrainDeferredEffect DEF DrainDeferred
<1>12. CASE StartBlocked
  BY <1>12, <1>a, StartBlockedEffect DEF StartBlocked
<1>13. CASE DrainBlocked
  <2>1. PICK g \in Frame : Continues(g) /\ Kept(g, {"todo", "still"})
    BY <1>13, DrainBlockedEffect, EnteringContinues
  <2> QED
    BY <1>13, <1>a, <2>1, DrainBlockedEffect DEF DrainBlocked
<1>p. ASSUME Popped, UNCHANGED <<code, locations>>, Top.phase \notin {"branch", "called"}
      PROVE  CallInv'
  <2>1. \A i \in DOMAIN stack : \/ i \in DOMAIN stack' /\ stack'[i] = stack[i]
                                \/ stack[i] = Top
    BY <1>p, PoppedFrames
  <2>2. \A va, to : ~Calling(Top, va, to)
    BY <1>p DEF Calling
  <2>3. \A va \in DOMAIN locations : \A to \in Va : CallsInto(va, to) =>
            to \in functions' \/ \E i \in DOMAIN stack' : Calling(stack'[i], va, to)
    BY <1>f, <2>1, <2>2 DEF CallInv
  <2> QED
    BY <1>p, <2>3 DEF CallInv, CallsInto, Calling
<1>14. CASE FinishFlow
  <2>1. UNCHANGED <<code, locations>> /\ Top.phase = "blocked"
    BY <1>14, FinishFlowEffect DEF FinishFlow
  <2>2. CASE Popped
    BY <1>p, <2>1, <2>2
  <2>3. ASSUME NEW g \in Frame, Replaced(g), Kept(g, {"phase"}) PROVE CallInv'
    BY <1>a, <2>1, <2>3
  <2> QED
    BY <1>14, <2>2, <2>3, FinishFlowEffect
<1>15. CASE Report
  BY <1>15, <1>a, ReportEffect DEF Report
<1>16. CASE MakeLocalName
  <2>1. PICK g \in Frame : Continues(g) /\ Kept(g, {"names"})
    BY <1>16, MakeLocalNameEffect, EnteringContinues
  <2> QED
    BY <1>16, <1>a, <2>1 DEF MakeLocalName
<1>17. CASE Release
  BY <1>17, <1>a, ReleaseEffect DEF Release
<1>18. CASE Return
  BY <1>18, <1>p, ReturnEffect DEF Return
<1>19. ASSUME NEW waiter \in Va, ReportFreed(waiter) PROVE CallInv'
  BY <1>19, <1>a, ReportFreedEffect DEF ReportFreed
<1>20. ASSUME NEW w \in Seeds, MakeFunction(w) PROVE CallInv'
  <2>1. UNCHANGED <<code, locations>> /\ stack = <<>>
    BY <1>20 DEF MakeFunction
  <2>2. \A va \in DOMAIN locations : \A to \in Va : CallsInto(va, to) => to \in functions'
    BY <1>f, <2>1 DEF CallInv
  <2> QED
    BY <2>1, <2>2 DEF CallInv, CallsInto
<1>21. CASE UNCHANGED vars
  BY <1>21 DEF vars, CallInv, CallsInto, Calling
<1> QED
  BY <1>1, <1>2, <1>3, <1>4, <1>5, <1>6, <1>7, <1>8, <1>9, <1>10, <1>11, <1>12, <1>13, <1>14,
     <1>15, <1>16, <1>17, <1>18, <1>19, <1>20, <1>21 DEF Next, Step

\* When make_function has returned, every function a decoded call names was
\* entered, although calls were deferred, blocked and entered again: for every
\* image in which neither the descent cap nor the function cap can be reached.
THEOREM CallsAreEntered ==
  ASSUME MaxFunctions > MaxVa + 1, MaxDescent > MaxVa + 1
  PROVE  Spec => []CallsEntered
<1>1. Init => InsnInv /\ EdgeInv /\ KnownInv /\ CallInv
  <2> SUFFICES ASSUME Init PROVE InsnInv /\ EdgeInv /\ KnownInv /\ CallInv
    OBVIOUS
  <2>1. Cardinality(functions) <= MaxFunctions
    BY FS_EmptySet, CodeFlowAssumption DEF Init
  <2> QED
    BY <2>1 DEF Init, InsnInv, EdgeInv, KnownInv, CallInv, EmptyDb, ToSet, IsInjective
<1>2. TypeInv /\ CallInv => CallsEntered
  BY CodeFlowAssumption DEF CallInv, CallsEntered, CallsInto, Idle
<1>3. TypeInv /\ InsnInv /\ EdgeInv /\ KnownInv /\ CallInv /\ [Next]_vars => CallInv'
  BY CallStep
<1>4. TypeInv /\ KnownInv /\ [Next]_vars => KnownInv'
  BY KnownStep
<1> QED
  BY <1>1, <1>2, <1>3, <1>4, CodeFlowTypes, InsnStep, EdgeStep, PTL DEF Spec

-----------------------------------------------------------------------------
(***************************************************************************)
(* Nothing is decoded behind a call that does not return.                  *)
(***************************************************************************)

\* What may bring the recovery to v, calls of no-return thunks aside.
Reason(v) ==
    \/ v \in functions
    \/ HasCodeXrefTo(xrefs, v)
    \/ \E u \in DOMAIN locations \ ThunkExits : FallsInto(u, v)

(***************************************************************************)
(* A frame has a reason for everything on its worklist; a branch it has    *)
(* not handled is indirect, a call, an edge or the fall-through; and while *)
(* it handles a call of a no-return thunk, the call comes first and the    *)
(* fall-through is suppressed by the time it comes up.                     *)
(***************************************************************************)
ExitFrame(f) ==
    /\ \A v \in ToSet(f.optodo) : Reason(v)
    /\ f.phase \in {"branch", "called"} =>
           \A b \in ToSet(f.branches) :
               \/ b.to = NoVa \/ "proc" \in b.flags
               \/ <<f.cur, b.to>> \in DOMAIN xrefs \/ FallsInto(f.cur, b.to)
    /\ f.phase = "branch" /\ f.cur \in ThunkExits =>
           \/ f.branches = GetBranches(f.cur)
           \/ <<f.cur, f.cur + code[f.cur].len>> \in noflow

ExitInv ==
    /\ \A v \in DOMAIN locations : Reason(v)
    /\ \A i \in DOMAIN stack : ExitFrame(stack[i])

LEMMA ReasonStays ==
  ASSUME NEW v, Reason(v), code' = code, functions \subseteq functions',
         DOMAIN xrefs \subseteq DOMAIN xrefs', DOMAIN locations \subseteq DOMAIN locations'
  PROVE  Reason(v)'
<1>1. \A u \in DOMAIN locations : u \in ThunkExits' <=> u \in ThunkExits
  BY DEF ThunkExits
<1>2. \A u : FallsInto(u, v)' <=> FallsInto(u, v)
  BY DEF FallsInto, IsFallthrough
<1> QED
  BY <1>1, <1>2 DEF Reason, HasCodeXrefTo

\* A thunk call's branch to handle first is the call itself.
LEMMA ThunkCallFirst ==
  ASSUME TypeInv, NEW va \in ThunkExits
  PROVE  /\ GetBranches(va) # <<>> /\ "proc" \in Last(GetBranches(va)).flags
         /\ Last(GetBranches(va)).to \in Exec
         /\ Last(GetBranches(va)).to # va + code[va].len
<1>1. /\ va \in Va /\ code[va] \in Instruction /\ code[va].kind = "call"
      /\ code[va].to \in Exec /\ code[va].to # va + code[va].len
  BY DEF ThunkExits, TypeInv, DbType
<1>2. code[va].to # NoVa
  BY <1>1, IndirectNotExec
<1>3. GetBranches(va) = <<[to |-> va + code[va].len, flags |-> {"fall"}],
                          [to |-> code[va].to, flags |-> {"proc"}]>>
  BY <1>1, <1>2, BranchesByKind
<1>4. Last(GetBranches(va)) = [to |-> code[va].to, flags |-> {"proc"}]
  BY <1>3 DEF Last
<1> QED
  BY <1>1, <1>3, <1>4

LEMMA ExitKept ==
  ASSUME TypeInv, InsnInv, ExitInv, NEW g \in Frame, Continues(g), ExitFrame(g)',
         code' = code, functions \subseteq functions', DOMAIN xrefs \subseteq DOMAIN xrefs',
         DOMAIN locations \subseteq DOMAIN locations', noflow \subseteq noflow',
         \A w : Pushed(g, w) => w \in functions',
         \A v \in DOMAIN locations' \ DOMAIN locations : Reason(v)'
  PROVE  ExitInv'
<1>1. \A v : Reason(v) => Reason(v)'
  BY ReasonStays
<1>2. ASSUME NEW i \in DOMAIN stack', NEW f, f = stack'[i] PROVE ExitFrame(f)'
  <2>1. CASE i \in DOMAIN stack /\ f = stack[i]
    <3>1. ExitFrame(f) /\ InsnFrame(f)
      BY <2>1 DEF ExitInv, InsnInv
    <3>2. \A u \in DOMAIN locations : u \in ThunkExits' <=> u \in ThunkExits
      BY DEF ThunkExits
    <3>3. \A u, v : FallsInto(u, v)' <=> FallsInto(u, v)
      BY DEF FallsInto, IsFallthrough
    <3>4. GetBranches(f.cur)' = GetBranches(f.cur)
      BY DEF GetBranches
    <3>5. f.phase = "branch" => f.cur \in DOMAIN locations
      BY <3>1 DEF InsnFrame
    <3>6. \A v \in ToSet(f.optodo) : Reason(v)'
      BY <1>1, <3>1 DEF ExitFrame
    <3>7. f.phase \in {"branch", "called"} =>
            \A b \in ToSet(f.branches) :
               \/ b.to = NoVa \/ "proc" \in b.flags
               \/ <<f.cur, b.to>> \in DOMAIN xrefs' \/ FallsInto(f.cur, b.to)'
      BY <3>1, <3>3 DEF ExitFrame
    <3>8. f.phase = "branch" /\ f.cur \in ThunkExits' =>
           \/ f.branches = GetBranches(f.cur)'
           \/ <<f.cur, f.cur + code'[f.cur].len>> \in noflow'
      BY <3>1, <3>2, <3>4, <3>5 DEF ExitFrame
    <3> QED
      BY <3>6, <3>7, <3>8 DEF ExitFrame, ToSet
  <2>2. CASE f = g
    BY <2>2
  <2>3. ASSUME NEW w, Pushed(g, w), f = NewFrame(w) PROVE ExitFrame(f)'
    <3>1. f.optodo = <<w>> /\ f.phase = "flow"
      BY <2>3 DEF NewFrame
    <3>2. ToSet(f.optodo) = {w}
      BY <3>1 DEF ToSet
    <3>3. Reason(w)'
      BY <2>3 DEF Reason
    <3> QED
      BY <3>1, <3>2, <3>3 DEF ExitFrame, ToSet
  <2> QED
    BY <1>2, <2>1, <2>2, <2>3, StackAfter
<1>3. \A v \in DOMAIN locations' : Reason(v)'
  BY <1>1 DEF ExitInv
<1> QED
  BY <1>2, <1>3 DEF ExitInv

\* A step that decodes nothing, adds no edge and leaves the worklist alone.
LEMMA ExitKeptAside ==
  ASSUME TypeInv, InsnInv, ExitInv, NEW g \in Frame, Continues(g),
         UNCHANGED <<code, locations, xrefs>>, functions \subseteq functions',
         noflow \subseteq noflow',
         \A w : Pushed(g, w) => w \in functions',
         \A v \in ToSet(g.optodo) : v \in ToSet(Top.optodo) \/ Reason(v),
         g.phase \in {"branch", "called"} =>
             /\ Top.phase \in {"branch", "called"} /\ g.cur = Top.cur
             /\ ToSet(g.branches) \subseteq ToSet(Top.branches),
         g.phase = "branch" /\ g.cur \in ThunkExits =>
             \/ g.branches = GetBranches(g.cur)
             \/ <<g.cur, g.cur + code[g.cur].len>> \in noflow'
  PROVE  ExitInv'
<1>1. \A v : Reason(v) => Reason(v)'
  BY ReasonStays
<1>2. ExitFrame(Top)
  BY StackAfter DEF ExitInv
<1>3. ThunkExits' = ThunkExits
  BY DEF ThunkExits
<1>4. GetBranches(g.cur)' = GetBranches(g.cur)
  BY DEF GetBranches
<1>5. \A u, v : FallsInto(u, v)' <=> FallsInto(u, v)
  BY DEF FallsInto, IsFallthrough
<1>6. \A v \in ToSet(g.optodo) : Reason(v)'
  BY <1>1, <1>2 DEF ExitFrame
<1>7. g.phase \in {"branch", "called"} =>
         \A b \in ToSet(g.branches) :
            \/ b.to = NoVa \/ "proc" \in b.flags
            \/ <<g.cur, b.to>> \in DOMAIN xrefs' \/ FallsInto(g.cur, b.to)'
  BY <1>2, <1>5 DEF ExitFrame
<1>8. g.phase = "branch" /\ g.cur \in ThunkExits' =>
         \/ g.branches = GetBranches(g.cur)'
         \/ <<g.cur, g.cur + code'[g.cur].len>> \in noflow'
  BY <1>3, <1>4
<1>9. ExitFrame(g)'
  BY <1>6, <1>7, <1>8 DEF ExitFrame, ToSet
<1> QED
  BY <1>9, ExitKept

LEMMA ExitUnchanged ==
  ASSUME UNCHANGED <<code, locations, xrefs, noflow, functions>>, NEW f, ExitFrame(f)
  PROVE  ExitFrame(f)'
<1>1. \A v : Reason(v) => Reason(v)'
  BY ReasonStays
<1>2. ThunkExits' = ThunkExits
  BY DEF ThunkExits
<1>3. GetBranches(f.cur)' = GetBranches(f.cur)
  BY DEF GetBranches
<1>4. \A u, v : FallsInto(u, v)' <=> FallsInto(u, v)
  BY DEF FallsInto, IsFallthrough
<1> QED
  BY <1>1, <1>2, <1>3, <1>4 DEF ExitFrame, ToSet

LEMMA ExitStep ==
  TypeInv /\ InsnInv /\ EdgeInv /\ KnownInv /\ ExitInv /\ [Next]_vars => ExitInv'
<1> SUFFICES ASSUME TypeInv, InsnInv, EdgeInv, KnownInv, ExitInv, [Next]_vars PROVE ExitInv'
  OBVIOUS
<1> USE DEF Kept, Fields, deferralVars, discoveryVars, Continues
<1>f. functions \subseteq functions'
  BY KnownStep
<1>t. ASSUME stack # <<>> PROVE ExitFrame(Top)
  <2>1. Len(stack) \in DOMAIN stack /\ stack[Len(stack)] = Top
    BY <1>t, TopType DEF TypeInv
  <2> QED
    BY <2>1 DEF ExitInv
<1>r. \A g, w : Replaced(g) => ~Pushed(g, w)
  BY DEF Replaced, Pushed, TypeInv
<1>w. ASSUME NEW g, NEW w \in Va, NEW known, EntersFrom(g, w, known)
      PROVE  \A v : Pushed(g, v) => v \in functions'
  <2>1. ASSUME NEW v, Pushed(g, v), ~MayEnter(w, known) PROVE FALSE
    BY <1>r, <1>w, <2>1 DEF EntersFrom
  <2>2. ASSUME NEW v, Pushed(g, v), MayEnter(w, known) PROVE v \in functions'
    <3>1. NewFrame(v) = NewFrame(w) /\ functions' = known \cup {w}
      BY <1>w, <2>2 DEF EntersFrom, Pushed
    <3> QED
      BY <3>1 DEF NewFrame
  <2> QED
    BY <2>1, <2>2
\* Steps in which the frame keeps its worklist, and its branches or none.
<1>a. ASSUME NEW g \in Frame, stack # <<>>,
             Replaced(g) \/ \E w \in Va : \E known : EntersFrom(g, w, known),
             UNCHANGED <<code, locations, xrefs, noflow>>,
             \A v \in ToSet(g.optodo) : v \in ToSet(Top.optodo) \/ Reason(v),
             \/ g.phase \notin {"branch", "called"}
             \/ g.phase = Top.phase /\ g.cur = Top.cur /\ g.branches = Top.branches
      PROVE  ExitInv'
  <2>1. Continues(g) /\ \A v : Pushed(g, v) => v \in functions'
    BY <1>a, <1>r, <1>w, EnteringContinues
  <2>2. g.phase = "branch" /\ g.cur \in ThunkExits =>
           \/ g.branches = GetBranches(g.cur)
           \/ <<g.cur, g.cur + code[g.cur].len>> \in noflow'
    BY <1>a, <1>t DEF ExitFrame
  <2> QED
    BY <1>a, <1>f, <2>1, <2>2, ExitKeptAside
\* While the branches of a thunk call are handled after the call itself, the
\* fall-through is suppressed.
<1>s. ASSUME stack # <<>>, Top.phase = "branch", Top.branches # <<>>, Top.cur \in ThunkExits,
             \/ "proc" \notin Branch.flags
             \/ Branch.to = Top.cur + code[Top.cur].len
             \/ Branch.to \notin Exec
      PROVE  <<Top.cur, Top.cur + code[Top.cur].len>> \in noflow
  <2>1. Top.branches # GetBranches(Top.cur)
    BY <1>s, ThunkCallFirst DEF Branch
  <2> QED
    BY <1>s, <1>t, <2>1 DEF ExitFrame
\* Steps that take the last branch of the instruction.
<1>b. ASSUME NEW g \in Frame, stack # <<>>,
             Replaced(g) \/ \E w \in Va : \E known : EntersFrom(g, w, known),
             UNCHANGED <<code, locations, xrefs, noflow>>,
             \A v \in ToSet(g.optodo) : v \in ToSet(Top.optodo) \/ Reason(v),
             Top \in Frame, Top.phase = "branch", Top.branches # <<>>,
             g.cur = Top.cur, g.branches = Front(Top.branches),
             \/ g.phase = "called"
             \/ /\ g.phase = "branch"
                /\ \/ "proc" \notin Branch.flags
                   \/ Branch.to = Top.cur + code[Top.cur].len
                   \/ Branch.to \notin Exec
      PROVE  ExitInv'
  <2>1. Continues(g) /\ \A v : Pushed(g, v) => v \in functions'
    BY <1>b, <1>r, <1>w, EnteringContinues
  <2>2. ToSet(g.branches) \subseteq ToSet(Top.branches)
    BY <1>b, FrontElements DEF Frame
  <2>3. g.phase = "branch" /\ g.cur \in ThunkExits =>
           <<g.cur, g.cur + code[g.cur].len>> \in noflow'
    BY <1>b, <1>s
  <2> QED
    BY <1>b, <1>f, <2>1, <2>2, <2>3, ExitKeptAside
<1>1. CASE SkipAddress
  <2>1. PICK g \in Frame : /\ Replaced(g) /\ Kept(g, {"optodo", "visited"})
                           /\ g.optodo = Front(Top.optodo)
    BY <1>1, SkipAddressEffect
  <2>2. Top \in Frame /\ Top.phase = "flow" /\ Top.optodo # <<>> /\ stack # <<>>
    BY <1>1, <2>1, SkipAddressEffect DEF Replaced
  <2>3. ToSet(g.optodo) \subseteq ToSet(Top.optodo)
    BY <2>1, <2>2, FrontElements DEF Frame
  <2>4. UNCHANGED <<code, locations, xrefs, noflow>>
    BY <1>1 DEF SkipAddress
  <2> QED
    BY <1>a, <2>1, <2>2, <2>3, <2>4
<1>2. CASE DecodeOpcode
  <2>1. PICK va \in Va : va = Last(Top.optodo)
    BY <1>2, DecodeOpcodeEffect
  <2>2. PICK far : /\ far = {b \in ToSet(GetBranches(va)) : b.to # NoVa /\ "fall" \notin b.flags}
                   /\ xrefs' = AddCodeXrefs(xrefs, va, far)
    BY <1>2, <2>1, DecodeOpcodeEffect
  <2>3. /\ Top \in Frame /\ Top.phase = "flow" /\ Top.optodo # <<>> /\ code[va] \in Instruction
        /\ DOMAIN locations' = DOMAIN locations \cup {va} /\ code' = code /\ noflow' = noflow
    BY <1>2, <2>1, DecodeOpcodeEffect DEF DecodeOpcode
  <2>4. PICK g \in Frame :
           /\ Replaced(g) /\ g.optodo = Front(Top.optodo)
           /\ g.cur = va /\ g.branches = GetBranches(va) /\ g.phase = "branch"
    BY <1>2, <2>1, DecodeOpcodeEffect
  <2>5. DOMAIN xrefs' = DOMAIN xrefs \cup {<<va, b.to>> : b \in far}
    BY <2>2 DEF AddCodeXrefs
  <2>6. \A v : Reason(v) => Reason(v)'
    BY <1>f, <2>3, <2>5, ReasonStays
  <2>7. ToSet(Top.optodo) = ToSet(g.optodo) \cup {va}
    BY <2>1, <2>3, <2>4, FrontElements DEF Frame
  <2>8. Reason(va)' /\ \A v \in ToSet(g.optodo) : Reason(v)'
    BY <1>t, <2>4, <2>6, <2>7 DEF ExitFrame, Replaced
  <2>9. ASSUME NEW b \in ToSet(g.branches)
        PROVE  \/ b.to = NoVa \/ "proc" \in b.flags
               \/ <<va, b.to>> \in DOMAIN xrefs' \/ FallsInto(va, b.to)
    <3>1. CASE FallsInto(va, b.to) \/ b.to = NoVa
      BY <3>1
    <3>2. CASE b.to \in Nat /\ "fall" \notin b.flags
      <4>1. b \in far
        BY <2>2, <2>4, <2>9, <3>2, NoVaAssumption
      <4> QED
        BY <2>5, <4>1
    <3> QED
      BY <2>3, <2>4, <2>9, <3>1, <3>2, BranchFacts
  <2>10. GetBranches(va)' = GetBranches(va) /\ \A n : FallsInto(va, n)' <=> FallsInto(va, n)
    BY <2>3 DEF GetBranches, FallsInto, IsFallthrough
  <2>11. ExitFrame(g)'
    BY <2>4, <2>8, <2>9, <2>10 DEF ExitFrame, ToSet
  <2>12. \A v : ~Pushed(g, v)
    BY <1>r, <2>4
  <2> QED
    BY <1>f, <2>3, <2>4, <2>5, <2>8, <2>11, <2>12, ExitKept
<1>3. CASE EndFlow
  BY <1>3, <1>a, EndFlowEffect DEF EndFlow, Replaced
<1>4. CASE BranchesDone
  BY <1>4, <1>a, BranchesDoneEffect DEF BranchesDone, Replaced
<1>5. CASE SkipBranch
  <2>1. UNCHANGED <<code, locations, xrefs, noflow>> /\ stack # <<>>
    BY <1>5 DEF SkipBranch, Branching, InPhase
  <2>2. \/ "proc" \notin Branch.flags \/ Branch.to = Top.cur + code[Top.cur].len
        \/ Branch.to \notin Exec
    <3>1. Branch.to = NoVa \/ Branch.to \notin Exec \/ <<Top.cur, Branch.to>> \in noflow
      BY <1>5 DEF SkipBranch, Followed
    <3>2. ASSUME <<Top.cur, Branch.to>> \in noflow PROVE Branch.to = Top.cur + code[Top.cur].len
      BY <3>2 DEF EdgeInv
    <3> QED
      BY <3>1, <3>2, IndirectNotExec
  <2> QED
    BY <1>5, <1>b, <2>1, <2>2, SkipBranchEffect
<1>6. CASE CallBranch
  <2>1. PICK g \in Frame :
           /\ Kept(g, {"branches", "phase", "deferred"}) /\ g.branches = Front(Top.branches)
           /\ g.phase = IF Branch.to = NextVa THEN "branch" ELSE "called"
           /\ Replaced(g) \/ EntersFrom(g, Branch.to, functions)
    BY <1>6, CallBranchEffect
  <2>2. /\ Top \in Frame /\ Top.phase = "branch" /\ Top.branches # <<>> /\ Branch.to \in Va
        /\ stack # <<>> /\ UNCHANGED <<code, locations, xrefs, noflow>>
    BY <1>6, CallBranchEffect DEF CallBranch, Followed, Branching, InPhase
  <2> QED
    BY <1>b, <2>1, <2>2 DEF NextVa
<1>7. CASE AfterCall
  <2>1. PICK g \in Frame : Replaced(g) /\ Kept(g, {"phase"}) /\ g.phase = "branch"
    BY <1>7, AfterCallEffect
  <2>2. Top.phase = "called" /\ UNCHANGED <<code, locations, xrefs>> /\ noflow \subseteq noflow'
    BY <1>7, AfterCallEffect DEF AfterCall
  <2>3. Top.cur \in ThunkExits => <<Top.cur, Top.cur + code[Top.cur].len>> \in noflow'
    BY <1>7 DEF AfterCall, NextVa, ThunkExits, IsNoReturnCall
  <2>4. \A v : ~Pushed(g, v)
    BY <1>r, <2>1
  <2> QED
    BY <1>f, <2>1, <2>2, <2>3, <2>4, ExitKeptAside
<1>8. CASE TailBranch
  <2>1. /\ "proc" \notin Branch.flags /\ UNCHANGED <<code, locations, xrefs, noflow>>
        /\ stack # <<>>
    BY <1>8 DEF TailBranch, Followed, Branching, InPhase
  <2> QED
    BY <1>8, <1>b, <2>1, TailBranchEffect
<1>9. CASE FlowBranch
  <2>1. PICK g \in Frame : /\ Replaced(g) /\ Kept(g, {"optodo", "branches"})
                           /\ g.branches = Front(Top.branches)
                           /\ g.optodo \in {Top.optodo, Append(Top.optodo, Branch.to)}
    BY <1>9, FlowBranchEffect
  <2>2. /\ Top \in Frame /\ Top.phase = "branch" /\ Top.branches # <<>> /\ Branch.to \in Va
        /\ stack # <<>> /\ UNCHANGED <<code, locations, xrefs, noflow>>
    BY <1>9, <2>1, FlowBranchEffect DEF FlowBranch, Replaced
  <2>3. /\ Branch.to # NoVa /\ "proc" \notin Branch.flags
        /\ <<Top.cur, Branch.to>> \notin noflow
    BY <1>9 DEF FlowBranch, Followed
  <2>4. Reason(Branch.to)
    <3>1. Branch \in ToSet(Top.branches)
      BY <2>2, FrontElements DEF Frame, Branch
    <3>2. <<Top.cur, Branch.to>> \in DOMAIN xrefs \/ FallsInto(Top.cur, Branch.to)
      BY <1>t, <2>2, <2>3, <3>1 DEF ExitFrame
    <3>3. CASE <<Top.cur, Branch.to>> \in DOMAIN xrefs
      BY <3>3 DEF Reason, HasCodeXrefTo
    <3>4. CASE FallsInto(Top.cur, Branch.to)
      <4>1. Top.cur \notin ThunkExits
        BY <1>s, <2>2, <2>3, <3>4 DEF FallsInto
      <4>2. Top.cur \in DOMAIN locations
        BY <2>2, TopInsn
      <4> QED
        BY <3>4, <4>1, <4>2 DEF Reason
    <3> QED
      BY <3>2, <3>3, <3>4
  <2>5. ToSet(Append(Top.optodo, Branch.to)) = ToSet(Top.optodo) \cup {Branch.to}
    BY <2>2, AppendElements DEF Frame
  <2> QED
    BY <1>b, <2>1, <2>2, <2>3, <2>4, <2>5
<1>10. ASSUME NEW jt \in JumpTables, ResolveJumpTable(jt) PROVE ExitInv'
  <2>1. PICK va, brs : /\ va = Top.cur /\ brs = ToSet(CaseBranches(jt))
                       /\ xrefs' = AddCodeXrefs(xrefs, va, brs)
    BY <1>10, ResolveJumpTableEffect
  <2>2. PICK g \in Frame : /\ Replaced(g) /\ Kept(g, {"branches", "data"})
                           /\ g.branches = Front(Top.branches) \o CaseBranches(jt)
    BY <1>10, ResolveJumpTableEffect
  <2>3. /\ Top \in Frame /\ Top.phase = "branch" /\ Top.branches # <<>> /\ code[va].kind = "jump"
        /\ CaseBranches(jt) \in Seq(BranchRec) /\ stack # <<>>
        /\ UNCHANGED <<code, noflow, locations, functions>>
    BY <1>10, <2>1, <2>2, ResolveJumpTableEffect DEF Replaced, ResolveJumpTable
  <2>4. /\ ToSet(Top.branches) = ToSet(Front(Top.branches)) \cup {Branch}
        /\ ToSet(g.branches) = ToSet(Front(Top.branches)) \cup brs
    <3>1. Top.branches \in Seq(BranchRec) /\ Front(Top.branches) \in Seq(BranchRec)
      BY <2>3, ListType DEF Frame
    <3> QED
      BY <2>1, <2>2, <2>3, <3>1, FrontElements, ConcatElements DEF Branch
  <2>5. DOMAIN xrefs' = DOMAIN xrefs \cup {<<va, b.to>> : b \in brs}
    BY <2>1 DEF AddCodeXrefs
  <2>6. \A v \in ToSet(g.optodo) : Reason(v)'
    BY <1>t, <2>2, <2>3, <2>5, ReasonStays DEF ExitFrame
  <2>7. \A b \in ToSet(g.branches) :
           \/ b.to = NoVa \/ "proc" \in b.flags
           \/ <<va, b.to>> \in DOMAIN xrefs' \/ FallsInto(va, b.to)
    BY <1>t, <2>1, <2>3, <2>4, <2>5 DEF ExitFrame
  <2>8. va \notin ThunkExits' /\ \A n : FallsInto(va, n)' <=> FallsInto(va, n)
    BY <2>3 DEF ThunkExits, FallsInto, IsFallthrough
  <2>9. g.cur = va /\ g.phase = "branch"
    BY <2>1, <2>2, <2>3
  <2>10. ExitFrame(g)'
    BY <2>6, <2>7, <2>8, <2>9 DEF ExitFrame, ToSet
  <2>11. \A v : ~Pushed(g, v)
    BY <1>r, <2>2
  <2> QED
    BY <2>2, <2>3, <2>5, <2>10, <2>11, ExitKept
<1>11. CASE DrainDeferred
  <2>1. PICK w \in Va, g \in Frame : /\ Kept(g, {"todo"})
                                     /\ Replaced(g) \/ EntersFrom(g, w, functions)
    BY <1>11, DrainDeferredEffect
  <2>2. stack # <<>> /\ UNCHANGED <<code, locations, xrefs, noflow>>
    BY <1>11 DEF DrainDeferred, Draining, InPhase
  <2> QED
    BY <1>a, <2>1, <2>2
<1>12. CASE StartBlocked
  BY <1>12, <1>a, StartBlockedEffect DEF StartBlocked, Replaced
<1>13. CASE DrainBlocked
  <2>1. PICK w \in Va, g \in Frame : /\ Kept(g, {"todo", "still"})
                                     /\ Replaced(g) \/ EntersFrom(g, w, functions \ {w})
    BY <1>13, DrainBlockedEffect
  <2>2. stack # <<>> /\ UNCHANGED <<code, locations, xrefs, noflow>>
    BY <1>13 DEF DrainBlocked, Draining, InPhase
  <2> QED
    BY <1>a, <2>1, <2>2
<1>p. ASSUME Popped, UNCHANGED <<code, locations, xrefs, noflow, functions>> PROVE ExitInv'
  <2>1. \A i \in DOMAIN stack' : i \in DOMAIN stack /\ stack'[i] = stack[i]
    BY <1>p, PoppedFrames
  <2>2. ASSUME NEW i \in DOMAIN stack', NEW f, f = stack'[i] PROVE ExitFrame(f)'
    <3>1. ExitFrame(f)
      BY <2>1, <2>2 DEF ExitInv
    <3> QED
      BY <1>p, <3>1, ExitUnchanged
  <2>3. \A v : Reason(v) => Reason(v)'
    BY <1>p, ReasonStays
  <2> QED
    BY <1>p, <2>2, <2>3 DEF ExitInv
<1>14. CASE FinishFlow
  <2>1. UNCHANGED <<code, locations, xrefs, noflow, functions>> /\ stack # <<>>
    BY <1>14 DEF FinishFlow, InPhase
  <2>2. CASE Popped
    BY <1>p, <2>1, <2>2
  <2>3. ASSUME NEW g \in Frame, Replaced(g), Kept(g, {"phase"}), g.phase = "report" PROVE ExitInv'
    BY <1>a, <2>1, <2>3
  <2> QED
    BY <1>14, <2>2, <2>3, FinishFlowEffect
<1>15. CASE Report
  BY <1>15, <1>a, ReportEffect DEF Report, Replaced
<1>16. CASE MakeLocalName
  <2>1. PICK w \in Va, g \in Frame : /\ Kept(g, {"names"})
                                     /\ Replaced(g) \/ EntersFrom(g, w, functions)
    BY <1>16, MakeLocalNameEffect
  <2>2. stack # <<>> /\ UNCHANGED <<code, locations, xrefs, noflow>>
    BY <1>16 DEF MakeLocalName
  <2> QED
    BY <1>a, <2>1, <2>2
<1>17. CASE Release
  BY <1>17, <1>a, ReleaseEffect DEF Release, Replaced
<1>18. CASE Return
  BY <1>18, <1>p, ReturnEffect DEF Return
<1>19. ASSUME NEW waiter \in Va, ReportFreed(waiter) PROVE ExitInv'
  BY <1>19, <1>a, ReportFreedEffect DEF ReportFreed, Replaced
<1>20. ASSUME NEW w \in Seeds, MakeFunction(w) PROVE ExitInv'
  <2>1. /\ UNCHANGED <<code, locations, xrefs, noflow>> /\ functions' = functions \cup {w}
        /\ \A i \in DOMAIN stack' : stack'[i] = NewFrame(w)
    BY <1>20, MakeFunctionEffect DEF MakeFunction
  <2>2. \A v : Reason(v) => Reason(v)'
    BY <2>1, ReasonStays
  <2>3. PICK f : f = NewFrame(w)
    OBVIOUS
  <2>4. ToSet(f.optodo) = {w} /\ f.phase = "flow"
    BY <2>3 DEF NewFrame, ToSet
  <2>5. Reason(w)'
    BY <2>1 DEF Reason
  <2>6. ExitFrame(f)'
    BY <2>4, <2>5 DEF ExitFrame, ToSet
  <2> QED
    BY <2>1, <2>2, <2>3, <2>6 DEF ExitInv
<1>21. CASE UNCHANGED vars
  <2>1. UNCHANGED <<code, locations, xrefs, noflow, functions, stack>>
    BY <1>21 DEF vars
  <2>2. ASSUME NEW i \in DOMAIN stack', NEW f, f = stack'[i] PROVE ExitFrame(f)'
    <3>1. ExitFrame(f)
      BY <2>1, <2>2 DEF ExitInv
    <3> QED
      BY <2>1, <3>1, ExitUnchanged
  <2>3. \A v : Reason(v) => Reason(v)'
    BY <2>1, ReasonStays
  <2> QED
    BY <2>1, <2>2, <2>3 DEF ExitInv
<1> QED
  BY <1>1, <1>2, <1>3, <1>4, <1>5, <1>6, <1>7, <1>8, <1>9, <1>10, <1>11, <1>12, <1>13, <1>14,
     <1>15, <1>16, <1>17, <1>18, <1>19, <1>20, <1>21 DEF Next, Step

\* No phantom code is decoded behind a direct call of a no-return import's
\* thunk: for every image, seed order, jump-table answer, FLIRT match and
\* setting of the caps, whether the thunk was entered, deferred or abandoned.
THEOREM ExitsSuppressed == Spec => []DirectExitSuppressed
<1>1. Init => InsnInv /\ EdgeInv /\ KnownInv /\ ExitInv
  <2> SUFFICES ASSUME Init PROVE InsnInv /\ EdgeInv /\ KnownInv /\ ExitInv
    OBVIOUS
  <2>1. Cardinality(functions) <= MaxFunctions
    BY FS_EmptySet, CodeFlowAssumption DEF Init
  <2> QED
    BY <2>1 DEF Init, InsnInv, EdgeInv, KnownInv, ExitInv, EmptyDb, ToSet, IsInjective
<1>2. ExitInv => DirectExitSuppressed
  BY DEF ExitInv, DirectExitSuppressed, Reason
<1>3. TypeInv /\ KnownInv /\ [Next]_vars => KnownInv'
  BY KnownStep
<1> QED
  BY <1>1, <1>2, <1>3, CodeFlowTypes, InsnStep, EdgeStep, ExitStep, PTL DEF Spec


-----------------------------------------------------------------------------
(***************************************************************************)
(* The blocked list names each function once.                              *)
(***************************************************************************)

\* A list of decoded addresses, each once.
Queue(list, db) == IsInjective(list) /\ ToSet(list) \subseteq DOMAIN db

\* The snapshot a frame drains and what it leaves blocked are such lists, and
\* share nothing, so that the blocked list they become is one.
QueueFrame(f, db) ==
    /\ f.names = <<>>
    /\ f.phase \in {"flow", "branch", "called", "drain"} => f.still = <<>>
    /\ f.phase = "blocked" =>
           Queue(f.todo, db) /\ Queue(f.still, db) /\ ToSet(f.todo) \cap ToSet(f.still) = {}

QueueInv ==
    /\ Queue(blocked_recursion, locations)
    /\ \A i \in DOMAIN stack : QueueFrame(stack[i], locations)

LEMMA AppendQueue ==
  ASSUME NEW S, NEW list \in Seq(S), NEW va \in S, IsInjective(list), va \notin ToSet(list)
  PROVE  IsInjective(Append(list, va))
<1>1. PICK t : t = Append(list, va)
  OBVIOUS
<1>2. \A k \in DOMAIN list : list[k] # va
  BY DEF ToSet
<1>3. DOMAIN t = 1 .. (Len(list) + 1) /\ DOMAIN list = 1 .. Len(list)
  BY <1>1
<1>4. \A k \in DOMAIN t : \/ k \in DOMAIN list /\ t[k] = list[k]
                          \/ k = Len(list) + 1 /\ t[k] = va
  BY <1>1, <1>3
<1>5. IsInjective(t)
  BY <1>2, <1>4 DEF IsInjective
<1> QED
  BY <1>1, <1>5

LEMMA PushUniqueQueue ==
  ASSUME NEW S, NEW list \in Seq(S), NEW va \in S, IsInjective(list)
  PROVE  IsInjective(PushUnique(list, va))
<1>1. CASE Contains(list, va)
  BY <1>1 DEF PushUnique
<1>2. CASE ~Contains(list, va)
  <2>1. va \notin ToSet(list)
    BY <1>2 DEF Contains, ToSet
  <2> QED
    BY <1>2, <2>1, AppendQueue DEF PushUnique
<1> QED
  BY <1>1, <1>2

LEMMA TailQueue ==
  ASSUME NEW S, NEW list \in Seq(S), list # <<>>, IsInjective(list)
  PROVE  IsInjective(Tail(list)) /\ Head(list) \notin ToSet(Tail(list))
<1>1. PICK t : t = Tail(list)
  OBVIOUS
<1>2. Len(list) \in Nat \ {0} /\ DOMAIN list = 1 .. Len(list) /\ Head(list) = list[1]
  OBVIOUS
<1>3. DOMAIN t = 1 .. (Len(list) - 1) /\ \A i \in 1 .. (Len(list) - 1) : t[i] = list[i + 1]
  BY <1>1, <1>2
<1>4. \A i \in DOMAIN t : t[i] = list[i + 1] /\ i + 1 \in DOMAIN list /\ i + 1 # 1 /\ i \in Int
  BY <1>2, <1>3
<1>5. IsInjective(t)
  <2> SUFFICES ASSUME NEW i \in DOMAIN t, NEW j \in DOMAIN t, t[i] = t[j] PROVE i = j
    BY DEF IsInjective
  <2>1. i + 1 = j + 1
    BY <1>4 DEF IsInjective
  <2> QED
    BY <1>4, <2>1
<1>6. \A i \in DOMAIN t : t[i] # list[1]
  BY <1>2, <1>4 DEF IsInjective
<1> QED
  BY <1>1, <1>2, <1>5, <1>6 DEF ToSet

LEMMA ConcatIndices ==
  ASSUME NEW S, NEW p \in Seq(S), NEW q \in Seq(S)
  PROVE  /\ DOMAIN (p \o q) = 1 .. (Len(p) + Len(q))
         /\ \A i \in 1 .. (Len(p) + Len(q)) :
                (p \o q)[i] = IF i <= Len(p) THEN p[i] ELSE q[i - Len(p)]
<1>1. PICK m \in Nat, n \in Nat : m = Len(p) /\ n = Len(q)
  OBVIOUS
<1>2. p \o q \in Seq(S) /\ Len(p \o q) = Len(p) + Len(q)
  OBVIOUS
<1>3. DOMAIN (p \o q) = 1 .. (Len(p) + Len(q))
  BY <1>2
<1>4. ASSUME NEW i \in 1 .. (Len(p) + Len(q))
      PROVE  (p \o q)[i] = IF i <= Len(p) THEN p[i] ELSE q[i - Len(p)]
  <2>1. CASE i <= Len(p)
    BY <1>1, <2>1
  <2>2. CASE i > Len(p)
    BY <1>1, <2>2
  <2> QED
    BY <1>1, <2>1, <2>2
<1> QED
  BY <1>3, <1>4

\* Erasing a function from the blocked list leaves nothing of it.
LEMMA RemoveFirstQueue ==
  ASSUME NEW S, NEW list \in Seq(S), NEW va, IsInjective(list)
  PROVE  IsInjective(RemoveFirst(list, va)) /\ va \notin ToSet(RemoveFirst(list, va))
<1> DEFINE I == {i \in 1 .. Len(list) : list[i] = va}
<1>1. CASE I = {}
  <2>1. RemoveFirst(list, va) = list
    BY <1>1 DEF RemoveFirst
  <2>2. va \notin ToSet(list)
    BY <1>1 DEF ToSet
  <2> QED
    BY <2>1, <2>2
<1>2. CASE I # {}
  <2>1. PICK at \in I : at = Min(I)
    <3>1. \E x \in I : \A y \in I : x =< y
      <4>1. I \subseteq Nat
        OBVIOUS
      <4> QED
        BY <1>2, <4>1, LeastNatural
    <3> QED
      BY <3>1 DEF Min
  <2>2. RemoveFirst(list, va) = SubSeq(list, 1, at - 1) \o SubSeq(list, at + 1, Len(list))
    BY <1>2, <2>1 DEF RemoveFirst, RemoveAt, SelectInSeq
  <2>3. PICK n \in Nat : n = Len(list) /\ DOMAIN list = 1 .. n /\ at \in 1 .. n
    OBVIOUS
  <2>4. SubSeq(list, 1, at - 1) \in Seq(S) /\ SubSeq(list, at + 1, n) \in Seq(S)
    BY <2>3, SubSeqElements
  <2>5. PICK p \in Seq(S), q \in Seq(S) :
           p = SubSeq(list, 1, at - 1) /\ q = SubSeq(list, at + 1, n)
    BY <2>4
  <2>6. Len(p) = at - 1 /\ \A i \in 1 .. (at - 1) : p[i] = list[i]
    BY <2>3, <2>5
  <2>7. Len(q) = n - at /\ \A i \in 1 .. (n - at) : q[i] = list[i + at]
    BY <2>3, <2>5
  <2>8. PICK r : r = p \o q /\ r = RemoveFirst(list, va)
    BY <2>2, <2>3, <2>5
  <2>9. /\ DOMAIN r = 1 .. (n - 1)
        /\ \A i \in DOMAIN r : r[i] = IF i < at THEN list[i] ELSE list[i + 1]
    <3>1. /\ DOMAIN r = 1 .. (Len(p) + Len(q))
          /\ \A i \in 1 .. (Len(p) + Len(q)) : r[i] = IF i <= Len(p) THEN p[i] ELSE q[i - Len(p)]
      BY <2>8, ConcatIndices
    <3>2. Len(p) + Len(q) = n - 1
      BY <2>3, <2>6, <2>7
    <3>3. ASSUME NEW i \in 1 .. (n - 1) PROVE r[i] = IF i < at THEN list[i] ELSE list[i + 1]
      <4>1. CASE i < at
        BY <2>3, <2>6, <3>1, <3>2, <4>1
      <4>2. CASE i >= at
        <5>1. r[i] = q[i - (at - 1)] /\ i - (at - 1) \in 1 .. (n - at)
          BY <2>3, <2>6, <3>1, <3>2, <4>2
        <5>2. q[i - (at - 1)] = list[(i - (at - 1)) + at]
          BY <2>7, <5>1
        <5>3. (i - (at - 1)) + at = i + 1
          BY <2>3
        <5> QED
          BY <2>3, <4>2, <5>1, <5>2, <5>3
      <4> QED
        BY <2>3, <4>1, <4>2
    <3> QED
      BY <3>1, <3>2, <3>3
  <2>10. IsInjective(r)
    <3> SUFFICES ASSUME NEW i \in DOMAIN r, NEW j \in DOMAIN r, r[i] = r[j] PROVE i = j
      BY DEF IsInjective
    <3>1. PICK a \in DOMAIN list, b \in DOMAIN list :
             /\ a = (IF i < at THEN i ELSE i + 1) /\ b = (IF j < at THEN j ELSE j + 1)
             /\ r[i] = list[a] /\ r[j] = list[b]
      BY <2>3, <2>9
    <3>2. a = b
      BY <3>1 DEF IsInjective
    <3> QED
      BY <2>3, <2>9, <3>1, <3>2
  <2>11. \A i \in DOMAIN r : r[i] # va
    <3> SUFFICES ASSUME NEW i \in DOMAIN r, r[i] = va PROVE FALSE
      OBVIOUS
    <3>1. PICK a \in DOMAIN list : a = (IF i < at THEN i ELSE i + 1) /\ r[i] = list[a]
      BY <2>3, <2>9
    <3>2. a = at
      BY <2>1, <2>3, <3>1 DEF IsInjective
    <3> QED
      BY <2>3, <2>9, <3>1, <3>2
  <2> QED
    BY <2>8, <2>10, <2>11 DEF ToSet
<1> QED
  BY <1>1, <1>2

\* More is decoded: a queue stays one.
LEMMA QueueGrows ==
  ASSUME NEW f, NEW db, NEW more, DOMAIN db \subseteq DOMAIN more, QueueFrame(f, db)
  PROVE  QueueFrame(f, more)
BY DEF QueueFrame, Queue

LEMMA QueueKept ==
  ASSUME TypeInv, QueueInv, NEW g, Continues(g), QueueFrame(g, locations'),
         DOMAIN locations \subseteq DOMAIN locations', Queue(blocked_recursion', locations')
  PROVE  QueueInv'
<1>1. ASSUME NEW i \in DOMAIN stack' PROVE QueueFrame(stack'[i], locations')
  <2>1. CASE i \in DOMAIN stack /\ stack'[i] = stack[i]
    BY <2>1, QueueGrows DEF QueueInv
  <2>2. CASE stack'[i] = g
    BY <2>2
  <2>3. ASSUME NEW w, stack'[i] = NewFrame(w) PROVE QueueFrame(stack'[i], locations')
    BY <2>3 DEF QueueFrame, NewFrame
  <2> QED
    BY <2>1, <2>2, <2>3, StackAfter
<1> QED
  BY <1>1 DEF QueueInv

\* FLIRT names nothing: the frame that reports a function has no names to make.
LEMMA NoNames ==
  ASSUME \A f \in Va : LocalNames[f] = <<>>,
         TypeInv, stack # <<>>, NEW va \in Va, NEW f \in Frame, f.names = <<>>, OnFunction(va, f),
         NEW g, Replaced(g)
  PROVE  g.names = <<>>
<1>1. stack' = Become(f) \/ stack' = Become([f EXCEPT !.names = LocalNames[va]])
  BY DEF OnFunction
<1>2. ASSUME NEW h, stack' = Become(h) PROVE g = h
  <2>1. Len(stack) \in DOMAIN stack /\ stack'[Len(stack)] = g
    BY TopType DEF Replaced, TypeInv
  <2> QED
    BY <1>2, <2>1 DEF Become
<1>3. [f EXCEPT !.names = <<>>].names = <<>>
  BY DEF Frame
<1> QED
  BY <1>1, <1>2, <1>3

LEMMA QueueStep ==
  ASSUME \A f \in Va : LocalNames[f] = <<>>
  PROVE  TypeInv /\ KnownInv /\ PathInv /\ QueueInv /\ [Next]_vars => QueueInv'
<1> SUFFICES ASSUME TypeInv, KnownInv, PathInv, QueueInv, [Next]_vars PROVE QueueInv'
  OBVIOUS
<1> USE DEF Kept, Fields, deferralVars, discoveryVars
<1>t. ASSUME stack # <<>> PROVE Top \in Frame /\ QueueFrame(Top, locations)
  <2>1. Len(stack) \in DOMAIN stack /\ stack[Len(stack)] = Top /\ Top \in Frame
    BY <1>t, TopType DEF TypeInv
  <2> QED
    BY <2>1 DEF QueueInv
\* Steps that leave the blocked list alone.
<1>a. ASSUME NEW g, Continues(g), UNCHANGED <<blocked_recursion, locations>>,
             QueueFrame(g, locations)
      PROVE  QueueInv'
  BY <1>a, QueueKept DEF QueueInv
\* Steps within the flow of a function.
<1>b. ASSUME NEW g, Continues(g), UNCHANGED <<blocked_recursion, locations>>,
             Top.phase \in {"flow", "branch", "called"},
             g.phase \in {"flow", "branch", "called", "drain"},
             g.names = Top.names, g.still = Top.still
      PROVE  QueueInv'
  <2>1. stack # <<>>
    BY <1>b, StackAfter
  <2>2. QueueFrame(g, locations)
    BY <1>b, <1>t, <2>1 DEF QueueFrame
  <2> QED
    BY <1>a, <1>b, <2>2
\* Steps of the report.
<1>c. ASSUME NEW g, Replaced(g), UNCHANGED <<blocked_recursion, locations>>,
             g.phase \in {"report", "release", "freed"}, g.names = <<>>
      PROVE  QueueInv'
  <2>1. QueueFrame(g, locations)
    BY <1>c DEF QueueFrame
  <2> QED
    BY <1>a, <1>c, <2>1 DEF Continues
<1>p. ASSUME Popped, UNCHANGED locations, Queue(blocked_recursion', locations) PROVE QueueInv'
  <2>1. \A i \in DOMAIN stack' : i \in DOMAIN stack /\ stack'[i] = stack[i]
    BY <1>p, PoppedFrames
  <2>2. \A i \in DOMAIN stack' : QueueFrame(stack'[i], locations')
    BY <1>p, <2>1 DEF QueueInv
  <2> QED
    BY <1>p, <2>2 DEF QueueInv
<1>1. CASE SkipAddress
  BY <1>1, <1>b, SkipAddressEffect DEF SkipAddress, Continues
<1>2. CASE DecodeOpcode
  <2>1. PICK g \in Frame : /\ Replaced(g) /\ g.phase = "branch" /\ g.names = Top.names
                           /\ g.still = Top.still /\ Top.phase = "flow"
    BY <1>2, DecodeOpcodeEffect
  <2>2. DOMAIN locations \subseteq DOMAIN locations' /\ UNCHANGED blocked_recursion
    BY <1>2, DecodeOpcodeEffect DEF DecodeOpcode
  <2>3. QueueFrame(g, locations')
    BY <1>t, <2>1 DEF QueueFrame, Replaced
  <2>4. Queue(blocked_recursion', locations')
    BY <2>2 DEF QueueInv, Queue
  <2> QED
    BY <2>1, <2>2, <2>3, <2>4, QueueKept DEF Continues
<1>3. CASE EndFlow
  BY <1>3, <1>b, EndFlowEffect DEF EndFlow, Continues
<1>4. CASE BranchesDone
  BY <1>4, <1>b, BranchesDoneEffect DEF BranchesDone, Continues
<1>5. CASE SkipBranch
  BY <1>5, <1>b, SkipBranchEffect DEF SkipBranch, Continues
<1>6. CASE CallBranch
  <2>1. PICK g \in Frame :
           /\ g.phase \in {"branch", "called"} /\ g.names = Top.names /\ g.still = Top.still
           /\ Replaced(g) \/ EntersFrom(g, Branch.to, functions)
    BY <1>6, CallBranchEffect
  <2>2. Top.phase = "branch" /\ Branch.to \in Va
    BY <1>6, CallBranchEffect
  <2>3. Continues(g)
    BY <2>1, <2>2, EnteringContinues DEF Continues
  <2> QED
    BY <1>6, <1>b, <2>1, <2>2, <2>3 DEF CallBranch
<1>7. CASE AfterCall
  BY <1>7, <1>b, AfterCallEffect DEF AfterCall, Continues
<1>8. CASE TailBranch
  BY <1>8, <1>b, TailBranchEffect DEF TailBranch, Continues
<1>9. CASE FlowBranch
  BY <1>9, <1>b, FlowBranchEffect DEF FlowBranch, Continues
<1>10. ASSUME NEW jt \in JumpTables, ResolveJumpTable(jt) PROVE QueueInv'
  BY <1>10, <1>b, ResolveJumpTableEffect DEF ResolveJumpTable, Continues
<1>11. CASE DrainDeferred
  <2>1. PICK w \in Va : w = Head(Top.todo)
    BY <1>11, DrainDeferredEffect
  <2>2. PICK g \in Frame : /\ Kept(g, {"todo"})
                           /\ Replaced(g) \/ EntersFrom(g, w, functions)
    BY <1>11, <2>1, DrainDeferredEffect
  <2>3. Top.phase = "drain" /\ stack # <<>> /\ UNCHANGED locations
    BY <1>11, DrainDeferredEffect DEF DrainDeferred, Draining, InPhase
  <2>4. QueueFrame(g, locations')
    BY <1>t, <2>2, <2>3 DEF QueueFrame
  <2>5. Queue(blocked_recursion', locations')
    <3>1. CASE blocked_recursion' = blocked_recursion
      BY <2>3, <3>1 DEF QueueInv
    <3>2. CASE OnActivePath(w) /\ blocked_recursion' = PushUnique(blocked_recursion, w)
      <4>1. w \in DOMAIN locations
        BY <2>3, <3>2, PathDecoded DEF InPhase
      <4>2. ToSet(blocked_recursion') = ToSet(blocked_recursion) \cup {w}
        BY <3>2, PushUniqueFacts DEF TypeInv
      <4>3. IsInjective(blocked_recursion')
        BY <3>2, PushUniqueQueue DEF TypeInv, QueueInv, Queue
      <4> QED
        BY <2>3, <4>1, <4>2, <4>3 DEF QueueInv, Queue
    <3> QED
      BY <1>11, <2>1, <3>1, <3>2 DEF DrainDeferred
  <2>6. Continues(g)
    BY <2>2, EnteringContinues DEF Continues
  <2> QED
    BY <2>3, <2>4, <2>5, <2>6, QueueKept
<1>12. CASE StartBlocked
  <2>1. PICK g \in Frame : /\ Replaced(g) /\ Kept(g, {"phase", "todo"})
                           /\ g.phase = "blocked" /\ g.todo = blocked_recursion
    BY <1>12, StartBlockedEffect
  <2>2. Top.phase = "drain" /\ stack # <<>> /\ UNCHANGED <<blocked_recursion, locations>>
    BY <1>12, StartBlockedEffect DEF StartBlocked, InPhase
  <2>3. g.still = <<>> /\ g.names = <<>>
    BY <1>t, <2>1, <2>2 DEF QueueFrame
  <2>4. ToSet(g.still) = {} /\ IsInjective(g.still)
    BY <2>3 DEF ToSet, IsInjective
  <2>5. QueueFrame(g, locations)
    BY <2>1, <2>3, <2>4 DEF QueueFrame, Queue, QueueInv
  <2> QED
    BY <1>a, <2>1, <2>2, <2>5 DEF Continues
<1>13. CASE DrainBlocked
  <2>1. PICK w \in Va : w = Head(Top.todo)
    BY <1>13, DrainBlockedEffect
  <2>2. PICK g \in Frame :
           /\ Kept(g, {"todo", "still"}) /\ g.todo = Tail(Top.todo)
           /\ \/ /\ g.still = Top.still /\ EntersFrom(g, w, functions \ {w})
                 /\ blocked_recursion' = RemoveFirst(blocked_recursion, w)
              \/ /\ g.still = Append(Top.still, w)
                 /\ Replaced(g) /\ blocked_recursion' = blocked_recursion
    BY <1>13, <2>1, DrainBlockedEffect
  <2>3. /\ Top \in Frame /\ Top.phase = "blocked" /\ Top.todo # <<>> /\ stack # <<>>
        /\ UNCHANGED locations
    BY <1>13, DrainBlockedEffect DEF DrainBlocked, Draining, InPhase
  <2>4. /\ Top.names = <<>> /\ Queue(Top.todo, locations) /\ Queue(Top.still, locations)
        /\ ToSet(Top.todo) \cap ToSet(Top.still) = {}
    BY <1>t, <2>3 DEF QueueFrame
  <2>5. Top.todo \in Seq(Va) /\ Top.still \in Seq(Va)
    BY <2>3 DEF Frame
  <2>6. ToSet(Top.todo) = ToSet(g.todo) \cup {w} /\ IsInjective(g.todo) /\ w \notin ToSet(g.todo)
    BY <2>1, <2>2, <2>3, <2>4, <2>5, TailElements, TailQueue DEF Queue
  <2>7. Queue(g.todo, locations) /\ w \in DOMAIN locations
    BY <2>4, <2>6 DEF Queue
  <2>8. Queue(g.still, locations) /\ ToSet(g.todo) \cap ToSet(g.still) = {}
    <3>1. CASE g.still = Top.still
      BY <2>4, <2>6, <3>1
    <3>2. CASE g.still = Append(Top.still, w)
      <4>1. w \notin ToSet(Top.still)
        BY <2>4, <2>6
      <4>2. ToSet(g.still) = ToSet(Top.still) \cup {w}
        BY <2>5, <3>2, AppendElements
      <4>3. IsInjective(g.still)
        BY <2>4, <2>5, <3>2, <4>1, AppendQueue DEF Queue
      <4> QED
        BY <2>4, <2>6, <2>7, <4>2, <4>3 DEF Queue
    <3> QED
      BY <2>2, <3>1, <3>2
  <2>9. QueueFrame(g, locations')
    BY <2>2, <2>3, <2>4, <2>7, <2>8 DEF QueueFrame
  <2>10. Queue(blocked_recursion', locations')
    <3>1. /\ ToSet(RemoveFirst(blocked_recursion, w)) \subseteq ToSet(blocked_recursion)
          /\ IsInjective(RemoveFirst(blocked_recursion, w))
      BY RemoveFirstFacts, RemoveFirstQueue DEF TypeInv, QueueInv, Queue
    <3> QED
      BY <2>2, <2>3, <3>1 DEF QueueInv, Queue
  <2>11. Continues(g)
    BY <2>2, EnteringContinues DEF Continues
  <2> QED
    BY <2>3, <2>9, <2>10, <2>11, QueueKept
<1>14. CASE FinishFlow
  <2>1. /\ blocked_recursion' = Top.still /\ UNCHANGED locations
        /\ stack # <<>> /\ Top.phase = "blocked"
    BY <1>14 DEF FinishFlow, InPhase
  <2>2. Queue(Top.still, locations) /\ Top.names = <<>>
    BY <1>t, <2>1 DEF QueueFrame
  <2>3. CASE Popped
    BY <1>p, <2>1, <2>2, <2>3
  <2>4. ASSUME NEW g \in Frame, Replaced(g), Kept(g, {"phase"}), g.phase = "report" PROVE QueueInv'
    <3>1. QueueFrame(g, locations')
      BY <2>2, <2>4 DEF QueueFrame
    <3> QED
      BY <2>1, <2>2, <2>4, <3>1, QueueKept DEF Continues
  <2> QED
    BY <1>14, <2>3, <2>4, FinishFlowEffect
<1>15. CASE Report
  <2>1. /\ stack # <<>> /\ Top \in Frame /\ Top.va \in Va /\ Top.names = <<>>
        /\ UNCHANGED <<blocked_recursion, locations>>
    BY <1>15, <1>t DEF Report, InPhase, Frame, QueueFrame
  <2>2. PICK h : h = [Top EXCEPT !.phase = "release"]
    OBVIOUS
  <2>3. h \in Frame /\ h.names = <<>> /\ OnFunction(Top.va, h)
    BY <1>15, <2>1, <2>2 DEF Report, Frame, Phases
  <2>4. PICK g \in Frame : Replaced(g) /\ g.phase = "release"
    BY <1>15, ReportEffect
  <2>5. g.names = <<>>
    BY <2>1, <2>3, <2>4, NoNames
  <2> QED
    BY <1>c, <2>1, <2>4, <2>5
<1>16. CASE MakeLocalName
  BY <1>16, <1>t DEF MakeLocalName, QueueFrame
<1>17. CASE Release
  <2>1. PICK g \in Frame : Replaced(g) /\ g.phase = "freed" /\ g.names = Top.names
    BY <1>17, ReleaseEffect
  <2>2. Top.names = <<>> /\ UNCHANGED <<blocked_recursion, locations>>
    BY <1>17 DEF Release, Named
  <2> QED
    BY <1>c, <2>1, <2>2
<1>18. CASE Return
  BY <1>18, <1>p, ReturnEffect DEF Return, QueueInv
<1>19. ASSUME NEW waiter \in Va, ReportFreed(waiter) PROVE QueueInv'
  <2>1. /\ stack # <<>> /\ Top \in Frame /\ Top.names = <<>>
        /\ UNCHANGED <<blocked_recursion, locations>>
    BY <1>19, <1>t DEF ReportFreed, Named, InPhase
  <2>2. PICK h : h = [Top EXCEPT !.freed = @ \ {waiter}]
    OBVIOUS
  <2>3. h \in Frame /\ h.names = <<>> /\ OnFunction(waiter, h)
    BY <1>19, <2>1, <2>2 DEF ReportFreed, Frame, Phases
  <2>4. PICK g \in Frame : Replaced(g) /\ g.phase = "freed"
    BY <1>19, ReportFreedEffect
  <2>5. g.names = <<>>
    BY <2>1, <2>3, <2>4, NoNames
  <2> QED
    BY <1>c, <2>1, <2>4, <2>5
<1>20. ASSUME NEW w \in Seeds, MakeFunction(w) PROVE QueueInv'
  <2>1. /\ UNCHANGED <<blocked_recursion, locations>>
        /\ \A i \in DOMAIN stack' : stack'[i] = NewFrame(w)
    BY <1>20, MakeFunctionEffect DEF MakeFunction
  <2>2. QueueFrame(NewFrame(w), locations')
    BY DEF QueueFrame, NewFrame
  <2>3. \A i \in DOMAIN stack' : QueueFrame(stack'[i], locations')
    BY <2>1, <2>2
  <2> QED
    BY <2>1, <2>3 DEF QueueInv
<1>21. CASE UNCHANGED vars
  BY <1>21 DEF vars, QueueInv
<1> QED
  BY <1>1, <1>2, <1>3, <1>4, <1>5, <1>6, <1>7, <1>8, <1>9, <1>10, <1>11, <1>12, <1>13, <1>14,
     <1>15, <1>16, <1>17, <1>18, <1>19, <1>20, <1>21 DEF Next, Step

-----------------------------------------------------------------------------
(***************************************************************************)
(* The shape of the stack.                                                 *)
(***************************************************************************)

Active == {"flow", "branch", "called"}

\* The functions of the lowest k frames of the stack s, and the reported ones:
\* what the blocked list may hold without being entered again.
Safe(s, done, k) == done \cup {s[i].va : i \in 1 .. k}

\* The lowest k frames wait for a callee, and are the start of the active path.
Nested(s, path, k) == \A i \in 1 .. k : s[i].phase = "called" /\ path[i] = s[i].va

\* The active path is k such frames and the frame f, while f flows.
PathEnds(f, path, k) ==
    IF f.phase \in Active THEN Len(path) = k + 1 /\ path[k + 1] = f.va ELSE Len(path) = k

\* The lists of a frame that drains the blocked list.
Drains(f, S, T) == f.phase = "blocked" => ToSet(f.todo) \subseteq S /\ ToSet(f.still) \subseteq T

\* The frames are callers but for the one on top.  While it may still defer or
\* drain, its own function may be blocked.
Regular(s, path, done, blocked) ==
    LET n == Len(s)
    IN  /\ n >= 1 /\ n <= MaxDescent
        /\ Nested(s, path, n - 1)
        /\ PathEnds(s[n], path, n - 1)
        /\ blocked \subseteq Safe(s, done, IF s[n].phase \in Active \cup {"drain", "blocked"}
                                           THEN n ELSE n - 1)
        /\ Drains(s[n], Safe(s, done, n), Safe(s, done, n - 1))

\* The frame below the top drains the blocked list and has entered its own
\* function again.  That flow finds everything decoded, and every function
\* that is blocked now is active or reported: it enters nothing in turn.
Again(s, path, done, blocked, db) ==
    LET n == Len(s)
    IN  /\ n >= 2 /\ n <= MaxDescent + 1
        /\ Nested(s, path, n - 2)
        /\ PathEnds(s[n], path, n - 2)
        /\ s[n - 1].phase = "blocked"
        /\ Drains(s[n - 1], Safe(s, done, n - 1), Safe(s, done, n - 2))
        /\ blocked \subseteq Safe(s, done, n - 2)
        /\ Drains(s[n], Safe(s, done, n - 2), Safe(s, done, n - 2))
        /\ s[n].phase \in Active => /\ s[n].phase = "flow" /\ s[n].insns = {}
                                    /\ s[n].va \in DOMAIN db /\ s[n].deferred = <<>>
        /\ s[n].phase = "drain" => s[n].todo = <<>>

Shape(s, path, done, blocked, db) ==
    \/ s = <<>> /\ path = <<>> /\ blocked \subseteq done
    \/ Regular(s, path, done, blocked)
    \/ Again(s, path, done, blocked, db)

ShapeInv == Shape(stack, cf_blocks, reported, ToSet(blocked_recursion), locations)

LEMMA SafeGrows ==
  ASSUME NEW s, NEW done, NEW j \in Int, NEW k \in Int, j <= k
  PROVE  Safe(s, done, j) \subseteq Safe(s, done, k)
<1>1. 1 .. j \subseteq 1 .. k
  OBVIOUS
<1> QED
  BY <1>1 DEF Safe

\* The frame on top of a regular stack goes on.
LEMMA RegularReplaced ==
  ASSUME NEW s \in Seq(Frame), NEW t \in Seq(Frame), NEW path, NEW route,
         NEW done, NEW more, NEW blocked, NEW rest,
         Regular(s, path, done, blocked),
         NEW n \in Nat, n = Len(s), Len(t) = n, \A i \in 1 .. (n - 1) : t[i] = s[i],
         t[n].va = s[n].va, done \subseteq more,
         \A i \in 1 .. (n - 1) : route[i] = path[i], PathEnds(t[n], route, n - 1),
         rest \subseteq Safe(s, done, IF t[n].phase \in Active \cup {"drain", "blocked"}
                                      THEN n ELSE n - 1),
         Drains(t[n], Safe(s, done, n), Safe(s, done, n - 1))
  PROVE  Regular(t, route, more, rest)
<1>1. n >= 1 /\ n <= MaxDescent /\ Nested(s, path, n - 1)
  BY DEF Regular
<1>2. Nested(t, route, n - 1)
  BY <1>1 DEF Nested
<1>3. \A i \in 1 .. n : t[i].va = s[i].va
  BY <1>1
<1>4. Safe(s, done, n) \subseteq Safe(t, more, n)
  BY <1>3 DEF Safe
<1>5. Safe(s, done, n - 1) \subseteq Safe(t, more, n - 1)
  BY DEF Safe
<1>6. Drains(t[n], Safe(t, more, n), Safe(t, more, n - 1))
  BY <1>4, <1>5 DEF Drains
<1>7. rest \subseteq Safe(t, more, IF t[n].phase \in Active \cup {"drain", "blocked"}
                                   THEN n ELSE n - 1)
  BY <1>4, <1>5
<1> QED
  BY <1>1, <1>2, <1>6, <1>7 DEF Regular

\* The same for a function that is entered again.
LEMMA AgainReplaced ==
  ASSUME NEW s \in Seq(Frame), NEW t \in Seq(Frame), NEW path, NEW route,
         NEW done, NEW more, NEW blocked, NEW rest, NEW db,
         Again(s, path, done, blocked, db),
         NEW n \in Nat, n = Len(s), Len(t) = n, \A i \in 1 .. (n - 1) : t[i] = s[i],
         t[n].va = s[n].va, done \subseteq more,
         \A i \in 1 .. (n - 2) : route[i] = path[i], PathEnds(t[n], route, n - 2),
         rest \subseteq Safe(s, done, n - 2),
         Drains(t[n], Safe(s, done, n - 2), Safe(s, done, n - 2)),
         t[n].phase \in Active => /\ t[n].phase = "flow" /\ t[n].insns = {}
                                  /\ t[n].va \in DOMAIN db /\ t[n].deferred = <<>>,
         t[n].phase = "drain" => t[n].todo = <<>>
  PROVE  Again(t, route, more, rest, db)
<1>1. /\ n >= 2 /\ n <= MaxDescent + 1 /\ Nested(s, path, n - 2) /\ s[n - 1].phase = "blocked"
      /\ Drains(s[n - 1], Safe(s, done, n - 1), Safe(s, done, n - 2))
  BY DEF Again
<1>3. \A i \in 1 .. (n - 2) : t[i] = s[i]
  BY <1>1
<1>2. Nested(t, route, n - 2)
  BY <1>1, <1>3 DEF Nested
<1>4. Safe(s, done, n - 1) \subseteq Safe(t, more, n - 1)
  BY DEF Safe
<1>5. Safe(s, done, n - 2) \subseteq Safe(t, more, n - 2)
  BY <1>3 DEF Safe
<1>6. Drains(t[n], Safe(t, more, n - 2), Safe(t, more, n - 2))
  BY <1>5 DEF Drains
<1>7. t[n - 1] = s[n - 1]
  BY <1>1
<1>8. Drains(t[n - 1], Safe(t, more, n - 1), Safe(t, more, n - 2))
  BY <1>1, <1>4, <1>5, <1>7 DEF Drains
<1>9. rest \subseteq Safe(t, more, n - 2)
  BY <1>5
<1> QED
  BY <1>1, <1>2, <1>6, <1>7, <1>8, <1>9 DEF Again

\* The frame on top returns.
LEMMA RegularPopped ==
  ASSUME NEW s \in Seq(Frame), NEW t \in Seq(Frame), NEW path \in Seq(Va), NEW done,
         NEW blocked, NEW rest, NEW db,
         Regular(s, path, done, blocked),
         NEW n \in Nat, n = Len(s), Len(t) = n - 1, \A i \in 1 .. (n - 1) : t[i] = s[i],
         s[n].phase \notin Active, rest \subseteq Safe(s, done, n - 1)
  PROVE  Shape(t, path, done, rest, db)
<1>1. n >= 1 /\ n <= MaxDescent /\ Nested(s, path, n - 1) /\ Len(path) = n - 1
  BY DEF Regular, PathEnds
<1>2. CASE n = 1
  <2>1. t = <<>> /\ path = <<>>
    BY <1>1, <1>2
  <2>2. Safe(s, done, 0) = done
    BY DEF Safe
  <2> QED
    BY <1>2, <2>1, <2>2 DEF Shape
<1>3. CASE n > 1
  <2>1. PICK m \in Nat : m = n - 1 /\ m >= 1 /\ m <= MaxDescent /\ m - 1 \in Nat
    BY <1>1, <1>3, CodeFlowAssumption
  <2>2. t[m].phase = "called" /\ path[m] = t[m].va
    BY <1>1, <2>1 DEF Nested
  <2>3. Nested(t, path, m - 1)
    <3>1. \A i \in 1 .. (m - 1) : i \in 1 .. (n - 1)
      BY <2>1
    <3> QED
      BY <1>1, <3>1 DEF Nested
  <2>4. PathEnds(t[m], path, m - 1)
    BY <1>1, <2>1, <2>2 DEF PathEnds, Active
  <2>5. Safe(s, done, m) \subseteq Safe(t, done, m)
    BY <2>1 DEF Safe
  <2>6. Drains(t[m], Safe(t, done, m), Safe(t, done, m - 1))
    BY <2>2 DEF Drains
  <2>7. rest \subseteq Safe(t, done, m) /\ t[m].phase \in Active
    BY <2>1, <2>2, <2>5 DEF Active
  <2>8. Regular(t, path, done, rest)
    BY <2>1, <2>3, <2>4, <2>6, <2>7 DEF Regular
  <2> QED
    BY <2>8 DEF Shape
<1> QED
  BY <1>1, <1>2, <1>3

LEMMA AgainPopped ==
  ASSUME NEW s \in Seq(Frame), NEW t \in Seq(Frame), NEW path \in Seq(Va), NEW done,
         NEW blocked, NEW rest, NEW db,
         Again(s, path, done, blocked, db),
         NEW n \in Nat, n = Len(s), Len(t) = n - 1, \A i \in 1 .. (n - 1) : t[i] = s[i],
         s[n].phase \notin Active, rest \subseteq Safe(s, done, n - 2)
  PROVE  Regular(t, path, done, rest)
<1>1. /\ n >= 2 /\ n <= MaxDescent + 1 /\ Nested(s, path, n - 2) /\ Len(path) = n - 2
      /\ s[n - 1].phase = "blocked"
      /\ Drains(s[n - 1], Safe(s, done, n - 1), Safe(s, done, n - 2))
  BY DEF Again, PathEnds
<1>2. PICK m \in Nat : m = n - 1 /\ m >= 1 /\ m <= MaxDescent /\ n - 2 = m - 1 /\ m - 1 \in Nat
  BY <1>1, CodeFlowAssumption
<1>3. t[m] = s[m] /\ t[m].phase = "blocked"
  BY <1>1, <1>2
<1>a. \A i \in 1 .. (m - 1) : t[i] = s[i]
  BY <1>2
<1>4. Nested(t, path, m - 1)
  BY <1>1, <1>2, <1>a DEF Nested
<1>5. PathEnds(t[m], path, m - 1)
  BY <1>1, <1>2, <1>3 DEF PathEnds, Active
<1>6. Safe(s, done, m) \subseteq Safe(t, done, m) /\ Safe(s, done, m - 1) \subseteq Safe(t, done, m - 1)
  BY <1>2, <1>a DEF Safe
<1>7. Drains(t[m], Safe(t, done, m), Safe(t, done, m - 1))
  BY <1>1, <1>2, <1>3, <1>6 DEF Drains
<1>8. Safe(t, done, m - 1) \subseteq Safe(t, done, m)
  BY <1>2, SafeGrows
<1>9. rest \subseteq Safe(t, done, m)
  BY <1>2, <1>6, <1>8
<1> QED
  BY <1>2, <1>3, <1>4, <1>5, <1>7, <1>9 DEF Regular

\* A callee is entered below the descent cap.
LEMMA RegularCalls ==
  ASSUME NEW s \in Seq(Frame), NEW t \in Seq(Frame), NEW path \in Seq(Va), NEW done,
         NEW blocked, NEW w \in Va,
         Regular(s, path, done, blocked), Len(path) < MaxDescent,
         NEW n \in Nat, n = Len(s), Len(t) = n + 1, \A i \in 1 .. (n - 1) : t[i] = s[i],
         s[n].phase \in Active, t[n].phase = "called", t[n].va = s[n].va, t[n + 1] = NewFrame(w)
  PROVE  Regular(t, Append(path, w), done, blocked)
<1>1. /\ n >= 1 /\ n <= MaxDescent /\ Nested(s, path, n - 1) /\ Len(path) = n /\ path[n] = s[n].va
      /\ blocked \subseteq Safe(s, done, n)
  BY DEF Regular, PathEnds
<1>2. PICK route : route = Append(path, w)
  OBVIOUS
<1>3. Len(route) = n + 1 /\ route[n + 1] = w /\ \A i \in 1 .. n : route[i] = path[i]
  BY <1>1, <1>2
<1>4. n + 1 <= MaxDescent
  BY <1>1, CodeFlowAssumption
<1>5. Nested(t, route, n)
  BY <1>1, <1>3 DEF Nested
<1>6. t[n + 1].phase = "flow" /\ t[n + 1].va = w
  BY DEF NewFrame
<1>7. PathEnds(t[n + 1], route, n)
  BY <1>3, <1>6 DEF PathEnds, Active
<1>8. \A i \in 1 .. n : t[i].va = s[i].va
  BY <1>1
<1>9. Safe(s, done, n) \subseteq Safe(t, done, n) /\ Safe(t, done, n) \subseteq Safe(t, done, n + 1)
  BY <1>8, SafeGrows DEF Safe
<1>10. Drains(t[n + 1], Safe(t, done, n + 1), Safe(t, done, n))
  BY <1>6 DEF Drains
<1>11. blocked \subseteq Safe(t, done, n + 1) /\ (n + 1) - 1 = n /\ t[n + 1].phase \in Active
  BY <1>1, <1>6, <1>9 DEF Active
<1> QED
  BY <1>1, <1>2, <1>4, <1>5, <1>7, <1>10, <1>11 DEF Regular

\* The only function the drain of a regular stack can enter is its own.
LEMMA OwnFunction ==
  ASSUME NEW s \in Seq(Frame), NEW path \in Seq(Va), NEW done, NEW blocked,
         Regular(s, path, done, blocked),
         NEW n \in Nat, n = Len(s), s[n].phase \notin Active,
         NEW w \in Safe(s, done, n), w \notin done, ~Contains(path, w)
  PROVE  w = s[n].va
<1>1. n >= 1 /\ Nested(s, path, n - 1) /\ Len(path) = n - 1
  BY DEF Regular, PathEnds
<1>2. PICK i \in 1 .. n : w = s[i].va
  BY DEF Safe
<1>3. CASE i # n
  <2>1. i \in 1 .. (n - 1) /\ i \in DOMAIN path /\ i \in 1 .. Len(path)
    BY <1>1, <1>2, <1>3
  <2>2. path[i] = w
    BY <1>1, <1>2, <2>1 DEF Nested
  <2> QED
    BY <2>1, <2>2 DEF Contains
<1> QED
  BY <1>2, <1>3

\* ... and then the blocked list is left with what needs no entry.
LEMMA RegularEnters ==
  ASSUME NEW s \in Seq(Frame), NEW t \in Seq(Frame), NEW path \in Seq(Va), NEW done,
         NEW blocked, NEW rest, NEW db,
         Regular(s, path, done, blocked),
         NEW n \in Nat, n = Len(s), Len(t) = n + 1, \A i \in 1 .. (n - 1) : t[i] = s[i],
         s[n].phase = "blocked", t[n].phase = "blocked", t[n].va = s[n].va,
         ToSet(t[n].todo) \subseteq ToSet(s[n].todo), t[n].still = s[n].still,
         s[n].va \in DOMAIN db, t[n + 1] = NewFrame(s[n].va),
         rest \subseteq blocked, s[n].va \notin rest
  PROVE  Again(t, Append(path, s[n].va), done, rest, db)
<1>1. /\ n >= 1 /\ n <= MaxDescent /\ Nested(s, path, n - 1) /\ Len(path) = n - 1
      /\ blocked \subseteq Safe(s, done, n)
      /\ ToSet(s[n].todo) \subseteq Safe(s, done, n)
      /\ ToSet(s[n].still) \subseteq Safe(s, done, n - 1)
  BY DEF Regular, PathEnds, Drains, Active
<1>2. PICK w \in Va : w = s[n].va
  <2>1. s[n] \in Frame
    BY <1>1
  <2> QED
    BY <2>1 DEF Frame
<1>3. PICK route : route = Append(path, w)
  OBVIOUS
<1>4. Len(route) = n /\ route[n] = w /\ \A i \in 1 .. (n - 1) : route[i] = path[i]
  BY <1>1, <1>3
<1>5. Nested(t, route, n - 1)
  BY <1>1, <1>4 DEF Nested
<1>6. /\ t[n + 1].phase = "flow" /\ t[n + 1].va = w /\ t[n + 1].insns = {}
      /\ t[n + 1].deferred = <<>>
  BY <1>2 DEF NewFrame
<1>7. PathEnds(t[n + 1], route, n - 1)
  BY <1>1, <1>4, <1>6 DEF PathEnds, Active
<1>8. \A i \in 1 .. n : t[i].va = s[i].va
  BY <1>1
<1>9. Safe(s, done, n) \subseteq Safe(t, done, n) /\ Safe(s, done, n - 1) \subseteq Safe(t, done, n - 1)
  BY <1>8 DEF Safe
<1>10. Drains(t[n], Safe(t, done, n), Safe(t, done, n - 1))
  BY <1>1, <1>9 DEF Drains
<1>11. rest \subseteq Safe(t, done, n - 1)
  <2>1. Safe(s, done, n) \subseteq Safe(s, done, n - 1) \cup {w}
    <3>1. \A i \in 1 .. n : i = n \/ i \in 1 .. (n - 1)
      BY <1>1
    <3> QED
      BY <1>2, <3>1 DEF Safe
  <2> QED
    BY <1>1, <1>2, <1>9, <2>1
<1>12. Drains(t[n + 1], Safe(t, done, n - 1), Safe(t, done, n - 1))
  BY <1>6 DEF Drains
<1>13. n + 1 >= 2 /\ n + 1 <= MaxDescent + 1 /\ (n + 1) - 1 = n /\ (n + 1) - 2 = n - 1
  BY <1>1, CodeFlowAssumption
<1>14. t[n + 1].va \in DOMAIN db
  BY <1>2, <1>6
<1> QED
  BY <1>2, <1>3, <1>5, <1>6, <1>7, <1>10, <1>11, <1>12, <1>13, <1>14 DEF Again

LEMMA ShapeStep ==
  TypeInv /\ InsnInv /\ KnownInv /\ QueueInv /\ ShapeInv /\ [Next]_vars => ShapeInv'
<1> SUFFICES ASSUME TypeInv, InsnInv, KnownInv, QueueInv, ShapeInv, [Next]_vars PROVE ShapeInv'
  OBVIOUS
<1> USE DEF Kept, Fields, deferralVars, discoveryVars
<1> DEFINE n == Len(stack)
           B == ToSet(blocked_recursion)
           R == Regular(stack, cf_blocks, reported, B)
           A == Again(stack, cf_blocks, reported, B, locations)
           S(k) == Safe(stack, reported, k)
<1>t. ASSUME stack # <<>>
      PROVE  /\ Top \in Frame /\ Top = stack[n] /\ n \in Nat \ {0} /\ n \in DOMAIN stack
             /\ R \/ A
  BY <1>t, TopType DEF TypeInv, ShapeInv, Shape
\* What the two shapes say of the frame on top.
<1>x. ASSUME R PROVE /\ PathEnds(Top, cf_blocks, n - 1) /\ Drains(Top, S(n), S(n - 1))
                     /\ B \subseteq S(IF Top.phase \in Active \cup {"drain", "blocked"}
                                      THEN n ELSE n - 1)
                     /\ n >= 1 /\ n \in Nat /\ stack # <<>>
  <2>1. n >= 1 /\ n \in Nat /\ stack # <<>>
    BY <1>x DEF Regular, TypeInv
  <2> QED
    BY <1>t, <1>x, <2>1 DEF Regular
<1>y. ASSUME A PROVE /\ PathEnds(Top, cf_blocks, n - 2) /\ Drains(Top, S(n - 2), S(n - 2))
                     /\ B \subseteq S(n - 2)
                     /\ Top.phase \in Active => /\ Top.phase = "flow" /\ Top.insns = {}
                                                /\ Top.va \in DOMAIN locations
                                                /\ Top.deferred = <<>>
                     /\ Top.phase = "drain" => Top.todo = <<>>
                     /\ n >= 2 /\ n \in Nat /\ stack # <<>>
  <2>1. n >= 2 /\ n \in Nat /\ stack # <<>>
    BY <1>y DEF Again, TypeInv
  <2> QED
    BY <1>t, <1>y, <2>1 DEF Again
\* The frame on top goes on as g, on the same active path.
<1>r. ASSUME NEW g \in Frame, R, Replaced(g), g.va = Top.va, reported \subseteq reported',
             cf_blocks' = cf_blocks, g.phase \in Active <=> Top.phase \in Active,
             ToSet(blocked_recursion') \subseteq
                 S(IF g.phase \in Active \cup {"drain", "blocked"} THEN n ELSE n - 1),
             Drains(g, S(n), S(n - 1))
      PROVE  ShapeInv'
  <2>1. PathEnds(g, cf_blocks, n - 1)
    BY <1>r, <1>x DEF PathEnds
  <2>2. /\ stack' \in Seq(Frame) /\ Len(stack') = n /\ stack'[n] = g
        /\ \A i \in 1 .. (n - 1) : stack'[i] = stack[i]
    BY <1>r DEF Replaced
  <2>3. Top = stack[n] /\ n \in Nat /\ stack \in Seq(Frame)
    BY <1>r, <1>x, <1>t DEF TypeInv
  <2>4. Regular(stack', cf_blocks, reported', ToSet(blocked_recursion'))
    BY <1>r, <2>1, <2>2, <2>3, RegularReplaced
  <2> QED
    BY <1>r, <2>4 DEF ShapeInv, Shape
<1>a. ASSUME NEW g \in Frame, A, Replaced(g), g.va = Top.va, reported \subseteq reported',
             UNCHANGED <<cf_blocks, locations>>, g.phase \in Active <=> Top.phase \in Active,
             ToSet(blocked_recursion') \subseteq S(n - 2),
             Drains(g, S(n - 2), S(n - 2)),
             g.phase \in Active => g.phase = "flow" /\ g.insns = {} /\ g.deferred = <<>>,
             g.phase # "drain"
      PROVE  ShapeInv'
  <2>1. PathEnds(g, cf_blocks, n - 2)
    BY <1>a, <1>y DEF PathEnds
  <2>2. /\ stack' \in Seq(Frame) /\ Len(stack') = n /\ stack'[n] = g
        /\ \A i \in 1 .. (n - 1) : stack'[i] = stack[i]
    BY <1>a DEF Replaced
  <2>3. Top = stack[n] /\ n \in Nat /\ stack \in Seq(Frame)
    BY <1>a, <1>y, <1>t DEF TypeInv
  <2>4. g.phase \in Active => g.va \in DOMAIN locations
    BY <1>a, <1>y
  <2>5. Again(stack', cf_blocks, reported', ToSet(blocked_recursion'), locations)
    BY <1>a, <2>1, <2>2, <2>3, <2>4, AgainReplaced
  <2> QED
    BY <1>a, <2>5 DEF ShapeInv, Shape
\* Steps within the flow of a function that was not entered again.
<1>b. ASSUME NEW g \in Frame, Replaced(g), g.va = Top.va,
             UNCHANGED <<cf_blocks, reported, blocked_recursion>>,
             Top.phase \in Active, Top.phase = "flow" => ~A, g.phase \in Active
      PROVE  ShapeInv'
  <2>1. stack # <<>>
    BY <1>b DEF Replaced
  <2>2. R
    BY <1>b, <1>t, <1>y, <2>1
  <2>3. B \subseteq S(n)
    BY <1>b, <1>x, <2>2
  <2>4. Drains(g, S(n), S(n - 1))
    BY <1>b DEF Drains, Active
  <2> QED
    BY <1>b, <1>r, <2>2, <2>3, <2>4
\* Steps of the report.
<1>c. ASSUME NEW g \in Frame, Replaced(g), g.va = Top.va, UNCHANGED <<cf_blocks, locations>>,
             reported \subseteq reported',
             Top.phase \in {"blocked", "report", "release", "freed"},
             g.phase \in {"report", "release", "freed"},
             \/ Top.phase # "blocked" /\ UNCHANGED blocked_recursion
             \/ Top.phase = "blocked" /\ blocked_recursion' = Top.still
      PROVE  ShapeInv'
  <2>1. stack # <<>> /\ Top.phase \notin Active /\ g.phase \notin Active
    BY <1>c DEF Replaced, Active
  <2>2. CASE R
    <3>1. Drains(g, S(n), S(n - 1))
      BY <1>c DEF Drains
    <3>2. ToSet(blocked_recursion') \subseteq S(n - 1)
      BY <1>c, <1>x, <2>1, <2>2 DEF Drains
    <3> QED
      BY <1>c, <1>r, <2>1, <2>2, <3>1, <3>2
  <2>3. CASE A
    <3>1. Drains(g, S(n - 2), S(n - 2))
      BY <1>c DEF Drains
    <3>2. ToSet(blocked_recursion') \subseteq S(n - 2)
      BY <1>c, <1>y, <2>3 DEF Drains
    <3> QED
      BY <1>c, <1>a, <2>1, <2>3, <3>1, <3>2
  <2> QED
    BY <1>t, <2>1, <2>2, <2>3
\* The frame on top returns.
<1>p. ASSUME Popped, UNCHANGED <<cf_blocks, reported, locations>>,
             \/ Top.phase \in {"release", "freed"} /\ UNCHANGED blocked_recursion
             \/ Top.phase = "blocked" /\ blocked_recursion' = Top.still
      PROVE  ShapeInv'
  <2>1. stack # <<>> /\ Top.phase \notin Active
    BY <1>p DEF Popped, Active
  <2>2. /\ stack' \in Seq(Frame) /\ Len(stack') = n - 1
        /\ \A i \in 1 .. (n - 1) : stack'[i] = stack[i]
    BY <1>p DEF Popped
  <2>3. Top = stack[n] /\ n \in Nat /\ stack \in Seq(Frame) /\ cf_blocks \in Seq(Va)
    BY <1>t, <2>1 DEF TypeInv
  <2>4. CASE R
    <3>1. ToSet(blocked_recursion') \subseteq S(n - 1)
      BY <1>p, <1>x, <2>1, <2>4 DEF Drains
    <3>2. Shape(stack', cf_blocks, reported, ToSet(blocked_recursion'), locations)
      BY <2>1, <2>2, <2>3, <2>4, <3>1, RegularPopped
    <3> QED
      BY <1>p, <3>2 DEF ShapeInv
  <2>5. CASE A
    <3>1. ToSet(blocked_recursion') \subseteq S(n - 2)
      BY <1>p, <1>y, <2>5 DEF Drains
    <3>2. Regular(stack', cf_blocks, reported, ToSet(blocked_recursion'))
      BY <2>1, <2>2, <2>3, <2>5, <3>1, AgainPopped
    <3> QED
      BY <1>p, <3>2 DEF ShapeInv, Shape
  <2> QED
    BY <1>t, <2>1, <2>4, <2>5
<1>1. CASE SkipAddress
  <2>1. PICK g \in Frame : /\ Replaced(g) /\ g.phase = "flow" /\ g.va = Top.va
                           /\ g.insns = Top.insns /\ g.deferred = Top.deferred
    BY <1>1, SkipAddressEffect
  <2>2. /\ Top.phase = "flow" /\ stack # <<>>
        /\ UNCHANGED <<cf_blocks, reported, blocked_recursion, locations>>
    BY <1>1, SkipAddressEffect DEF SkipAddress, Flowing, InPhase
  <2>3. CASE ~A
    BY <1>b, <2>1, <2>2, <2>3 DEF Active
  <2>4. CASE A
    <3>1. Drains(g, S(n - 2), S(n - 2)) /\ g.phase \in Active /\ Top.phase \in Active
      BY <2>1, <2>2 DEF Drains, Active
    <3> QED
      BY <1>a, <1>y, <2>1, <2>2, <2>4, <3>1
  <2> QED
    BY <2>3, <2>4
<1>2. CASE DecodeOpcode
  <2>1. PICK g \in Frame : Replaced(g) /\ g.phase = "branch" /\ g.va = Top.va
    BY <1>2, DecodeOpcodeEffect
  <2>2. /\ Top.phase = "flow" /\ Top.optodo # <<>> /\ Decodable(Top, Last(Top.optodo))
        /\ stack # <<>> /\ UNCHANGED <<cf_blocks, reported, blocked_recursion>>
    BY <1>2, DecodeOpcodeEffect DEF DecodeOpcode, Flowing, InPhase
  <2>3. ASSUME A PROVE FALSE
    <3>1. Top.insns = {} /\ Top.va \in DOMAIN locations
      BY <1>y, <2>2, <2>3 DEF Active
    <3>2. Top.optodo = <<Top.va>>
      BY <1>t, <2>2, <3>1 DEF InsnInv, InsnFrame
    <3>3. Last(Top.optodo) = Top.va
      BY <3>2 DEF Last
    <3> QED
      BY <2>2, <3>1, <3>3, StartIsDefined DEF Decodable
  <2> QED
    BY <1>b, <2>1, <2>2, <2>3 DEF Active
<1>3. CASE EndFlow
  <2>1. PICK g \in Frame : /\ Replaced(g) /\ g.phase = "drain" /\ g.va = Top.va
                           /\ g.todo = Top.deferred
    BY <1>3, EndFlowEffect
  <2>2. /\ Top.phase = "flow" /\ stack # <<>> /\ cf_blocks' = Front(cf_blocks)
        /\ UNCHANGED <<reported, blocked_recursion, locations>>
    BY <1>3, EndFlowEffect DEF EndFlow, InPhase
  <2>3. /\ stack' \in Seq(Frame) /\ Len(stack') = n /\ stack'[n] = g
        /\ \A i \in 1 .. (n - 1) : stack'[i] = stack[i]
    BY <2>1 DEF Replaced
  <2>4. /\ Top = stack[n] /\ n \in Nat /\ stack \in Seq(Frame)
        /\ g.phase \notin Active /\ Top.phase \in Active
    BY <1>t, <2>1, <2>2 DEF TypeInv, Active
  <2>5. PICK route : route = Front(cf_blocks) /\ route = cf_blocks'
    BY <2>2
  <2>6. ASSUME NEW k \in Nat, Len(cf_blocks) = k + 1
        PROVE  Len(route) = k /\ \A i \in 1 .. k : route[i] = cf_blocks[i]
    <3>1. PICK s \in Seq(Va) : s = cf_blocks
      BY DEF TypeInv
    <3>2. Front(s) = [i \in 1 .. k |-> s[i]]
      BY <2>6, <3>1 DEF Front
    <3>3. PICK r \in Seq(Va) : r = [i \in 1 .. k |-> s[i]] /\ r = route
      <4>1. s # <<>>
        BY <2>6, <3>1
      <4> QED
        BY <2>5, <3>1, <3>2, <4>1, ListType
    <3>4. DOMAIN r = 1 .. k /\ \A i \in 1 .. k : r[i] = s[i]
      BY <3>3
    <3>5. Len(r) = k
      BY <3>4
    <3> QED
      BY <3>1, <3>3, <3>4, <3>5
  <2>7. CASE R
    <3>1. n - 1 \in Nat /\ Len(cf_blocks) = (n - 1) + 1 /\ B \subseteq S(n)
      BY <1>x, <2>4, <2>7 DEF PathEnds
    <3>2. Len(route) = n - 1 /\ \A i \in 1 .. (n - 1) : route[i] = cf_blocks[i]
      BY <2>6, <3>1
    <3>3. PathEnds(g, route, n - 1) /\ Drains(g, S(n), S(n - 1))
      BY <2>1, <2>4, <3>2 DEF PathEnds, Drains
    <3>4. Regular(stack', route, reported, B)
      BY <2>1, <2>3, <2>4, <2>7, <3>1, <3>2, <3>3, RegularReplaced
    <3> QED
      BY <2>2, <2>5, <3>4 DEF ShapeInv, Shape
  <2>8. CASE A
    <3>1. n - 2 \in Nat /\ Len(cf_blocks) = (n - 2) + 1 /\ B \subseteq S(n - 2) /\ Top.deferred = <<>>
      BY <1>y, <2>4, <2>8 DEF PathEnds
    <3>2. Len(route) = n - 2 /\ \A i \in 1 .. (n - 2) : route[i] = cf_blocks[i]
      BY <2>6, <3>1
    <3>3. PathEnds(g, route, n - 2) /\ Drains(g, S(n - 2), S(n - 2))
      BY <2>1, <2>4, <3>2 DEF PathEnds, Drains
    <3>4. /\ stack'[n].phase \in Active => FALSE
          /\ stack'[n].todo = <<>> /\ stack'[n].va = stack[n].va
          /\ PathEnds(stack'[n], route, n - 2) /\ Drains(stack'[n], S(n - 2), S(n - 2))
          /\ stack'[n].phase = "drain" => stack'[n].todo = <<>>
      BY <2>1, <2>3, <2>4, <3>1, <3>3
    <3>5. Again(stack', route, reported, B, locations)
      BY <2>3, <2>4, <2>8, <3>1, <3>2, <3>4, AgainReplaced
    <3> QED
      BY <2>2, <2>5, <3>5 DEF ShapeInv, Shape
  <2> QED
    BY <1>t, <2>2, <2>7, <2>8
<1>4. CASE BranchesDone
  BY <1>4, <1>b, BranchesDoneEffect DEF BranchesDone, Active
<1>5. CASE SkipBranch
  BY <1>5, <1>b, SkipBranchEffect DEF SkipBranch, Active
<1>6. CASE CallBranch
  <2>1. PICK g \in Frame :
           /\ g.va = Top.va
           /\ g.phase = IF Branch.to = NextVa THEN "branch" ELSE "called"
           /\ \/ Replaced(g) /\ cf_blocks' = cf_blocks
              \/ /\ Branch.to # NextVa /\ Len(cf_blocks) < MaxDescent
                 /\ EntersFrom(g, Branch.to, functions)
    BY <1>6, CallBranchEffect
  <2>2. /\ Top.phase = "branch" /\ Branch.to \in Va /\ stack # <<>>
        /\ UNCHANGED <<reported, blocked_recursion, locations>>
    BY <1>6, CallBranchEffect DEF CallBranch, Followed, Branching, InPhase
  <2>3. CASE Replaced(g) /\ cf_blocks' = cf_blocks
    BY <1>b, <2>1, <2>2, <2>3 DEF Active
  <2>4. CASE /\ Branch.to # NextVa /\ Len(cf_blocks) < MaxDescent
             /\ Pushed(g, Branch.to) /\ cf_blocks' = Append(cf_blocks, Branch.to)
    <3>1. R /\ Top.phase \in Active /\ Top = stack[n] /\ n \in Nat
      BY <1>t, <1>y, <2>2 DEF Active
    <3>2. /\ stack' \in Seq(Frame) /\ Len(stack') = n + 1 /\ stack'[n] = g
          /\ stack'[n + 1] = NewFrame(Branch.to) /\ \A i \in 1 .. (n - 1) : stack'[i] = stack[i]
      BY <2>4 DEF Pushed
    <3>3. stack \in Seq(Frame) /\ cf_blocks \in Seq(Va) /\ g.phase = "called"
      BY <2>1, <2>4 DEF TypeInv
    <3>4. Regular(stack', Append(cf_blocks, Branch.to), reported, B)
      BY <2>1, <2>2, <2>4, <3>1, <3>2, <3>3, RegularCalls
    <3> QED
      BY <2>2, <2>4, <3>4 DEF ShapeInv, Shape
  <2> QED
    BY <2>1, <2>3, <2>4 DEF EntersFrom
<1>7. CASE AfterCall
  BY <1>7, <1>b, AfterCallEffect DEF AfterCall, Active
<1>8. CASE TailBranch
  BY <1>8, <1>b, TailBranchEffect DEF TailBranch, Active
<1>9. CASE FlowBranch
  BY <1>9, <1>b, FlowBranchEffect DEF FlowBranch, Active
<1>10. ASSUME NEW jt \in JumpTables, ResolveJumpTable(jt) PROVE ShapeInv'
  BY <1>10, <1>b, ResolveJumpTableEffect DEF ResolveJumpTable, Active
\* A deferred function is known: it is never entered here.
<1>11. CASE DrainDeferred
  <2>1. PICK w \in Va : w = Head(Top.todo)
    BY <1>11, DrainDeferredEffect
  <2>2. PICK g \in Frame :
           /\ g.phase = Top.phase /\ g.va = Top.va
           /\ (Replaced(g) /\ cf_blocks' = cf_blocks) \/ EntersFrom(g, w, functions)
    BY <1>11, <2>1, DrainDeferredEffect
  <2>3. /\ Top.phase = "drain" /\ Top.todo # <<>> /\ stack # <<>> /\ Top \in Frame
        /\ UNCHANGED reported
    BY <1>11, DrainDeferredEffect DEF DrainDeferred, Draining, InPhase
  <2>4. w \in functions
    <3>1. w \in ToSet(Top.todo)
      BY <2>1, <2>3, TailElements DEF Frame
    <3> QED
      BY <1>t, <2>3, <3>1 DEF KnownInv, Lists
  <2>5. Replaced(g) /\ cf_blocks' = cf_blocks
    BY <2>2, <2>4 DEF EntersFrom, MayEnter
  <2>6. R
    BY <1>t, <1>y, <2>3
  <2>7. ToSet(blocked_recursion') \subseteq S(n)
    <3>1. B \subseteq S(n)
      BY <1>x, <2>3, <2>6
    <3>2. CASE blocked_recursion' = blocked_recursion
      BY <3>1, <3>2
    <3>3. CASE OnActivePath(w) /\ blocked_recursion' = PushUnique(blocked_recursion, w)
      <4>1. ToSet(blocked_recursion') = B \cup {w}
        BY <3>3, PushUniqueFacts DEF TypeInv
      <4>2. PICK k \in DOMAIN cf_blocks : cf_blocks[k] = w
        BY <3>3 DEF OnActivePath, Contains, TypeInv
      <4>3. Len(cf_blocks) = n - 1 /\ Nested(stack, cf_blocks, n - 1)
        BY <1>x, <2>3, <2>6 DEF PathEnds, Active, Regular
      <4>4. k \in 1 .. (n - 1) /\ k \in 1 .. n
        BY <1>x, <2>6, <4>3 DEF TypeInv
      <4>5. w = stack[k].va
        BY <4>2, <4>3, <4>4 DEF Nested
      <4>6. w \in S(n)
        BY <4>4, <4>5 DEF Safe
      <4> QED
        BY <3>1, <4>1, <4>6
    <3> QED
      BY <1>11, <2>1, <3>2, <3>3 DEF DrainDeferred
  <2>8. Drains(g, S(n), S(n - 1)) /\ g.phase = "drain"
    BY <2>2, <2>3 DEF Drains
  <2> QED
    BY <1>r, <2>2, <2>3, <2>5, <2>6, <2>7, <2>8 DEF Active
<1>12. CASE StartBlocked
  <2>1. PICK g \in Frame : /\ Replaced(g) /\ g.va = Top.va /\ g.phase = "blocked"
                           /\ g.todo = blocked_recursion /\ g.still = Top.still
    BY <1>12, StartBlockedEffect
  <2>2. /\ Top.phase = "drain" /\ stack # <<>>
        /\ UNCHANGED <<cf_blocks, reported, blocked_recursion, locations>>
    BY <1>12, StartBlockedEffect DEF StartBlocked, InPhase
  <2>3. ToSet(g.still) = {}
    BY <1>t, <2>1, <2>2 DEF QueueInv, QueueFrame, ToSet
  <2>4. g.phase \notin Active /\ Top.phase \notin Active
    BY <2>1, <2>2 DEF Active
  <2>5. CASE R
    <3>1. B \subseteq S(n)
      BY <1>x, <2>2, <2>5
    <3>2. Drains(g, S(n), S(n - 1))
      BY <2>1, <2>3, <3>1 DEF Drains
    <3> QED
      BY <1>r, <2>1, <2>2, <2>4, <2>5, <3>1, <3>2
  <2>6. CASE A
    <3>1. B \subseteq S(n - 2)
      BY <1>y, <2>6
    <3>2. Drains(g, S(n - 2), S(n - 2))
      BY <2>1, <2>3, <3>1 DEF Drains
    <3> QED
      BY <1>a, <2>1, <2>2, <2>4, <2>6, <3>1, <3>2
  <2> QED
    BY <1>t, <2>2, <2>5, <2>6
<1>13. CASE DrainBlocked
  <2>1. PICK w \in Va : w = Head(Top.todo)
    BY <1>13, DrainBlockedEffect
  <2>2. PICK g \in Frame :
           /\ g.va = Top.va /\ g.phase = Top.phase /\ g.todo = Tail(Top.todo)
           /\ \/ /\ Unblocked(w) /\ g.still = Top.still /\ EntersFrom(g, w, functions \ {w})
                 /\ blocked_recursion' = RemoveFirst(blocked_recursion, w)
              \/ /\ ~Unblocked(w) /\ g.still = Append(Top.still, w)
                 /\ Replaced(g) /\ cf_blocks' = cf_blocks
                 /\ blocked_recursion' = blocked_recursion
    BY <1>13, <2>1, DrainBlockedEffect
  <2>3. /\ Top \in Frame /\ Top.phase = "blocked" /\ Top.todo # <<>> /\ stack # <<>>
        /\ UNCHANGED <<reported, locations>> /\ Top.phase \notin Active
    BY <1>13, DrainBlockedEffect DEF DrainBlocked, Draining, InPhase, Active
  <2>4. ToSet(Top.todo) = ToSet(g.todo) \cup {w}
    BY <2>1, <2>2, <2>3, TailElements DEF Frame
  <2>5. w \in functions
    BY <1>t, <2>3, <2>4 DEF KnownInv, Lists
  <2>6. stack \in Seq(Frame) /\ cf_blocks \in Seq(Va) /\ Top = stack[n] /\ n \in Nat
    BY <1>t, <2>3 DEF TypeInv
  <2>7. ToSet(Append(Top.still, w)) = ToSet(Top.still) \cup {w}
    BY <2>3, AppendElements DEF Frame
  <2>8. CASE R /\ Unblocked(w)
    <3>1. w \in S(n) /\ w \notin reported /\ ~Contains(cf_blocks, w)
      BY <1>x, <2>3, <2>4, <2>8 DEF Drains, Unblocked, OnActivePath
    <3>2. w = Top.va
      BY <2>3, <2>6, <2>8, <3>1, OwnFunction
    <3>3. Pushed(g, w) /\ cf_blocks' = Append(cf_blocks, w)
      BY <2>2, <2>5, <2>8, Readmitted DEF EntersFrom
    <3>4. /\ stack' \in Seq(Frame) /\ Len(stack') = n + 1 /\ stack'[n] = g
          /\ stack'[n + 1] = NewFrame(w) /\ \A i \in 1 .. (n - 1) : stack'[i] = stack[i]
      BY <3>3 DEF Pushed
    <3>5. w \in DOMAIN locations
      BY <1>t, <2>3, <2>4 DEF QueueInv, QueueFrame, Queue
    <3>6. ToSet(blocked_recursion') \subseteq B /\ w \notin ToSet(blocked_recursion')
      BY <2>2, <2>8, RemoveFirstFacts, RemoveFirstQueue DEF TypeInv, QueueInv, Queue
    <3>7. g.phase = "blocked" /\ ToSet(g.todo) \subseteq ToSet(Top.todo) /\ g.still = Top.still
      BY <2>2, <2>3, <2>4, <2>8
    <3>8. Again(stack', Append(cf_blocks, w), reported, ToSet(blocked_recursion'), locations)
      BY <2>2, <2>3, <2>6, <2>8, <3>2, <3>4, <3>5, <3>6, <3>7, RegularEnters
    <3> QED
      BY <2>3, <3>3, <3>8 DEF ShapeInv, Shape
  <2>9. CASE R /\ ~Unblocked(w)
    <3>1. w \in S(n - 1)
      <4>1. CASE w \in reported
        BY <4>1 DEF Safe
      <4>2. CASE OnActivePath(w)
        <5>1. PICK k \in DOMAIN cf_blocks : cf_blocks[k] = w
          BY <4>2 DEF OnActivePath, Contains, TypeInv
        <5>2. Len(cf_blocks) = n - 1 /\ Nested(stack, cf_blocks, n - 1)
          BY <1>x, <2>3, <2>9 DEF PathEnds, Regular
        <5>3. k \in 1 .. (n - 1)
          BY <2>6, <5>2
        <5>4. w = stack[k].va
          BY <5>1, <5>2, <5>3 DEF Nested
        <5> QED
          BY <5>3, <5>4 DEF Safe
      <4> QED
        BY <2>9, <4>1, <4>2 DEF Unblocked
    <3>2. B \subseteq S(n) /\ ToSet(g.still) = ToSet(Top.still) \cup {w}
      BY <1>x, <2>2, <2>3, <2>7, <2>9
    <3>3. Drains(g, S(n), S(n - 1))
      BY <1>x, <2>2, <2>3, <2>4, <2>9, <3>1, <3>2 DEF Drains
    <3> QED
      BY <1>r, <2>2, <2>3, <2>9, <3>2, <3>3
  <2>10. CASE A
    <3>1. w \in S(n - 2)
      BY <1>y, <2>3, <2>4, <2>10 DEF Drains
    <3>2. ~Unblocked(w)
      <4>1. Len(cf_blocks) = n - 2 /\ Nested(stack, cf_blocks, n - 2) /\ n - 2 \in Nat
        BY <1>y, <2>3, <2>10 DEF PathEnds, Again
      <4>2. CASE w \in reported
        BY <4>2 DEF Unblocked
      <4>3. ASSUME NEW i \in 1 .. (n - 2), w = stack[i].va PROVE ~Unblocked(w)
        <5>1. cf_blocks[i] = w /\ i \in 1 .. Len(cf_blocks)
          BY <4>1, <4>3 DEF Nested
        <5> QED
          BY <5>1 DEF Unblocked, OnActivePath, Contains
      <4> QED
        BY <3>1, <4>2, <4>3 DEF Safe
    <3>3. B \subseteq S(n - 2) /\ ToSet(g.still) = ToSet(Top.still) \cup {w}
      BY <1>y, <2>2, <2>7, <2>10, <3>2
    <3>4. Drains(g, S(n - 2), S(n - 2))
      BY <1>y, <2>2, <2>3, <2>4, <2>10, <3>1, <3>3 DEF Drains
    <3> QED
      BY <1>a, <2>2, <2>3, <2>10, <3>2, <3>3, <3>4
  <2> QED
    BY <1>t, <2>3, <2>8, <2>9, <2>10
<1>14. CASE FinishFlow
  BY <1>14, <1>p, <1>c, FinishFlowEffect DEF FinishFlow
<1>15. CASE Report
  BY <1>15, <1>c, ReportEffect DEF Report
<1>16. CASE MakeLocalName
  BY <1>16, <1>t DEF MakeLocalName, QueueInv, QueueFrame
<1>17. CASE Release
  BY <1>17, <1>c, ReleaseEffect DEF Release
<1>18. CASE Return
  BY <1>18, <1>p, ReturnEffect DEF Return
<1>19. ASSUME NEW waiter \in Va, ReportFreed(waiter) PROVE ShapeInv'
  BY <1>19, <1>c, ReportFreedEffect DEF ReportFreed
<1>20. ASSUME NEW w \in Seeds, MakeFunction(w) PROVE ShapeInv'
  <2>1. /\ stack = <<>> /\ w \in Va /\ stack' \in Seq(Frame) /\ Len(stack') = 1
        /\ stack'[1] = NewFrame(w) /\ cf_blocks' = Append(cf_blocks, w)
        /\ UNCHANGED <<reported, blocked_recursion>>
    BY <1>20, MakeFunctionEffect DEF MakeFunction
  <2>2. cf_blocks = <<>> /\ B \subseteq reported
    BY <2>1 DEF ShapeInv, Shape, Regular, Again
  <2>3. Len(cf_blocks') = 1 /\ cf_blocks'[1] = w
    BY <2>1, <2>2
  <2>4. stack'[1].phase = "flow" /\ stack'[1].va = w
    BY <2>1 DEF NewFrame
  <2>5. PathEnds(stack'[1], cf_blocks', 0)
    BY <2>3, <2>4 DEF PathEnds, Active
  <2>6. Nested(stack', cf_blocks', 0) /\ Drains(stack'[1], Safe(stack', reported', 1), Safe(stack', reported', 0))
    BY <2>4 DEF Nested, Drains
  <2>7. ToSet(blocked_recursion') \subseteq Safe(stack', reported', 1)
    BY <2>1, <2>2 DEF Safe
  <2>8. 1 <= MaxDescent /\ stack'[1].phase \in Active
    BY <2>4, CodeFlowAssumption DEF Active
  <2>9. Regular(stack', cf_blocks', reported', ToSet(blocked_recursion'))
    BY <2>1, <2>5, <2>6, <2>7, <2>8 DEF Regular
  <2> QED
    BY <2>9 DEF ShapeInv, Shape
<1>21. CASE UNCHANGED vars
  BY <1>21 DEF vars, ShapeInv
<1> QED
  BY <1>1, <1>2, <1>3, <1>4, <1>5, <1>6, <1>7, <1>8, <1>9, <1>10, <1>11, <1>12, <1>13, <1>14,
     <1>15, <1>16, <1>17, <1>18, <1>19, <1>20, <1>21 DEF Next, Step

\* The native stack stays within one frame of the descent cap, for every
\* image, seed order, jump-table answer and setting of the caps, as long as
\* FLIRT makes no functions from inside a report: what add_code_flow enters
\* from its deferred and blocked lists, past the check of the cap, is at most
\* the draining function itself, once.
THEOREM StackIsBounded ==
  ASSUME \A f \in Va : LocalNames[f] = <<>>
  PROVE  Spec => []NativeDepthBounded
<1>1. Init => InsnInv /\ NamesInv /\ PathInv /\ KnownInv /\ QueueInv /\ ShapeInv
  <2> SUFFICES ASSUME Init PROVE InsnInv /\ NamesInv /\ PathInv /\ KnownInv /\ QueueInv /\ ShapeInv
    OBVIOUS
  <2>1. Cardinality(functions) <= MaxFunctions
    BY FS_EmptySet, CodeFlowAssumption DEF Init
  <2>2. InsnInv /\ NamesInv /\ PathInv
    BY DEF Init, InsnInv, NamesInv, PathInv
  <2>3. KnownInv
    BY <2>1 DEF Init, KnownInv, ToSet, IsInjective
  <2>4. QueueInv
    BY DEF Init, QueueInv, Queue, ToSet, IsInjective
  <2>5. ToSet(blocked_recursion) = {}
    BY DEF Init, ToSet
  <2>6. ShapeInv
    BY <2>5 DEF Init, ShapeInv, Shape
  <2> QED
    BY <2>2, <2>3, <2>4, <2>6
<1>2. TypeInv /\ ShapeInv => NativeDepthBounded
  <2>1. 0 <= MaxDescent + 1 /\ MaxDescent <= MaxDescent + 1 /\ MaxDescent \in Nat
    BY CodeFlowAssumption
  <2>2. ASSUME stack = <<>> PROVE NativeDepthBounded
    BY <2>1, <2>2 DEF NativeDepthBounded
  <2>3. ASSUME ShapeInv, stack # <<>>, TypeInv PROVE NativeDepthBounded
    BY <2>1, <2>3 DEF NativeDepthBounded, ShapeInv, Shape, Regular, Again, TypeInv
  <2> QED
    BY <2>2, <2>3
<1>3. TypeInv /\ KnownInv /\ PathInv /\ QueueInv /\ [Next]_vars => QueueInv'
  BY QueueStep
<1>4. TypeInv /\ KnownInv /\ [Next]_vars => KnownInv'
  BY KnownStep
<1> QED
  BY <1>1, <1>2, <1>3, <1>4, ShapeStep, CodeFlowTypes, InsnStep, NamesStep, PathStep, PTL DEF Spec

-----------------------------------------------------------------------------
(***************************************************************************)
(* The blocks of a function.                                               *)
(***************************************************************************)

\* Everything defined is an instruction, and every edge ends in Va.
BlockInv ==
    /\ \A v \in DOMAIN locations : locations[v].type = "op"
    /\ \A e \in DOMAIN xrefs : e[2] \in Va

\* get_location returns the location that covers va.
LEMMA LocationCovers ==
  ASSUME TypeInv, NEW va \in Va, NEW loc, loc = GetLocation(locations, va)
  PROVE  /\ loc # NoVa => Covers(locations, loc, va)
         /\ \A s \in DOMAIN locations : Covers(locations, s, va) => loc = s
<1>1. DOMAIN locations \subseteq Va /\ DOMAIN locations \subseteq Int /\ va \in Int
  BY VaAssumption DEF TypeInv, DbType, Va
<1> DEFINE before == {s \in DOMAIN locations : s <= va}
<1>2. CASE before = {}
  BY <1>1, <1>2 DEF GetLocation, Covers
<1>3. CASE before # {}
  <2>1. \E x \in before : \A y \in before : y <= x
    BY <1>1, <1>3, GreatestVa
  <2>2. PICK start : start = CHOOSE s \in before : \A t \in before : t <= s
    OBVIOUS
  <2>3. start \in before /\ \A t \in before : t <= start
    BY <2>1, <2>2
  <2>4. loc = IF va < start + locations[start].size THEN start ELSE NoVa
    BY <1>3, <2>2 DEF GetLocation
  <2>5. \A s \in DOMAIN locations : Covers(locations, s, va) => s = start
    BY <1>1, <2>3 DEF Covers
  <2>6. va < start + locations[start].size => Covers(locations, start, va)
    BY <2>3 DEF Covers
  <2> QED
    BY <2>4, <2>5, <2>6 DEF Covers
<1> QED
  BY <1>2, <1>3

\* The walk moves forward and stays in Va.
LEMMA WalkForward ==
  ASSUME TypeInv, NEW va \in Va, NEW loc, loc = GetLocation(locations, va), loc # NoVa,
         code[va] # Bad
  PROVE  /\ loc \in DOMAIN locations /\ loc <= va
         /\ va + locations[loc].size \in Va /\ va < va + locations[loc].size
<1>1. Covers(locations, loc, va)
  BY LocationCovers
<1>2. /\ loc \in DOMAIN locations /\ loc \in Va /\ code[loc] \in Instruction
      /\ locations[loc].size = code[loc].len /\ code \in Programs
  BY <1>1 DEF TypeInv, DbType, Covers
<1>3. code[loc] # Bad /\ code[loc].len \in Nat \ {0}
  BY <1>2, CodeFlowAssumption DEF Instruction
<1>4. loc \in Nat /\ va \in Nat
  BY <1>2, VaAssumption DEF Va
<1>5. va \in loc .. (loc + code[loc].len - 1)
  BY <1>1, <1>2, <1>3, <1>4 DEF Covers
<1>6. va + code[loc].len \in Va
  BY <1>2, <1>3, <1>5, ImageAssumption
<1> QED
  BY <1>1, <1>2, <1>3, <1>4, <1>6 DEF Covers

\* One turn of the walk at va, with f for the rest of it.
WalkTurn(f, va) ==
    LET loc  == GetLocation(locations, va)
        next == va + locations[loc].size
    IN  IF loc = NoVa \/ locations[loc].type # "op"
        THEN [end |-> va, marks |-> TRUE, todo |-> {}]
        ELSE IF code[va] = Bad
        THEN [end |-> NoVa, marks |-> FALSE, todo |-> {}]
        ELSE IF EndsBlock(code, xrefs, va, loc, next)
        THEN [end   |-> next,
              marks |-> PushesEndMarker(code[loc]),
              todo  |-> FlowTargets(xrefs, va) \cup
                        {n \in {next} : IsFallthrough(code[loc])}]
        ELSE f[next]

Walks(f, m) == f = [va \in m .. MaxVa |-> WalkTurn(f, va)]

\* A turn looks at later turns only.
LEMMA TurnLocal ==
  ASSUME TypeInv, NEW va \in Va, NEW f, NEW g,
         \A w \in Va : va < w => f[w] = g[w]
  PROVE  WalkTurn(f, va) = WalkTurn(g, va)
<1>1. PICK loc, next : loc = GetLocation(locations, va) /\ next = va + locations[loc].size
  OBVIOUS
<1>2. CASE loc = NoVa \/ code[va] = Bad
  BY <1>1, <1>2 DEF WalkTurn
<1>3. CASE loc # NoVa /\ code[va] # Bad
  <2>1. f[next] = g[next]
    BY <1>1, <1>3, WalkForward
  <2> QED
    BY <1>1, <2>1 DEF WalkTurn
<1> QED
  BY <1>2, <1>3

\* The function BlockWalk defines exists: were there a last address from which
\* there is none, the function of the addresses behind it could be extended.
LEMMA WalkExists ==
  ASSUME TypeInv
  PROVE  \E f : Walks(f, 0)
<1> DEFINE Lacks == {m \in Va : ~\E f : Walks(f, m)}
<1>0. 0 \in Va /\ Va \subseteq Nat /\ MaxVa \in Nat
  BY VaAssumption DEF Va
<1>1. SUFFICES ASSUME Lacks # {} PROVE FALSE
  BY <1>0
<1>2. PICK n \in Lacks : \A m \in Lacks : m <= n
  <2>1. Lacks \subseteq Va
    OBVIOUS
  <2> QED
    BY <1>1, <2>1, GreatestVa
<1>3. n \in Va /\ n \in Nat /\ n <= MaxVa
  BY <1>0, <1>2 DEF Va
<1>4. PICK f : n < MaxVa => Walks(f, n + 1)
  <2>1. n < MaxVa => n + 1 \in Va /\ n + 1 \notin Lacks
    BY <1>0, <1>2, <1>3 DEF Va
  <2> QED
    BY <2>1
<1>5. ASSUME NEW w \in Va, n < w PROVE f[w] = WalkTurn(f, w)
  <2>1. n < MaxVa /\ w \in (n + 1) .. MaxVa
    BY <1>0, <1>3, <1>5 DEF Va
  <2>2. f = [va \in (n + 1) .. MaxVa |-> WalkTurn(f, va)]
    BY <1>4, <2>1 DEF Walks
  <2> QED
    BY <2>1, <2>2, Zenon
<1>6. PICK g : g = [va \in n .. MaxVa |-> WalkTurn(f, va)]
  OBVIOUS
<1>7. n .. MaxVa \subseteq Va /\ \A w \in Va : n < w => w \in n .. MaxVa
  BY <1>0, <1>3 DEF Va
<1>8. \A w \in Va : n < w => f[w] = g[w]
  BY <1>5, <1>6, <1>7
<1>9. ASSUME NEW va \in n .. MaxVa PROVE WalkTurn(f, va) = WalkTurn(g, va)
  <2>1. va \in Va /\ \A w \in Va : va < w => n < w
    BY <1>3, <1>7, VaAssumption DEF Va
  <2>2. \A w \in Va : va < w => f[w] = g[w]
    BY <1>8, <2>1
  <2> QED
    BY <2>1, <2>2, TurnLocal
<1>10. g = [va \in n .. MaxVa |-> WalkTurn(g, va)]
  BY <1>6, <1>9
<1> QED
  BY <1>2, <1>10 DEF Walks

\* BlockWalk unfolded.
LEMMA WalkDef ==
  ASSUME TypeInv, NEW walk, walk = BlockWalk(code, locations, xrefs)
  PROVE  \A va \in Va : walk[va] = WalkTurn(walk, va)
<1>1. PICK f : f = [va \in Va |-> WalkTurn(f, va)]
  BY WalkExists DEF Walks, Va
<1>2. walk = [va \in Va |-> WalkTurn(walk, va)]
  BY <1>1, Zenon DEF BlockWalk, WalkTurn
<1> QED
  BY <1>2, Zenon

\* The four ways a turn goes.
TurnStops(walk, va) ==
    /\ GetLocation(locations, va) = NoVa
    /\ walk[va] = [end |-> va, marks |-> TRUE, todo |-> {}]

TurnBreaks(walk, va) == walk[va] = [end |-> NoVa, marks |-> FALSE, todo |-> {}]

TurnEnds(walk, va, loc, next) ==
    /\ loc = GetLocation(locations, va) /\ next = va + locations[loc].size
    /\ loc # NoVa /\ code[va] # Bad
    /\ EndsBlock(code, xrefs, va, loc, next)
    /\ walk[va].end = next
    /\ walk[va].marks = PushesEndMarker(code[loc])
    /\ walk[va].todo = FlowTargets(xrefs, va) \cup {n \in {next} : IsFallthrough(code[loc])}

TurnGoesOn(walk, va, loc, next) ==
    /\ loc = GetLocation(locations, va) /\ next = va + locations[loc].size
    /\ loc # NoVa /\ code[va] # Bad
    /\ ~EndsBlock(code, xrefs, va, loc, next)
    /\ walk[va] = walk[next]

LEMMA WalkTurns ==
  ASSUME TypeInv, BlockInv, NEW walk, walk = BlockWalk(code, locations, xrefs), NEW va \in Va
  PROVE  \/ TurnStops(walk, va)
         \/ TurnBreaks(walk, va)
         \/ \E loc, next : TurnEnds(walk, va, loc, next) \/ TurnGoesOn(walk, va, loc, next)
<1>1. PICK loc, next : loc = GetLocation(locations, va) /\ next = va + locations[loc].size
  OBVIOUS
<1>2. walk[va] = WalkTurn(walk, va)
  BY WalkDef
<1>3. loc # NoVa => locations[loc].type = "op"
  BY <1>1, LocationCovers DEF BlockInv, Covers
<1>4. CASE loc = NoVa
  BY <1>1, <1>2, <1>4 DEF WalkTurn, TurnStops
<1>5. CASE loc # NoVa /\ code[va] = Bad
  BY <1>1, <1>2, <1>3, <1>5 DEF WalkTurn, TurnBreaks
<1>6. CASE loc # NoVa /\ code[va] # Bad /\ EndsBlock(code, xrefs, va, loc, next)
  <2>1. walk[va] = [end   |-> next,
                    marks |-> PushesEndMarker(code[loc]),
                    todo  |-> FlowTargets(xrefs, va) \cup
                              {n \in {next} : IsFallthrough(code[loc])}]
    BY <1>1, <1>2, <1>3, <1>6 DEF WalkTurn
  <2> QED
    BY <1>1, <1>6, <2>1 DEF TurnEnds
<1>7. CASE loc # NoVa /\ code[va] # Bad /\ ~EndsBlock(code, xrefs, va, loc, next)
  BY <1>1, <1>2, <1>3, <1>7 DEF WalkTurn, TurnGoesOn
<1> QED
  BY <1>4, <1>5, <1>6, <1>7

\* What a walk leaves: its targets are addresses, and where it ends, if it
\* records an end, it has left an end marker or pushed a block start.
WalkLeaves(r, va) ==
    /\ r.todo \subseteq Va
    /\ r.end # NoVa => r.end \in Va /\ va <= r.end /\ (r.marks \/ r.end \in r.todo)

LEMMA WalkEnds ==
  ASSUME TypeInv, BlockInv, NEW walk, walk = BlockWalk(code, locations, xrefs)
  PROVE  \A va \in Va : WalkLeaves(walk[va], va)
<1> DEFINE Wrong == {va \in Va : ~WalkLeaves(walk[va], va)}
<1>1. SUFFICES ASSUME Wrong # {} PROVE FALSE
  OBVIOUS
<1>2. PICK va \in Wrong : \A w \in Wrong : w <= va
  <2>1. Wrong \subseteq Va
    OBVIOUS
  <2> QED
    BY <1>1, <2>1, GreatestVa
<1>3. va \in Va /\ va \in Nat /\ Va \subseteq Nat /\ ~WalkLeaves(walk[va], va)
  BY <1>2, VaAssumption DEF Va
<1>4. CASE TurnStops(walk, va)
  BY <1>3, <1>4 DEF TurnStops, WalkLeaves
<1>5. CASE TurnBreaks(walk, va)
  BY <1>3, <1>5 DEF TurnBreaks, WalkLeaves
<1>6. ASSUME NEW loc, NEW next, TurnEnds(walk, va, loc, next) PROVE FALSE
  <2>1. next \in Va /\ va < next
    BY <1>3, <1>6, WalkForward DEF TurnEnds
  <2>2. FlowTargets(xrefs, va) \subseteq Va
    BY DEF BlockInv, FlowTargets, CodeXrefsFrom
  <2>3. walk[va].todo \subseteq Va
    BY <1>6, <2>1, <2>2 DEF TurnEnds
  <2>4. walk[va].marks \/ next \in walk[va].todo
    BY <1>6 DEF TurnEnds, PushesEndMarker
  <2> QED
    BY <1>3, <1>6, <2>1, <2>3, <2>4 DEF TurnEnds, WalkLeaves
<1>7. ASSUME NEW loc, NEW next, TurnGoesOn(walk, va, loc, next) PROVE FALSE
  <2>1. next \in Va /\ va < next
    BY <1>3, <1>7, WalkForward DEF TurnGoesOn
  <2>2. WalkLeaves(walk[next], next)
    BY <1>2, <1>3, <2>1
  <2>3. PICK r : r = walk[va] /\ r = walk[next]
    BY <1>7 DEF TurnGoesOn
  <2>4. \A e \in Va : next <= e => va <= e
    BY <1>3, <2>1
  <2>5. WalkLeaves(r, va)
    BY <2>2, <2>3, <2>4 DEF WalkLeaves
  <2> QED
    BY <1>3, <2>3, <2>5
<1> QED
  BY <1>3, <1>4, <1>5, <1>6, <1>7, WalkTurns

-----------------------------------------------------------------------------
(***************************************************************************)
(* The block starts.                                                       *)
(***************************************************************************)

Wider(walk, S) == S \cup UNION {walk[s].todo : s \in S}

Widens(f, walk, fva, n) ==
    f = [k \in 0 .. n |-> IF k = 0 THEN {fva} ELSE Wider(walk, f[k - 1])]

\* The function of the rounds of BlockStarts exists.
LEMMA RoundsExist ==
  ASSUME NEW n \in Nat, NEW walk, NEW fva
  PROVE  \E f : Widens(f, walk, fva, n)
<1> DEFINE Round(f, k) == IF k = 0 THEN {fva} ELSE Wider(walk, f[k - 1])
           Lacks == {m \in 0 .. n : ~\E f : f = [k \in 0 .. m |-> Round(f, k)]}
<1>1. SUFFICES ASSUME Lacks # {} PROVE FALSE
  <2> HIDE DEF Round
  <2>1. Lacks = {} => \E f : f = [k \in 0 .. n |-> Round(f, k)]
    OBVIOUS
  <2> QED
    BY <2>1 DEF Round, Widens
<1>0. Lacks \subseteq Nat /\ Lacks \subseteq 0 .. n
  OBVIOUS
<1>2. PICK m \in Lacks : \A l \in Lacks : m <= l
  <2> HIDE DEF Lacks
  <2> QED
    BY <1>0, <1>1, LeastNatural
<1>3. m # 0
  <2> DEFINE f == [k \in 0 .. 0 |-> {fva}]
  <2>1. f = [k \in 0 .. 0 |-> Round(f, k)]
    OBVIOUS
  <2> QED
    BY <2>1
<1>4. m - 1 \in 0 .. n /\ m \in 1 .. n /\ m - 1 \notin Lacks
  <2> HIDE DEF Lacks
  <2> QED
    BY <1>0, <1>2, <1>3
<1>5. PICK f : f = [k \in 0 .. (m - 1) |-> Round(f, k)]
  BY <1>4
<1> DEFINE g == [k \in 0 .. m |-> Round(f, k)]
<1>6. \A k \in 0 .. (m - 1) : f[k] = g[k]
  <2>1. \A k \in 0 .. (m - 1) : f[k] = Round(f, k)
    BY <1>5, Zenon
  <2>2. \A k \in 0 .. (m - 1) : k \in 0 .. m
    BY <1>4
  <2> QED
    BY <2>1, <2>2
<1>7. ASSUME NEW k \in 0 .. m PROVE Round(f, k) = Round(g, k)
  <2>1. k # 0 => k - 1 \in 0 .. (m - 1)
    BY <1>4
  <2> HIDE DEF g
  <2> QED
    BY <1>6, <2>1
<1>8. g = [k \in 0 .. m |-> Round(g, k)]
  BY <1>7
<1> QED
  BY <1>2, <1>8

\* Where the block starts of a function come from: its entry is one, what the
\* walk from one pushes is one, and there are no others.
Closes(walk, fva, S) ==
    /\ fva \in S /\ S \subseteq Va
    /\ \A s \in S : walk[s].todo \subseteq S
    /\ \A t \in S : t = fva \/ \E s \in Va : t \in walk[s].todo

\* As many rounds as there are addresses reach every block start.
LEMMA StartsClose ==
  ASSUME NEW walk, \A s \in Va : walk[s].todo \subseteq Va,
         NEW fva \in Va, NEW starts, starts = BlockStarts(walk, fva)
  PROVE  Closes(walk, fva, starts)
<1>1. PICK n \in Nat : n = Cardinality(Va)
  BY FunctionsFinite
<1>2. PICK f : Widens(f, walk, fva, n)
  BY RoundsExist
<1>3. PICK g : Widens(g, walk, fva, n) /\ starts = g[n]
  <2> DEFINE Rounds == CHOOSE h : h = [k \in 0 .. Cardinality(Va) |->
                           IF k = 0 THEN {fva}
                           ELSE h[k - 1] \cup UNION {walk[s].todo : s \in h[k - 1]}]
  <2>1. f = [k \in 0 .. Cardinality(Va) |->
               IF k = 0 THEN {fva} ELSE f[k - 1] \cup UNION {walk[s].todo : s \in f[k - 1]}]
    BY <1>1, <1>2 DEF Widens, Wider
  <2>2. Rounds = [k \in 0 .. Cardinality(Va) |->
               IF k = 0 THEN {fva}
               ELSE Rounds[k - 1] \cup UNION {walk[s].todo : s \in Rounds[k - 1]}]
    BY <2>1, Zenon
  <2>3. starts = Rounds[Cardinality(Va)]
    BY Zenon DEF BlockStarts
  <2> HIDE DEF Rounds
  <2> QED
    BY <1>1, <2>2, <2>3 DEF Widens, Wider
<1>4. g[0] = {fva} /\ \A k \in 1 .. n : g[k] = Wider(walk, g[k - 1])
  <2>1. \A k \in 0 .. n : g[k] = IF k = 0 THEN {fva} ELSE Wider(walk, g[k - 1])
    BY <1>3, Zenon DEF Widens
  <2>2. 0 \in 0 .. n /\ \A k \in 1 .. n : k \in 0 .. n /\ k # 0
    OBVIOUS
  <2> QED
    BY <2>1, <2>2
<1> DEFINE Closed(S) == \A s \in S : walk[s].todo \subseteq S
           Sourced(S) == \A t \in S : t = fva \/ \E s \in Va : t \in walk[s].todo
           Good(k) == /\ fva \in g[k] /\ g[k] \subseteq Va /\ Sourced(g[k])
                      /\ Closed(g[k]) \/ Cardinality(g[k]) >= k
           Wrong == {k \in 0 .. n : ~Good(k)}
<1>f. ASSUME NEW S, S \subseteq Va
      PROVE  /\ IsFiniteSet(S) /\ Cardinality(S) \in Nat /\ Cardinality(S) <= n
             /\ Cardinality(S) = n => S = Va
  <2>1. IsFiniteSet(Va)
    BY FunctionsFinite
  <2> QED
    BY <1>1, <1>f, <2>1, FS_Subset, FunctionsFinite
<1>5. ASSUME NEW S, S \subseteq Va, Sourced(S)
      PROVE  /\ S \subseteq Wider(walk, S) /\ Wider(walk, S) \subseteq Va /\ Sourced(Wider(walk, S))
             /\ ~Closed(S) => Cardinality(Wider(walk, S)) >= Cardinality(S) + 1
             /\ Closed(S) => Wider(walk, S) = S
  <2>1. PICK W : W = Wider(walk, S)
    OBVIOUS
  <2>2. \A y : y \in W <=> y \in S \/ \E s \in S : y \in walk[s].todo
    BY <2>1, Zenon DEF Wider
  <2>3. S \subseteq W /\ W \subseteq Va /\ Sourced(W)
    BY <1>5, <2>2
  <2>4. ASSUME ~Closed(S) PROVE Cardinality(W) >= Cardinality(S) + 1
    <3>1. S # W
      BY <2>2, <2>4
    <3>2. IsFiniteSet(S) /\ IsFiniteSet(W) /\ Cardinality(S) \in Nat /\ Cardinality(W) \in Nat
      BY <1>5, <1>f, <2>3
    <3>3. Cardinality(S) <= Cardinality(W) /\ Cardinality(S) # Cardinality(W)
      BY <2>3, <3>1, <3>2, FS_Subset
    <3> QED
      BY <3>2, <3>3
  <2>5. ASSUME Closed(S) PROVE W = S
    BY <2>2, <2>5
  <2> QED
    BY <2>1, <2>3, <2>4, <2>5
<1>6. Wrong = {}
  <2>1. SUFFICES ASSUME Wrong # {} PROVE FALSE
    OBVIOUS
  <2>2. Wrong \subseteq Nat /\ Wrong \subseteq 0 .. n
    OBVIOUS
  <2>3. PICK k \in Wrong : \A l \in Wrong : k <= l
    <3> HIDE DEF Wrong
    <3> QED
      BY <2>1, <2>2, LeastNatural
  <2>4. k # 0
    <3>1. {fva} \subseteq Va /\ Sourced({fva})
      OBVIOUS
    <3>2. Cardinality({fva}) >= 0
      BY <1>f, <3>1
    <3>3. Good(0)
      BY <1>4, <3>1, <3>2
    <3> QED
      BY <2>3, <3>3
  <2>5. k - 1 \in 0 .. n /\ k \in 1 .. n /\ k - 1 \notin Wrong
    <3> HIDE DEF Wrong
    <3> QED
      BY <2>2, <2>3, <2>4
  <2>6. Good(k - 1)
    BY <2>5
  <2>7. PICK S, W : S = g[k - 1] /\ W = Wider(walk, S)
    OBVIOUS
  <2>8. S \subseteq Va /\ fva \in S /\ Sourced(S) /\ g[k] = W
    BY <1>4, <2>5, <2>6, <2>7
  <2>9. /\ S \subseteq W /\ W \subseteq Va /\ Sourced(W)
        /\ ~Closed(S) => Cardinality(W) >= Cardinality(S) + 1
        /\ Closed(S) => W = S
    BY <1>5, <2>7, <2>8
  <2>10. Closed(W) \/ Cardinality(W) >= k
    <3>1. CASE Closed(S)
      BY <2>9, <3>1
    <3>2. CASE ~Closed(S)
      <4>1. Cardinality(S) >= k - 1 /\ Cardinality(W) >= Cardinality(S) + 1
        BY <2>6, <2>7, <2>9, <3>2
      <4>2. Cardinality(S) \in Nat /\ Cardinality(W) \in Nat /\ k \in Nat
        BY <1>f, <2>5, <2>8, <2>9
      <4>3. Cardinality(W) >= k
        BY <4>1, <4>2
      <4> QED
        BY <4>3
    <3> QED
      BY <3>1, <3>2
  <2>11. Good(k)
    BY <2>8, <2>9, <2>10
  <2> QED
    BY <2>3, <2>11
<1>7. Good(n)
  BY <1>6
<1>8. Closed(starts)
  <2>1. CASE Closed(g[n])
    BY <1>3, <2>1
  <2>2. CASE Cardinality(g[n]) >= n
    <3>1. g[n] \subseteq Va
      BY <1>7
    <3>2. Cardinality(g[n]) \in Nat /\ Cardinality(g[n]) <= n
      BY <1>f, <3>1
    <3>3. Cardinality(g[n]) = n
      BY <2>2, <3>2
    <3>4. g[n] = Va
      BY <1>f, <3>1, <3>3
    <3> QED
      BY <1>3, <3>4
  <2> QED
    BY <1>7, <2>1, <2>2
<1> QED
  BY <1>3, <1>7, <1>8 DEF Closes

-----------------------------------------------------------------------------
(***************************************************************************)
(* No block is lost, and blocks do not overlap.                            *)
(***************************************************************************)

\* The registration loop drops no block that has bytes: behind its start there
\* is a marker, where it ends.
LEMMA AllRegistered ==
  ASSUME TypeInv, BlockInv, NEW fva \in Va,
         NEW walk, walk = BlockWalk(code, locations, xrefs),
         NEW starts, starts = BlockStarts(walk, fva)
  PROVE  Registered(walk, starts) = {s \in starts : BlockSize(walk, s) # 0}
<1>1. \A va \in Va : WalkLeaves(walk[va], va)
  BY WalkEnds
<1>2. Closes(walk, fva, starts)
  BY <1>1, StartsClose DEF WalkLeaves
<1>3. PICK marked : marked = starts \cup {walk[s].end : s \in {t \in starts : walk[t].marks}}
  OBVIOUS
<1>4. ASSUME NEW s \in starts, BlockSize(walk, s) # 0
      PROVE  ~\A m \in marked : m <= s
  <2>1. s \in Va /\ s \in Int
    BY <1>2, VaAssumption DEF Closes, Va
  <2>2. WalkLeaves(walk[s], s)
    BY <1>1, <2>1
  <2>3. PICK e : e = walk[s].end
    OBVIOUS
  <2>4. e # NoVa /\ e \in Va /\ s <= e /\ e \in Int /\ e # s
    BY <1>4, <2>1, <2>2, <2>3, VaAssumption DEF WalkLeaves, BlockSize, Va
  <2>5. walk[s].marks => e \in marked
    BY <1>3, <2>3
  <2>6. e \in walk[s].todo => e \in marked
    BY <1>2, <1>3 DEF Closes
  <2>7. e \in marked
    BY <2>2, <2>3, <2>4, <2>5, <2>6 DEF WalkLeaves
  <2>8. ~(e <= s)
    BY <2>1, <2>4
  <2> QED
    BY <2>7, <2>8
<1>5. Registered(walk, starts)
        = {s \in starts : ~(\A m \in marked : m <= s) /\ BlockSize(walk, s) # 0}
  BY <1>3 DEF Registered
<1> QED
  BY <1>4, <1>5

\* Where a block other than the entry's may begin: at the target of an edge,
\* or behind an instruction that flow leaves.
Cut(t) ==
    \/ HasCodeXrefTo(xrefs, t)
    \/ \E v \in DOMAIN locations : FlowTargets(xrefs, v) # {} /\ t = v + locations[v].size

\* With aligned instructions, the location that covers a decoded address
\* starts there.
LEMMA AlignedStart ==
  ASSUME TypeInv, Aligned, NEW v \in DOMAIN locations
  PROVE  /\ v \in Va /\ v \in Nat /\ locations[v].size \in Nat \ {0}
         /\ GetLocation(locations, v) = v
<1>1. v \in Va /\ v \in Nat /\ locations[v].size \in Nat \ {0} /\ DOMAIN locations \subseteq Int
  BY VaAssumption DEF TypeInv, DbType, Va, Instruction
<1>2. Covers(locations, v, v)
  BY <1>1 DEF Covers
<1> QED
  BY <1>1, <1>2, LocationCovers

\* An instruction does not reach over a cut.
LEMMA CutClear ==
  ASSUME TypeInv, Aligned, NEW t \in Va, Cut(t), NEW p \in DOMAIN locations, p < t
  PROVE  p + locations[p].size <= t
<1>1. p \in Nat /\ locations[p].size \in Nat \ {0} /\ t \in Nat
  BY AlignedStart, VaAssumption DEF Va
<1>2. CASE HasCodeXrefTo(xrefs, t)
  BY <1>2 DEF HasCodeXrefTo, Aligned
<1>3. ASSUME NEW v \in DOMAIN locations, t = v + locations[v].size
      PROVE  p + locations[p].size <= t
  <2>1. v \in Nat /\ locations[v].size \in Nat \ {0}
    BY AlignedStart
  <2>2. CASE p < v
    BY <1>1, <1>3, <2>1, <2>2 DEF Aligned
  <2>3. CASE p = v
    BY <1>1, <1>3, <2>1, <2>3
  <2>4. CASE v < p
    <3>1. v + locations[v].size <= p
      BY <2>4 DEF Aligned
    <3> QED
      BY <1>1, <1>3, <2>1, <3>1
  <2> QED
    BY <1>1, <2>1, <2>2, <2>3, <2>4
<1> QED
  BY <1>2, <1>3 DEF Cut

\* A place the walk keeps to: the start of an instruction, or undefined.
Clean(p) == GetLocation(locations, p) \in {p, NoVa}

LEMMA ClearIsClean ==
  ASSUME TypeInv, NEW t \in Va,
         \A p \in DOMAIN locations : p < t => p + locations[p].size <= t
  PROVE  Clean(t)
<1>1. PICK loc : loc = GetLocation(locations, t)
  OBVIOUS
<1>2. SUFFICES ASSUME loc # NoVa PROVE loc = t
  BY <1>1 DEF Clean
<1>3. Covers(locations, loc, t)
  BY <1>1, <1>2, LocationCovers
<1>4. loc \in Int /\ t \in Int /\ locations[loc].size \in Int
  BY <1>3, VaAssumption DEF Covers, TypeInv, DbType, Va, Instruction
<1> QED
  BY <1>3, <1>4 DEF Covers

\* Behind an aligned instruction the walk is clean.
LEMMA NextClean ==
  ASSUME TypeInv, Aligned, NEW v \in DOMAIN locations, v + locations[v].size \in Va
  PROVE  Clean(v + locations[v].size)
<1>1. PICK t : t = v + locations[v].size
  OBVIOUS
<1>2. v \in Nat /\ locations[v].size \in Nat \ {0}
  BY AlignedStart
<1>3. ASSUME NEW p \in DOMAIN locations, p < t PROVE p + locations[p].size <= t
  <2>1. p \in Nat /\ locations[p].size \in Nat \ {0}
    BY AlignedStart
  <2>2. CASE p < v
    BY <1>1, <1>2, <2>1, <2>2 DEF Aligned
  <2>3. CASE p = v
    BY <1>1, <1>2, <2>1, <2>3
  <2>4. CASE v < p
    <3>1. v + locations[v].size <= p
      BY <2>4 DEF Aligned
    <3> QED
      BY <1>1, <1>2, <1>3, <2>1, <3>1
  <2> QED
    BY <1>2, <2>1, <2>2, <2>3, <2>4
<1> QED
  BY <1>1, <1>3, ClearIsClean

\* A walk from a clean place in front of a cut ends at the cut or before it.
LEMMA WalkMeetsCut ==
  ASSUME TypeInv, BlockInv, Aligned, NEW t \in Va, Cut(t),
         NEW walk, walk = BlockWalk(code, locations, xrefs)
  PROVE  \A p \in Va : Clean(p) /\ p < t => walk[p].end = NoVa \/ walk[p].end <= t
<1> DEFINE Short(p) == Clean(p) /\ p < t => walk[p].end = NoVa \/ walk[p].end <= t
           Wrong == {p \in Va : ~Short(p)}
<1>1. SUFFICES ASSUME Wrong # {} PROVE FALSE
  OBVIOUS
<1>2. PICK p \in Wrong : \A q \in Wrong : q <= p
  <2>1. Wrong \subseteq Va
    OBVIOUS
  <2> HIDE DEF Wrong
  <2> QED
    BY <1>1, <2>1, GreatestVa
<1>3. p \in Va /\ p \in Nat /\ t \in Nat /\ Va \subseteq Nat /\ Clean(p) /\ p < t
  BY <1>2, VaAssumption DEF Va
<1>4. walk[p].end # NoVa /\ ~(walk[p].end <= t)
  BY <1>2
<1>c. ASSUME NEW loc, NEW next, loc = GetLocation(locations, p), loc # NoVa, code[p] # Bad,
             next = p + locations[loc].size
      PROVE  loc = p /\ p \in DOMAIN locations /\ next \in Va /\ p < next /\ next <= t
  <2>1. loc = p
    BY <1>3, <1>c DEF Clean
  <2>2. loc \in DOMAIN locations /\ next \in Va /\ p < next
    BY <1>3, <1>c, WalkForward
  <2> QED
    BY <1>3, <1>c, <2>1, <2>2, CutClear
<1>5. CASE TurnStops(walk, p)
  BY <1>3, <1>4, <1>5 DEF TurnStops
<1>6. CASE TurnBreaks(walk, p)
  BY <1>4, <1>6 DEF TurnBreaks
<1>7. ASSUME NEW loc, NEW next, TurnEnds(walk, p, loc, next) PROVE FALSE
  BY <1>c, <1>4, <1>7 DEF TurnEnds
<1>8. ASSUME NEW loc, NEW next, TurnGoesOn(walk, p, loc, next) PROVE FALSE
  <2>1. /\ loc = p /\ p \in DOMAIN locations /\ next \in Va /\ p < next /\ next <= t
        /\ next = p + locations[p].size /\ walk[p] = walk[next]
    BY <1>c, <1>8 DEF TurnGoesOn
  <2>2. ~HasCodeXrefTo(xrefs, next) /\ FlowTargets(xrefs, p) = {}
    BY <1>8, <2>1 DEF TurnGoesOn, EndsBlock
  <2>3. next # t
    <3>1. SUFFICES ASSUME next = t PROVE FALSE
      OBVIOUS
    <3>2. PICK v \in DOMAIN locations : FlowTargets(xrefs, v) # {} /\ t = v + locations[v].size
      BY <2>2, <3>1 DEF Cut
    <3>3. /\ v \in Nat /\ locations[v].size \in Nat \ {0}
          /\ p \in Nat /\ locations[p].size \in Nat \ {0}
      BY <2>1, AlignedStart
    <3>4. p # v
      BY <2>2, <3>2
    <3>5. CASE p < v
      <4>1. p + locations[p].size <= v
        BY <2>1, <3>5 DEF Aligned
      <4> QED
        BY <2>1, <3>1, <3>2, <3>3, <4>1
    <3>6. CASE v < p
      <4>1. v + locations[v].size <= p
        BY <2>1, <3>6 DEF Aligned
      <4> QED
        BY <2>1, <3>1, <3>2, <3>3, <4>1
    <3> QED
      BY <3>3, <3>4, <3>5, <3>6
  <2>4. next < t
    BY <1>3, <2>1, <2>3
  <2>5. Clean(next)
    BY <2>1, NextClean
  <2>6. next \notin Wrong
    BY <1>2, <1>3, <2>1
  <2>7. Short(next)
    BY <2>1, <2>6
  <2> QED
    BY <1>4, <2>1, <2>4, <2>5, <2>7
<1> QED
  BY <1>3, <1>5, <1>6, <1>7, <1>8, WalkTurns

\* What a walk pushes is a cut.
LEMMA PushedIsCut ==
  ASSUME TypeInv, EdgeInv, BlockInv, Aligned,
         NEW walk, walk = BlockWalk(code, locations, xrefs)
  PROVE  \A p \in Va : \A t \in walk[p].todo : Cut(t)
<1> DEFINE Wrong == {p \in Va : ~\A t \in walk[p].todo : Cut(t)}
<1>1. SUFFICES ASSUME Wrong # {} PROVE FALSE
  OBVIOUS
<1>2. PICK p \in Wrong : \A q \in Wrong : q <= p
  <2>1. Wrong \subseteq Va
    OBVIOUS
  <2> HIDE DEF Wrong
  <2> QED
    BY <1>1, <2>1, GreatestVa
<1>3. p \in Va /\ p \in Nat /\ Va \subseteq Nat
  BY <1>2, VaAssumption DEF Va
<1>4. PICK t \in walk[p].todo : ~Cut(t)
  BY <1>2
<1>5. CASE TurnStops(walk, p)
  BY <1>4, <1>5 DEF TurnStops
<1>6. CASE TurnBreaks(walk, p)
  BY <1>4, <1>6 DEF TurnBreaks
<1>7. ASSUME NEW loc, NEW next, TurnEnds(walk, p, loc, next) PROVE FALSE
  <2>1. t \notin FlowTargets(xrefs, p)
    BY <1>4 DEF Cut, FlowTargets, CodeXrefsFrom, HasCodeXrefTo
  <2>2. t = next /\ IsFallthrough(code[loc])
    BY <1>4, <1>7, <2>1 DEF TurnEnds
  <2>3. FlowTargets(xrefs, p) # {}
    BY <1>4, <1>7, <2>2 DEF TurnEnds, EndsBlock, Cut
  <2>4. p \in DOMAIN locations
    BY <2>3 DEF FlowTargets, CodeXrefsFrom, EdgeInv
  <2>5. loc = p /\ next = p + locations[p].size
    BY <1>7, <2>4, AlignedStart DEF TurnEnds
  <2> QED
    BY <1>4, <2>2, <2>3, <2>4, <2>5 DEF Cut
<1>8. ASSUME NEW loc, NEW next, TurnGoesOn(walk, p, loc, next) PROVE FALSE
  <2>1. next \in Va /\ p < next /\ walk[p] = walk[next]
    BY <1>3, <1>8, WalkForward DEF TurnGoesOn
  <2>2. next \notin Wrong
    BY <1>2, <1>3, <2>1
  <2> QED
    BY <1>4, <2>1, <2>2
<1> QED
  BY <1>3, <1>5, <1>6, <1>7, <1>8, WalkTurns

\* Blocks other than the entry's that do not overlap.
Tiled(fva, found) ==
    \A b, c \in {d \in found : d.va # fva} :
        b # c => b.va + b.size <= c.va \/ c.va + c.size <= b.va

LEMMA BlocksApart ==
  ASSUME TypeInv, EdgeInv, BlockInv, Aligned, NEW fva \in Va
  PROVE  Tiled(fva, AnalyzeFunction(code, locations, xrefs, fva))
<1>1. PICK walk, starts : /\ walk = BlockWalk(code, locations, xrefs)
                          /\ starts = BlockStarts(walk, fva)
  OBVIOUS
<1>2. \A va \in Va : WalkLeaves(walk[va], va)
  BY <1>1, WalkEnds
<1>3. Closes(walk, fva, starts)
  BY <1>1, <1>2, StartsClose DEF WalkLeaves
<1>4. AnalyzeFunction(code, locations, xrefs, fva)
        = {[va |-> s, size |-> BlockSize(walk, s)] : s \in Registered(walk, starts)}
  BY <1>1 DEF AnalyzeFunction
<1>5. \A t \in starts : t # fva => t \in Va /\ Cut(t) /\ Clean(t)
  <2>1. TAKE t \in starts
  <2>2. HAVE t # fva
  <2>3. t \in Va /\ Cut(t)
    BY <1>1, <1>3, <2>2, PushedIsCut DEF Closes
  <2>4. \A p \in DOMAIN locations : p < t => p + locations[p].size <= t
    BY <2>3, CutClear
  <2> QED
    BY <2>3, <2>4, ClearIsClean
<1>6. ASSUME NEW s \in Registered(walk, starts), NEW t \in Registered(walk, starts),
             s # fva, t # fva, s < t
      PROVE  s + BlockSize(walk, s) <= t
  <2>1. /\ s \in starts /\ t \in starts /\ BlockSize(walk, s) # 0
    BY <1>6 DEF Registered
  <2>2. s \in Va /\ t \in Va /\ Cut(t) /\ Clean(s) /\ s \in Int /\ t \in Int
    BY <1>5, <1>6, <2>1, VaAssumption DEF Va
  <2>3. PICK e : e = walk[s].end
    OBVIOUS
  <2>4. e # NoVa /\ BlockSize(walk, s) = e - s
    BY <2>1, <2>3 DEF BlockSize
  <2>5. e <= t
    BY <1>1, <1>6, <2>2, <2>3, <2>4, WalkMeetsCut
  <2>6. e \in Int
    BY <1>2, <2>2, <2>3, <2>4, VaAssumption DEF WalkLeaves, Va
  <2> QED
    BY <2>2, <2>4, <2>5, <2>6
<1>7. SUFFICES ASSUME NEW b \in AnalyzeFunction(code, locations, xrefs, fva),
                      NEW c \in AnalyzeFunction(code, locations, xrefs, fva),
                      b.va # fva, c.va # fva, b # c
               PROVE  b.va + b.size <= c.va \/ c.va + c.size <= b.va
  BY DEF Tiled
<1>8. PICK s \in Registered(walk, starts) : b = [va |-> s, size |-> BlockSize(walk, s)]
  BY <1>4
<1>9. PICK t \in Registered(walk, starts) : c = [va |-> t, size |-> BlockSize(walk, t)]
  BY <1>4
<1>10. s # fva /\ t # fva /\ s # t /\ b.va = s /\ c.va = t
       /\ b.size = BlockSize(walk, s) /\ c.size = BlockSize(walk, t)
  BY <1>7, <1>8, <1>9
<1>11. s \in Int /\ t \in Int
  <2>1. s \in starts /\ t \in starts
    BY <1>8, <1>9 DEF Registered
  <2> QED
    BY <1>3, <2>1, VaAssumption DEF Closes, Va
<1>12. s < t \/ t < s
  BY <1>10, <1>11
<1> QED
  BY <1>6, <1>10, <1>12

-----------------------------------------------------------------------------
(***************************************************************************)
(* The databases only grow, so what is aligned now was aligned when the    *)
(* blocks were built.                                                      *)
(***************************************************************************)

DbsGrow ==
    /\ \A v \in DOMAIN locations : v \in DOMAIN locations' /\ locations'[v] = locations[v]
    /\ DOMAIN xrefs \subseteq DOMAIN xrefs'

LEMMA AlignedBefore == ASSUME DbsGrow, Aligned' PROVE Aligned
BY DEF DbsGrow, Aligned

\* A decoded instruction and a resolved table name addresses of Va.
LEMMA DatabaseStep ==
  TypeInv /\ InsnInv /\ BlockInv /\ [Next]_vars => BlockInv' /\ DbsGrow
<1> SUFFICES ASSUME TypeInv, InsnInv, BlockInv, [Next]_vars PROVE BlockInv' /\ DbsGrow
  OBVIOUS
<1> USE DEF deferralVars, discoveryVars
<1>1. CASE DecodeOpcode
  <2>1. PICK va, far : /\ va = Last(Top.optodo)
                       /\ far = {b \in ToSet(GetBranches(va)) : b.to # NoVa /\ "fall" \notin b.flags}
    OBVIOUS
  <2>2. /\ va \in Va /\ code[va] \in Instruction /\ ~Defined(locations, va)
        /\ locations' = AddLocation(locations, va, code[va].len, "op")
        /\ xrefs' = AddCodeXrefs(xrefs, va, far)
    BY <1>1, <2>1, DecodeOpcodeEffect DEF Decodable
  <2>3. va \notin DOMAIN locations
    BY <2>2, StartsDefined
  <2>4. /\ DOMAIN locations' = DOMAIN locations \cup {va}
        /\ locations'[va] = [size |-> code[va].len, type |-> "op"]
        /\ \A v \in DOMAIN locations : locations'[v] = locations[v]
    BY <2>2, <2>3 DEF AddLocation
  <2>5. DOMAIN xrefs' = DOMAIN xrefs \cup {<<va, b.to>> : b \in far}
    BY <2>2, Zenon DEF AddCodeXrefs
  <2>6. \A b \in far : b.to \in Va
    <3>1. code \in Programs /\ code[va] # Bad
      BY <2>2, CodeFlowAssumption DEF TypeInv
    <3>2. code[va].to \in Va \cup {NoVa}
      BY <2>2, <3>1, ImageAssumption
    <3>3. \A b \in far : b.to = code[va].to
      BY <2>1, <2>2, BranchFacts
    <3> QED
      BY <2>1, <3>2, <3>3
  <2>7. \A e \in DOMAIN xrefs' : e[2] \in Va
    <3>1. \A b \in far : <<va, b.to>>[2] = b.to
      OBVIOUS
    <3> QED
      BY <2>5, <2>6, <3>1 DEF BlockInv
  <2> QED
    BY <2>4, <2>5, <2>7 DEF BlockInv, DbsGrow
<1>2. ASSUME NEW jt \in JumpTables, ResolveJumpTable(jt) PROVE BlockInv' /\ DbsGrow
  <2>1. PICK va, far : va = Top.cur /\ far = ToSet(CaseBranches(jt))
    OBVIOUS
  <2>2. xrefs' = AddCodeXrefs(xrefs, va, far) /\ locations' = locations
    BY <1>2, <2>1, ResolveJumpTableEffect DEF ResolveJumpTable
  <2>3. DOMAIN xrefs' = DOMAIN xrefs \cup {<<va, b.to>> : b \in far}
    BY <2>2, Zenon DEF AddCodeXrefs
  <2>4. \A b \in far : b.to \in Va
    <3>1. jt.cases \in Seq(Va)
      BY ImageAssumption
    <3>2. \A i \in DOMAIN jt.cases : jt.cases[i] \in Va
      BY <3>1
    <3>3. TAKE b \in far
    <3>4. DOMAIN CaseBranches(jt) = DOMAIN jt.cases
      BY DEF CaseBranches
    <3>5. PICK i \in DOMAIN jt.cases : b = CaseBranches(jt)[i]
      BY <2>1, <3>3, <3>4 DEF ToSet
    <3>6. b = [to |-> jt.cases[i], flags |-> {"cond"}]
      BY <3>5 DEF CaseBranches
    <3> QED
      BY <3>2, <3>6
  <2>5. \A e \in DOMAIN xrefs' : e[2] \in Va
    <3>1. \A b \in far : <<va, b.to>>[2] = b.to
      OBVIOUS
    <3> QED
      BY <2>3, <2>4, <3>1 DEF BlockInv
  <2> QED
    BY <2>2, <2>3, <2>5 DEF BlockInv, DbsGrow
<1>3. CASE UNCHANGED <<locations, xrefs>>
  BY <1>3 DEF BlockInv, DbsGrow
<1>4. CASE UNCHANGED vars
  BY <1>3, <1>4 DEF vars
<1>5. ASSUME Next, ~DecodeOpcode, ~\E jt \in JumpTables : ResolveJumpTable(jt)
      PROVE  UNCHANGED <<locations, xrefs>>
  BY <1>5 DEF Next, Step, MakeFunction, SkipAddress, EndFlow, BranchesDone, SkipBranch, AfterCall,
     CallBranch, TailBranch, FlowBranch, DrainDeferred, StartBlocked, DrainBlocked, FinishFlow,
     Report, ReportFreed, MakeLocalName, Release, Return
<1> QED
  BY <1>1, <1>2, <1>3, <1>4, <1>5

TileInv == Aligned => \A f \in DOMAIN blocks : Tiled(f, blocks[f])

\* The blocks of a function reported for the first time.
LEMMA OnFunctionTiles ==
  ASSUME TypeInv, EdgeInv, BlockInv, TileInv, NEW va \in Va, NEW frame, OnFunction(va, frame),
         UNCHANGED <<locations, xrefs>>
  PROVE  TileInv'
<1>1. Aligned' <=> Aligned
  BY DEF Aligned
<1>2. SUFFICES ASSUME Aligned PROVE \A f \in DOMAIN blocks' : Tiled(f, blocks'[f])
  BY <1>1 DEF TileInv
<1>3. \A f \in DOMAIN blocks : Tiled(f, blocks[f])
  BY <1>2 DEF TileInv
<1>4. CASE ~FirstReport(va)
  BY <1>3, <1>4 DEF OnFunction
<1>5. CASE FirstReport(va)
  <2>1. PICK found : found = AnalyzeFunction(code, locations, xrefs, va)
    OBVIOUS
  <2>2. blocks' = [f \in DOMAIN blocks \cup {va} |-> IF f = va THEN found ELSE blocks[f]]
    BY <1>5, <2>1 DEF OnFunction
  <2>3. Tiled(va, found)
    BY <1>2, <2>1, BlocksApart
  <2> QED
    BY <1>3, <2>2, <2>3
<1> QED
  BY <1>4, <1>5

LEMMA TileStep ==
  TypeInv /\ InsnInv /\ EdgeInv /\ BlockInv /\ TileInv /\ [Next]_vars => TileInv'
<1> SUFFICES ASSUME TypeInv, InsnInv, EdgeInv, BlockInv, TileInv, [Next]_vars PROVE TileInv'
  OBVIOUS
<1>1. CASE Report
  <2>1. Top.va \in Va
    BY <1>1, ReportEffect DEF Frame
  <2>2. OnFunction(Top.va, [Top EXCEPT !.phase = "release"]) /\ UNCHANGED <<locations, xrefs>>
    BY <1>1 DEF Report
  <2> QED
    BY <2>1, <2>2, OnFunctionTiles
<1>2. ASSUME NEW waiter \in Va, ReportFreed(waiter) PROVE TileInv'
  <2>1. /\ OnFunction(waiter, [Top EXCEPT !.freed = @ \ {waiter}])
        /\ UNCHANGED <<locations, xrefs>>
    BY <1>2 DEF ReportFreed
  <2> QED
    BY <2>1, OnFunctionTiles
<1>3. CASE blocks' = blocks
  <2>1. DbsGrow
    BY DatabaseStep
  <2> QED
    BY <1>3, <2>1, AlignedBefore DEF TileInv
<1>4. CASE UNCHANGED vars
  BY <1>3, <1>4 DEF vars, discoveryVars
<1>5. ASSUME Next, ~Report, ~\E waiter \in Va : ReportFreed(waiter) PROVE blocks' = blocks
  BY <1>5 DEF Next, Step, MakeFunction, SkipAddress, EndFlow, BranchesDone, SkipBranch, AfterCall,
     CallBranch, TailBranch, FlowBranch, DrainDeferred, StartBlocked, DrainBlocked, FinishFlow,
     DecodeOpcode, ResolveJumpTable, MakeLocalName, Release, Return, deferralVars, discoveryVars
<1> QED
  BY <1>1, <1>2, <1>3, <1>4, <1>5

\* The recovered blocks neither overlap nor get lost: for every image, seed
\* order, table answer, FLIRT match and cap.  Unless instructions overlap, the
\* blocks of one function, but for its entry's, lie apart, however much flow
\* goes on after they were built; and analyze_function, whose registration
\* loop stops at the last marker, drops no block that has bytes.
THEOREM BlocksLieApart == Spec => []BlocksTile
<1>1. Init => InsnInv /\ EdgeInv /\ BlockInv /\ TileInv
  BY DEF Init, InsnInv, EdgeInv, BlockInv, TileInv, EmptyDb
<1>2. TypeInv /\ BlockInv /\ TileInv => BlocksTile
  <2> SUFFICES ASSUME TypeInv, BlockInv, TileInv PROVE BlocksTile
    OBVIOUS
  <2>1. Aligned => \A f \in DOMAIN blocks : \A b, c \in {d \in blocks[f] : d.va # f} :
            b # c => b.va + b.size <= c.va \/ c.va + c.size <= b.va
    BY DEF TileInv, Tiled
  <2>2. ASSUME InPhase("report"), NEW walk, walk = BlockWalk(code, locations, xrefs),
               NEW starts, starts = BlockStarts(walk, Top.va)
        PROVE  Registered(walk, starts) = {s \in starts : BlockSize(walk, s) # 0}
    <3>1. Top.va \in Va
      BY <2>2, TopType DEF InPhase, TypeInv, Frame
    <3> QED
      BY <2>2, <3>1, AllRegistered
  <2> QED
    BY <2>1, <2>2 DEF BlocksTile
<1>3. TypeInv /\ InsnInv /\ BlockInv /\ [Next]_vars => BlockInv'
  BY DatabaseStep
<1> QED
  BY <1>1, <1>2, <1>3, TileStep, CodeFlowTypes, InsnStep, EdgeStep, PTL DEF Spec
===============================================================================
