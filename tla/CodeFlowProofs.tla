---------------------------- MODULE CodeFlowProofs ----------------------------
(***************************************************************************)
(* For every image, every seed order, every jump-table answer and every    *)
(* FLIRT match: the recovery is type correct, the list of recovered        *)
(* functions names each function once, every function that was entered is  *)
(* settled when make_function returns, and the two deferral tables stay    *)
(* inverse to each other.                                                  *)
(*                                                                         *)
(* The first part gives the shape of every step: what kind of frame the    *)
(* native stack holds, and for each action the one frame it rewrites,      *)
(* which fields of it, and whether a frame is pushed or popped.            *)
(***************************************************************************)
EXTENDS CodeFlow, FiniteSetTheorems, TLAPS

Phases == {"flow", "branch", "called", "drain", "blocked", "report", "release", "freed"}

Flags == {"cond", "fall", "proc", "deref"}

BranchRec == [to : Nat \cup {NoVa}, flags : SUBSET Flags]

Frame ==
    [va : Va, phase : Phases, cur : Va, optodo : Seq(Va), visited : SUBSET Va,
     insns : SUBSET Va, data : SUBSET TableData, branches : Seq(BranchRec),
     deferred : Seq(Va), todo : Seq(Va), still : Seq(Va), freed : SUBSET Va,
     names : Seq(Va)]

Fields == {"va", "phase", "cur", "optodo", "visited", "insns", "data", "branches",
           "deferred", "todo", "still", "freed", "names"}

WaitsType ==
    /\ DOMAIN waits_on \subseteq Va /\ waits_on \in [DOMAIN waits_on -> SUBSET Va]
    /\ DOMAIN awaited_by \subseteq Va /\ awaited_by \in [DOMAIN awaited_by -> SUBSET Va]

\* A location is a decoded instruction, and as long as it.
DbType ==
    /\ DOMAIN locations \subseteq Va
    /\ \A v \in DOMAIN locations : code[v] \in Instruction /\ locations[v].size = code[v].len
    /\ DOMAIN xrefs \subseteq Va \X Nat

TypeInv ==
    /\ code \in Programs
    /\ stack \in Seq(Frame)
    /\ cf_blocks \in Seq(Va)
    /\ functions \in SUBSET Va
    /\ reported \in SUBSET Va
    /\ report_held \in SUBSET Va
    /\ analyzed \in SUBSET Va
    /\ blocked_recursion \in Seq(Va)
    /\ WaitsType
    /\ DbType

-----------------------------------------------------------------------------
(***************************************************************************)
(* Steps of the stack.                                                     *)
(***************************************************************************)

\* g has the fields of the frame on top, but for the ones named.
Kept(g, changed) == \A x \in Fields \ changed : g[x] = Top[x]

\* The frame on top becomes g; g stays below a new frame for w; it is popped.
Replaced(g) ==
    /\ stack # <<>>
    /\ Len(stack') = Len(stack)
    /\ stack'[Len(stack)] = g
    /\ \A i \in 1 .. (Len(stack) - 1) : stack'[i] = stack[i]
    /\ stack' \in Seq(Frame)

Pushed(g, w) ==
    /\ stack # <<>>
    /\ Len(stack') = Len(stack) + 1
    /\ stack'[Len(stack)] = g
    /\ stack'[Len(stack) + 1] = NewFrame(w)
    /\ \A i \in 1 .. (Len(stack) - 1) : stack'[i] = stack[i]
    /\ stack' \in Seq(Frame)

Popped ==
    /\ stack # <<>>
    /\ Len(stack') = Len(stack) - 1
    /\ \A i \in 1 .. (Len(stack) - 1) : stack'[i] = stack[i]
    /\ stack' \in Seq(Frame)

\* add_entry_point(w) called from the frame g, with `known` as functions_.
EntersFrom(g, w, known) ==
    \/ /\ MayEnter(w, known)
       /\ Pushed(g, w)
       /\ functions' = known \cup {w}
       /\ cf_blocks' = Append(cf_blocks, w)
    \/ /\ ~MayEnter(w, known)
       /\ Replaced(g)
       /\ functions' = known
       /\ cf_blocks' = cf_blocks

LEMMA NewFrameType == ASSUME NEW w \in Va PROVE NewFrame(w) \in Frame
BY DEF Frame, NewFrame, Phases

LEMMA TopType ==
  ASSUME stack \in Seq(Frame), stack # <<>>
  PROVE  Top \in Frame /\ Top = stack[Len(stack)] /\ Len(stack) \in Nat \ {0}
BY DEF Top, Last

LEMMA ListType ==
  ASSUME NEW S, NEW s \in Seq(S), s # <<>>
  PROVE  /\ Front(s) \in Seq(S) /\ Last(s) \in S
         /\ Head(s) \in S /\ Tail(s) \in Seq(S)
BY DEF Front, Last

LEMMA BecomeIsReplaced ==
  ASSUME stack \in Seq(Frame), stack # <<>>, NEW g \in Frame, stack' = Become(g)
  PROVE  Replaced(g)
BY DEF Become, Replaced

LEMMA FrontIsPopped ==
  ASSUME stack \in Seq(Frame), stack # <<>>, stack' = Front(stack)
  PROVE  Popped
<1>1. PICK s \in Seq(Frame) : s = stack /\ s # <<>> /\ stack' = Front(s)
  OBVIOUS
<1>2. DOMAIN Front(s) = 1 .. (Len(s) - 1) /\ \A i \in 1 .. (Len(s) - 1) : Front(s)[i] = s[i]
  BY <1>1 DEF Front
<1>3. Front(s) \in Seq(Frame)
  BY <1>1 DEF Front
<1>4. Len(Front(s)) = Len(s) - 1
  BY <1>1, <1>2, <1>3
<1> QED
  BY <1>1, <1>2, <1>3, <1>4 DEF Popped

LEMMA EntryEffect ==
  ASSUME stack \in Seq(Frame), stack # <<>>, NEW g \in Frame, NEW w \in Va, NEW known,
         AddEntryPoint(w, known, Become(g))
  PROVE  EntersFrom(g, w, known)
<1>1. CASE MayEnter(w, known)
  <2>1. stack' = Append(Become(g), NewFrame(w))
    BY <1>1 DEF AddEntryPoint
  <2>2. Pushed(g, w)
    BY <2>1, NewFrameType DEF Become, Pushed
  <2> QED
    BY <1>1, <2>2 DEF AddEntryPoint, EntersFrom
<1>2. CASE ~MayEnter(w, known)
  BY <1>2, BecomeIsReplaced DEF AddEntryPoint, EntersFrom
<1> QED
  BY <1>1, <1>2

LEMMA SkipAddressEffect ==
  ASSUME TypeInv, SkipAddress
  PROVE  /\ Top \in Frame /\ Top.phase = "flow" /\ Top.optodo # <<>>
         /\ \E g \in Frame :
              /\ Replaced(g) /\ Kept(g, {"optodo", "visited"})
              /\ g.visited = Top.visited \cup {Last(Top.optodo)}
              /\ g.optodo = Front(Top.optodo)
<1>1. /\ stack \in Seq(Frame) /\ stack # <<>> /\ Top \in Frame
      /\ Top.phase = "flow" /\ Top.optodo # <<>>
  BY TopType DEF TypeInv, SkipAddress, Flowing, InPhase
<1>2. Front(Top.optodo) \in Seq(Va) /\ Last(Top.optodo) \in Va
  BY <1>1, ListType DEF Frame
<1>3. PICK h : h = [Top EXCEPT !.optodo = Front(@), !.visited = @ \cup {Last(Top.optodo)}]
  OBVIOUS
<1>4. h \in Frame
  BY <1>1, <1>2, <1>3 DEF Frame, Phases
<1>5. /\ Kept(h, {"optodo", "visited"})
      /\ h.visited = Top.visited \cup {Last(Top.optodo)}
      /\ h.optodo = Front(Top.optodo)
  BY <1>1, <1>2, <1>3 DEF Frame, Kept, Fields
<1>6. Replaced(h)
  BY <1>1, <1>3, <1>4, BecomeIsReplaced DEF SkipAddress
<1> QED
  BY <1>1, <1>4, <1>5, <1>6

LEMMA EndFlowEffect ==
  ASSUME TypeInv, EndFlow
  PROVE  /\ Top \in Frame /\ Top.phase = "flow"
         /\ \E g \in Frame :
              /\ Replaced(g) /\ Kept(g, {"phase", "todo"})
              /\ g.phase = "drain" /\ g.todo = Top.deferred
<1>1. /\ stack \in Seq(Frame) /\ stack # <<>> /\ Top \in Frame
      /\ Top.phase = "flow"
  BY TopType DEF TypeInv, EndFlow, InPhase
<1>2. PICK h : h = [Top EXCEPT !.phase = "drain", !.todo = Top.deferred]
  OBVIOUS
<1>3. h \in Frame
  BY <1>1, <1>2 DEF Frame, Phases
<1>4. /\ Kept(h, {"phase", "todo"})
      /\ h.phase = "drain" /\ h.todo = Top.deferred
  BY <1>1, <1>2 DEF Frame, Kept, Fields
<1>5. Replaced(h)
  BY <1>1, <1>2, <1>3, BecomeIsReplaced DEF EndFlow
<1> QED
  BY <1>1, <1>3, <1>4, <1>5

LEMMA BranchesDoneEffect ==
  ASSUME TypeInv, BranchesDone
  PROVE  /\ Top \in Frame /\ Top.phase = "branch" /\ Top.branches = <<>>
         /\ \E g \in Frame :
              /\ Replaced(g) /\ Kept(g, {"phase"})
              /\ g.phase = "flow"
<1>1. /\ stack \in Seq(Frame) /\ stack # <<>> /\ Top \in Frame
      /\ Top.phase = "branch" /\ Top.branches = <<>>
  BY TopType DEF TypeInv, BranchesDone, InPhase
<1>2. PICK h : h = [Top EXCEPT !.phase = "flow"]
  OBVIOUS
<1>3. h \in Frame
  BY <1>1, <1>2 DEF Frame, Phases
<1>4. /\ Kept(h, {"phase"})
      /\ h.phase = "flow"
  BY <1>1, <1>2 DEF Frame, Kept, Fields
<1>5. Replaced(h)
  BY <1>1, <1>2, <1>3, BecomeIsReplaced DEF BranchesDone
<1> QED
  BY <1>1, <1>3, <1>4, <1>5

LEMMA SkipBranchEffect ==
  ASSUME TypeInv, SkipBranch
  PROVE  /\ Top \in Frame /\ Top.phase = "branch" /\ Top.branches # <<>>
         /\ \E g \in Frame :
              /\ Replaced(g) /\ Kept(g, {"branches"})
              /\ g.branches = Front(Top.branches)
<1>1. /\ stack \in Seq(Frame) /\ stack # <<>> /\ Top \in Frame
      /\ Top.phase = "branch" /\ Top.branches # <<>>
  BY TopType DEF TypeInv, SkipBranch, Branching, InPhase
<1>2. Front(Top.branches) \in Seq(BranchRec)
  BY <1>1, ListType DEF Frame
<1>3. PICK h : h = Consumed
  OBVIOUS
<1>4. h \in Frame
  BY <1>1, <1>2, <1>3 DEF Frame, Phases, Consumed
<1>5. /\ Kept(h, {"branches"})
      /\ h.branches = Front(Top.branches)
  BY <1>1, <1>2, <1>3 DEF Frame, Kept, Fields, Consumed
<1>6. Replaced(h)
  BY <1>1, <1>3, <1>4, BecomeIsReplaced DEF SkipBranch
<1> QED
  BY <1>1, <1>4, <1>5, <1>6

LEMMA TailBranchEffect ==
  ASSUME TypeInv, TailBranch
  PROVE  /\ Top \in Frame /\ Top.phase = "branch" /\ Top.branches # <<>>
         /\ \E g \in Frame :
              /\ Replaced(g) /\ Kept(g, {"branches"})
              /\ g.branches = Front(Top.branches)
<1>1. /\ stack \in Seq(Frame) /\ stack # <<>> /\ Top \in Frame
      /\ Top.phase = "branch" /\ Top.branches # <<>>
  BY TopType DEF TypeInv, TailBranch, Followed, Branching, InPhase
<1>2. Front(Top.branches) \in Seq(BranchRec)
  BY <1>1, ListType DEF Frame
<1>3. PICK h : h = Consumed
  OBVIOUS
<1>4. h \in Frame
  BY <1>1, <1>2, <1>3 DEF Frame, Phases, Consumed
<1>5. /\ Kept(h, {"branches"})
      /\ h.branches = Front(Top.branches)
  BY <1>1, <1>2, <1>3 DEF Frame, Kept, Fields, Consumed
<1>6. Replaced(h)
  BY <1>1, <1>3, <1>4, BecomeIsReplaced DEF TailBranch
<1> QED
  BY <1>1, <1>4, <1>5, <1>6

LEMMA AfterCallEffect ==
  ASSUME TypeInv, AfterCall
  PROVE  /\ Top \in Frame /\ Top.phase = "called"
         /\ \E g \in Frame :
              /\ Replaced(g) /\ Kept(g, {"phase"})
              /\ g.phase = "branch"
<1>1. /\ stack \in Seq(Frame) /\ stack # <<>> /\ Top \in Frame
      /\ Top.phase = "called"
  BY TopType DEF TypeInv, AfterCall, InPhase
<1>2. PICK h : h = [Top EXCEPT !.phase = "branch"]
  OBVIOUS
<1>3. h \in Frame
  BY <1>1, <1>2 DEF Frame, Phases
<1>4. /\ Kept(h, {"phase"})
      /\ h.phase = "branch"
  BY <1>1, <1>2 DEF Frame, Kept, Fields
<1>5. Replaced(h)
  BY <1>1, <1>2, <1>3, BecomeIsReplaced DEF AfterCall
<1> QED
  BY <1>1, <1>3, <1>4, <1>5

LEMMA StartBlockedEffect ==
  ASSUME TypeInv, StartBlocked
  PROVE  /\ Top \in Frame /\ Top.phase = "drain" /\ Top.todo = <<>>
         /\ \E g \in Frame :
              /\ Replaced(g) /\ Kept(g, {"phase", "todo"})
              /\ g.phase = "blocked" /\ g.todo = blocked_recursion
<1>1. /\ stack \in Seq(Frame) /\ stack # <<>> /\ Top \in Frame
      /\ Top.phase = "drain" /\ Top.todo = <<>>
  BY TopType DEF TypeInv, StartBlocked, InPhase
<1>2. blocked_recursion \in Seq(Va)
  BY DEF TypeInv
<1>3. PICK h : h = [Top EXCEPT !.phase = "blocked", !.todo = blocked_recursion]
  OBVIOUS
<1>4. h \in Frame
  BY <1>1, <1>2, <1>3 DEF Frame, Phases
<1>5. /\ Kept(h, {"phase", "todo"})
      /\ h.phase = "blocked" /\ h.todo = blocked_recursion
  BY <1>1, <1>2, <1>3 DEF Frame, Kept, Fields
<1>6. Replaced(h)
  BY <1>1, <1>3, <1>4, BecomeIsReplaced DEF StartBlocked
<1> QED
  BY <1>1, <1>4, <1>5, <1>6

LEMMA PairOf == ASSUME NEW a, NEW b PROVE <<a>> \o <<b>> = <<a, b>>
<1>1. <<a>> \in Seq({a, b}) /\ <<b>> \in Seq({a, b}) /\ <<a, b>> \in Seq({a, b})
  OBVIOUS
<1>2. PICK s : s = <<a>> \o <<b>>
  OBVIOUS
<1>3. s \in Seq({a, b}) /\ Len(s) = 2 /\ s[1] = a /\ s[2] = b
  BY <1>1, <1>2
<1>4. Len(<<a, b>>) = 2 /\ <<a, b>>[1] = a /\ <<a, b>>[2] = b
  OBVIOUS
<1>5. s = <<a, b>>
  BY <1>1, <1>3, <1>4
<1> QED
  BY <1>2, <1>5

\* What get_branches returns, by the kind of the instruction.
LEMMA BranchesByKind ==
  ASSUME NEW va \in Va, code[va] \in Instruction
  PROVE  LET op   == code[va]
             next == va + op.len
         IN  /\ op.kind = "ret" => GetBranches(va) = <<>>
             /\ op.kind = "plain" => GetBranches(va) = <<[to |-> next, flags |-> {"fall"}]>>
             /\ op.kind = "call" /\ op.to = NoVa =>
                    GetBranches(va) = <<[to |-> next, flags |-> {"fall"}]>>
             /\ op.kind = "call" /\ op.to # NoVa =>
                    GetBranches(va) = <<[to |-> next, flags |-> {"fall"}],
                                        [to |-> op.to, flags |-> {"proc"}]>>
             /\ op.kind = "jump" /\ op.to = NoVa =>
                    GetBranches(va) = <<[to |-> NoVa, flags |-> {"deref"}]>>
             /\ op.kind = "jump" /\ op.to # NoVa =>
                    GetBranches(va) = <<[to |-> op.to, flags |-> {}]>>
             /\ op.kind = "cond" /\ op.to = NoVa =>
                    GetBranches(va) = <<[to |-> next, flags |-> {"cond", "fall"}],
                                        [to |-> NoVa, flags |-> {"cond", "deref"}]>>
             /\ op.kind = "cond" /\ op.to # NoVa =>
                    GetBranches(va) = <<[to |-> next, flags |-> {"cond", "fall"}],
                                        [to |-> op.to, flags |-> {"cond"}]>>
<1> DEFINE op   == code[va]
           next == va + op.len
           cond == {f \in {"cond"} : op.kind = "cond"}
<1>1. /\ op.kind # "cond" => cond = {} /\ cond \cup {"fall"} = {"fall"} /\ cond \cup {"deref"} = {"deref"}
      /\ op.kind = "cond" => /\ cond = {"cond"} /\ cond \cup {"fall"} = {"cond", "fall"}
                             /\ cond \cup {"deref"} = {"cond", "deref"}
  OBVIOUS
<1>2. op.kind = "ret" => GetBranches(va) = <<>>
  BY DEF GetBranches, IsFallthrough, IsJump
<1>3. op.kind = "plain" => GetBranches(va) = <<[to |-> next, flags |-> {"fall"}]>>
  BY <1>1 DEF GetBranches, IsFallthrough, IsJump
<1>4. op.kind = "call" /\ op.to = NoVa => GetBranches(va) = <<[to |-> next, flags |-> {"fall"}]>>
  BY <1>1 DEF GetBranches, IsFallthrough, IsJump
<1>5. op.kind = "call" /\ op.to # NoVa =>
          GetBranches(va) = <<[to |-> next, flags |-> {"fall"}], [to |-> op.to, flags |-> {"proc"}]>>
  BY <1>1, PairOf DEF GetBranches, IsFallthrough, IsJump
<1>6. op.kind = "jump" /\ op.to = NoVa => GetBranches(va) = <<[to |-> NoVa, flags |-> {"deref"}]>>
  BY <1>1 DEF GetBranches, IsFallthrough, IsJump
<1>7. op.kind = "jump" /\ op.to # NoVa => GetBranches(va) = <<[to |-> op.to, flags |-> {}]>>
  BY <1>1 DEF GetBranches, IsFallthrough, IsJump
<1>8. op.kind = "cond" /\ op.to = NoVa =>
          GetBranches(va) = <<[to |-> next, flags |-> {"cond", "fall"}],
                              [to |-> NoVa, flags |-> {"cond", "deref"}]>>
  BY <1>1, PairOf DEF GetBranches, IsFallthrough, IsJump
<1>9. op.kind = "cond" /\ op.to # NoVa =>
          GetBranches(va) = <<[to |-> next, flags |-> {"cond", "fall"}],
                              [to |-> op.to, flags |-> {"cond"}]>>
  BY <1>1, PairOf DEF GetBranches, IsFallthrough, IsJump
<1> QED
  BY <1>2, <1>3, <1>4, <1>5, <1>6, <1>7, <1>8, <1>9

LEMMA BranchesType ==
  ASSUME NEW va \in Va, code[va] \in Instruction
  PROVE  GetBranches(va) \in Seq(BranchRec)
<1>1. va \in Nat /\ va + code[va].len \in Nat /\ code[va].to \in Nat \cup {NoVa}
  BY VaAssumption DEF Va, Instruction
<1>2. code[va].kind \in {"plain", "call", "jump", "cond", "ret"}
  BY DEF Instruction
<1>3. \A t \in Nat \cup {NoVa} : \A f \in SUBSET Flags : [to |-> t, flags |-> f] \in BranchRec
  BY DEF BranchRec
<1>4. {{"fall"}, {"proc"}, {"deref"}, {}, {"cond", "fall"}, {"cond", "deref"}, {"cond"}} \subseteq SUBSET Flags
  BY DEF Flags
<1>5. \A a, b \in BranchRec : <<a>> \in Seq(BranchRec) /\ <<a, b>> \in Seq(BranchRec)
  OBVIOUS
<1>6. /\ \A f \in {{"fall"}, {"cond", "fall"}} : [to |-> va + code[va].len, flags |-> f] \in BranchRec
      /\ \A f \in {{"proc"}, {}, {"cond"}} : [to |-> code[va].to, flags |-> f] \in BranchRec
      /\ \A f \in {{"deref"}, {"cond", "deref"}} : [to |-> NoVa, flags |-> f] \in BranchRec
  BY <1>1, <1>3, <1>4
<1>7. CASE code[va].kind = "ret"
  <2>1. GetBranches(va) = <<>>
    BY <1>7, BranchesByKind
  <2> QED
    BY <2>1
<1>8. CASE code[va].kind = "plain"
  BY <1>5, <1>6, <1>8, BranchesByKind
<1>9. CASE code[va].kind = "call"
  BY <1>5, <1>6, <1>9, BranchesByKind
<1>10. CASE code[va].kind = "jump"
  BY <1>5, <1>6, <1>10, BranchesByKind
<1>11. CASE code[va].kind = "cond"
  BY <1>5, <1>6, <1>11, BranchesByKind
<1> QED
  BY <1>2, <1>7, <1>8, <1>9, <1>10, <1>11

\* Each branch is the fall-through, the target of a call or a jump, or an
\* indirect one.
LEMMA BranchFacts ==
  ASSUME NEW va \in Va, code[va] \in Instruction, NEW b \in ToSet(GetBranches(va))
  PROVE  \/ FallsInto(va, b.to) /\ "fall" \in b.flags /\ "proc" \notin b.flags
         \/ /\ b.to = code[va].to /\ b.to \in Nat
            /\ b.flags \cap {"fall", "deref"} = {}
            /\ "proc" \in b.flags <=> code[va].kind = "call"
         \/ b.to = NoVa /\ "fall" \notin b.flags
<1>1. code[va].kind \in {"plain", "call", "jump", "cond", "ret"} /\ code[va].to \in Nat \cup {NoVa}
  BY DEF Instruction
<1>2. PICK i \in DOMAIN GetBranches(va) : b = GetBranches(va)[i]
  BY DEF ToSet
<1>3. CASE code[va].kind = "ret"
  BY <1>2, <1>3, BranchesByKind
<1>4. CASE code[va].kind = "plain"
  BY <1>2, <1>4, BranchesByKind DEF FallsInto, IsFallthrough
<1>5. CASE code[va].kind = "call"
  BY <1>1, <1>2, <1>5, BranchesByKind DEF FallsInto, IsFallthrough
<1>6. CASE code[va].kind = "jump"
  BY <1>1, <1>2, <1>6, BranchesByKind
<1>7. CASE code[va].kind = "cond"
  BY <1>1, <1>2, <1>7, BranchesByKind DEF FallsInto, IsFallthrough
<1> QED
  BY <1>1, <1>3, <1>4, <1>5, <1>6, <1>7

\* add_code_xref keeps the old edges, adds the new ones and only adds flags.
LEMMA XrefsAdded ==
  ASSUME NEW x, NEW from, NEW brs, NEW y, y = AddCodeXrefs(x, from, brs)
  PROVE  /\ DOMAIN y = DOMAIN x \cup {<<from, b.to>> : b \in brs}
         /\ \A e \in DOMAIN x : x[e] \subseteq y[e]
         /\ \A e \in DOMAIN x : e \notin {<<from, b.to>> : b \in brs} => y[e] = x[e]
         /\ \A b \in brs : b.flags \subseteq y[<<from, b.to>>]
<1>1. DOMAIN y = DOMAIN x \cup {<<from, b.to>> : b \in brs}
  BY DEF AddCodeXrefs
<1>2. \A e \in DOMAIN x : y[e] = x[e] \cup BranchFlags(from, brs, e)
  BY DEF AddCodeXrefs
<1>3. \A e \in DOMAIN y \ DOMAIN x : y[e] = BranchFlags(from, brs, e)
  BY DEF AddCodeXrefs
<1>4. \A e \in DOMAIN x : x[e] \subseteq y[e]
  BY <1>2
<1>5. ASSUME NEW e \in DOMAIN x, e \notin {<<from, b.to>> : b \in brs}
      PROVE  y[e] = x[e]
  <2>1. BranchFlags(from, brs, e) = {}
    BY <1>5 DEF BranchFlags
  <2> QED
    BY <1>2, <2>1
<1>6. ASSUME NEW b \in brs PROVE b.flags \subseteq y[<<from, b.to>>]
  <2>1. b.flags \subseteq BranchFlags(from, brs, <<from, b.to>>) /\ <<from, b.to>> \in DOMAIN y
    BY <1>1 DEF BranchFlags
  <2> QED
    BY <1>2, <1>3, <2>1
<1> QED
  BY <1>1, <1>4, <1>5, <1>6

LEMMA DecodeOpcodeEffect ==
  ASSUME TypeInv, DecodeOpcode
  PROVE  LET va  == Last(Top.optodo)
             far == {b \in ToSet(GetBranches(va)) : b.to # NoVa /\ "fall" \notin b.flags}
         IN  /\ Top \in Frame /\ Top.phase = "flow" /\ Top.optodo # <<>>
             /\ va \in Va /\ code[va] \in Instruction /\ Decodable(Top, va)
             /\ DOMAIN locations' = DOMAIN locations \cup {va}
             /\ locations' = AddLocation(locations, va, code[va].len, "op")
             /\ xrefs' = AddCodeXrefs(xrefs, va, far)
             /\ \E g \in Frame :
                  /\ Replaced(g)
                  /\ Kept(g, {"optodo", "visited", "insns", "cur", "branches", "phase"})
                  /\ g.optodo = Front(Top.optodo)
                  /\ g.visited = Top.visited \cup {va} /\ g.insns = Top.insns \cup {va}
                  /\ g.cur = va /\ g.branches = GetBranches(va) /\ g.phase = "branch"
<1> DEFINE va  == Last(Top.optodo)
           far == {b \in ToSet(GetBranches(va)) : b.to # NoVa /\ "fall" \notin b.flags}
<1>1. /\ stack \in Seq(Frame) /\ stack # <<>> /\ Top \in Frame
      /\ Top.phase = "flow" /\ Top.optodo # <<>>
  BY TopType DEF TypeInv, DecodeOpcode, Flowing, InPhase
<1>2. Front(Top.optodo) \in Seq(Va) /\ va \in Va
  BY <1>1, ListType DEF Frame
<1>3. Decodable(Top, va)
  BY DEF DecodeOpcode
<1>4. code[va] \in Instruction
  BY <1>2, <1>3, CodeFlowAssumption DEF Decodable, TypeInv
<1>5. GetBranches(va) \in Seq(BranchRec)
  BY <1>2, <1>4, BranchesType
<1>6. PICK h : h = [Top EXCEPT !.optodo = Front(@), !.visited = @ \cup {va}, !.insns = @ \cup {va},
                               !.cur = va, !.branches = GetBranches(va), !.phase = "branch"]
  OBVIOUS
<1>7. h \in Frame
  BY <1>1, <1>2, <1>5, <1>6 DEF Frame, Phases
<1>8. /\ Kept(h, {"optodo", "visited", "insns", "cur", "branches", "phase"})
      /\ h.optodo = Front(Top.optodo)
      /\ h.visited = Top.visited \cup {va} /\ h.insns = Top.insns \cup {va}
      /\ h.cur = va /\ h.branches = GetBranches(va) /\ h.phase = "branch"
  BY <1>1, <1>2, <1>5, <1>6 DEF Frame, Kept, Fields
<1>9. Replaced(h)
  BY <1>1, <1>6, <1>7, BecomeIsReplaced DEF DecodeOpcode
<1>10. /\ locations' = AddLocation(locations, va, code[va].len, "op")
       /\ xrefs' = AddCodeXrefs(xrefs, va, far)
  BY DEF DecodeOpcode
<1>11. DOMAIN locations' = DOMAIN locations \cup {va}
  BY <1>10 DEF AddLocation
<1> QED
  BY <1>1, <1>2, <1>3, <1>4, <1>7, <1>8, <1>9, <1>10, <1>11

LEMMA ResolveJumpTableEffect ==
  ASSUME TypeInv, NEW jt \in JumpTables, ResolveJumpTable(jt)
  PROVE  /\ Top \in Frame /\ Top.phase = "branch" /\ Top.branches # <<>>
         /\ code[Top.cur].kind = "jump"
         /\ CaseBranches(jt) \in Seq(BranchRec)
         /\ \A b \in ToSet(CaseBranches(jt)) : b.to \in Nat /\ b.flags = {"cond"}
         /\ xrefs' = AddCodeXrefs(xrefs, Top.cur, ToSet(CaseBranches(jt)))
         /\ \E g \in Frame :
              /\ Replaced(g) /\ Kept(g, {"branches", "data"})
              /\ g.branches = Front(Top.branches) \o CaseBranches(jt)
<1>1. /\ stack \in Seq(Frame) /\ stack # <<>> /\ Top \in Frame
      /\ Top.phase = "branch" /\ Top.branches # <<>> /\ code[Top.cur].kind = "jump"
  BY TopType DEF TypeInv, ResolveJumpTable, Branching, InPhase
<1>2. jt.cases \in Seq(Nat)
  BY CodeFlowAssumption
<1>3. \A i \in DOMAIN jt.cases : CaseBranches(jt)[i] = [to |-> jt.cases[i], flags |-> {"cond"}]
  BY DEF CaseBranches
<1>4. CaseBranches(jt) \in Seq(BranchRec)
  <2>1. Len(jt.cases) \in Nat /\ DOMAIN jt.cases = 1 .. Len(jt.cases)
    BY <1>2
  <2>2. \A i \in 1 .. Len(jt.cases) : [to |-> jt.cases[i], flags |-> {"cond"}] \in BranchRec
    BY <1>2 DEF BranchRec, Flags
  <2>3. CaseBranches(jt) \in [1 .. Len(jt.cases) -> BranchRec]
    BY <2>1, <2>2 DEF CaseBranches
  <2> QED
    BY <2>1, <2>3
<1>5. \A b \in ToSet(CaseBranches(jt)) : b.to \in Nat /\ b.flags = {"cond"}
  <2>1. DOMAIN CaseBranches(jt) = DOMAIN jt.cases /\ \A i \in DOMAIN jt.cases : jt.cases[i] \in Nat
    BY <1>2 DEF CaseBranches
  <2>2. TAKE b \in ToSet(CaseBranches(jt))
  <2>3. PICK i \in DOMAIN jt.cases : b = CaseBranches(jt)[i]
    BY <2>1, <2>2 DEF ToSet
  <2>4. b = [to |-> jt.cases[i], flags |-> {"cond"}]
    BY <1>3, <2>3
  <2> QED
    BY <2>1, <2>4
<1>6. jt.data \subseteq TableData
  BY DEF TableData
<1>7. Front(Top.branches) \o CaseBranches(jt) \in Seq(BranchRec)
  <2>1. Front(Top.branches) \in Seq(BranchRec)
    BY <1>1, ListType DEF Frame
  <2> QED
    BY <1>4, <2>1
<1>8. PICK h : h = [Consumed EXCEPT !.branches = @ \o CaseBranches(jt), !.data = @ \cup jt.data]
  OBVIOUS
<1>9. h = [Top EXCEPT !.branches = Front(@) \o CaseBranches(jt), !.data = @ \cup jt.data]
  BY <1>1, <1>8 DEF Consumed, Frame
<1>10. h \in Frame
  BY <1>1, <1>6, <1>7, <1>9 DEF Frame
<1>11. /\ Kept(h, {"branches", "data"})
       /\ h.branches = Front(Top.branches) \o CaseBranches(jt)
  BY <1>1, <1>9 DEF Frame, Kept, Fields
<1>12. Replaced(h)
  BY <1>1, <1>8, <1>10, BecomeIsReplaced DEF ResolveJumpTable
<1>13. xrefs' = AddCodeXrefs(xrefs, Top.cur, ToSet(CaseBranches(jt)))
  BY DEF ResolveJumpTable
<1> QED
  BY <1>1, <1>4, <1>5, <1>10, <1>11, <1>12, <1>13

LEMMA LeastNatural ==
  ASSUME NEW S, S \subseteq Nat, S # {}
  PROVE  \E x \in S : \A y \in S : x =< y
<1>1. PICK x \in S : \A y \in S : ~(<<y, x>> \in OpToRel(<, Nat))
  BY NatLessThanWellFounded, WFMin
<1>2. \A y \in S : ~(y < x)
  BY <1>1 DEF OpToRel
<1> QED
  BY <1>2

LEMMA AppendElements ==
  ASSUME NEW S, NEW s \in Seq(S), NEW e \in S
  PROVE  ToSet(Append(s, e)) = ToSet(s) \cup {e}
<1>1. PICK t : t = Append(s, e)
  OBVIOUS
<1>2. Len(s) \in Nat /\ DOMAIN s = 1 .. Len(s)
  OBVIOUS
<1>3. DOMAIN t = 1 .. (Len(s) + 1) /\ t[Len(s) + 1] = e /\ \A i \in 1 .. Len(s) : t[i] = s[i]
  BY <1>1
<1> QED
  BY <1>1, <1>2, <1>3 DEF ToSet

LEMMA FrontElements ==
  ASSUME NEW S, NEW s \in Seq(S), s # <<>>
  PROVE  ToSet(s) = ToSet(Front(s)) \cup {Last(s)}
<1>1. PICK t : t = Front(s)
  OBVIOUS
<1>2. Len(s) \in Nat \ {0} /\ DOMAIN s = 1 .. Len(s)
  OBVIOUS
<1>3. DOMAIN t = 1 .. (Len(s) - 1) /\ \A i \in 1 .. (Len(s) - 1) : t[i] = s[i]
  BY <1>1, <1>2 DEF Front
<1> QED
  BY <1>1, <1>2, <1>3 DEF ToSet, Last

LEMMA TailElements ==
  ASSUME NEW S, NEW s \in Seq(S), s # <<>>
  PROVE  ToSet(s) = ToSet(Tail(s)) \cup {Head(s)}
<1>1. PICK t : t = Tail(s)
  OBVIOUS
<1>2. Len(s) \in Nat \ {0} /\ DOMAIN s = 1 .. Len(s)
  OBVIOUS
<1>3. DOMAIN t = 1 .. (Len(s) - 1) /\ \A i \in 1 .. (Len(s) - 1) : t[i] = s[i + 1]
  BY <1>1, <1>2
<1>4. ToSet(t) \subseteq ToSet(s) /\ Head(s) \in ToSet(s)
  BY <1>2, <1>3 DEF ToSet
<1>5. ASSUME NEW i \in DOMAIN s PROVE s[i] \in ToSet(t) \cup {Head(s)}
  <2>1. CASE i = 1
    BY <2>1
  <2>2. CASE i # 1
    <3>1. i - 1 \in 1 .. (Len(s) - 1) /\ t[i - 1] = s[i]
      BY <1>2, <1>3, <2>2
    <3> QED
      BY <1>3, <3>1 DEF ToSet
  <2> QED
    BY <2>1, <2>2
<1> QED
  BY <1>1, <1>4, <1>5 DEF ToSet

LEMMA SubSeqElements ==
  ASSUME NEW S, NEW s \in Seq(S), NEW m \in Nat \ {0}, NEW n \in Nat, n <= Len(s)
  PROVE  /\ SubSeq(s, m, n) \in Seq(S)
         /\ \A i \in DOMAIN SubSeq(s, m, n) : SubSeq(s, m, n)[i] \in ToSet(s)
<1>1. SubSeq(s, m, n) \in Seq(S)
  OBVIOUS
<1>2. DOMAIN SubSeq(s, m, n) = 1 .. (1 + n - m)
  OBVIOUS
<1>3. \A i \in 1 .. (1 + n - m) : SubSeq(s, m, n)[i] = s[i + m - 1] /\ i + m - 1 \in DOMAIN s
  OBVIOUS
<1> QED
  BY <1>1, <1>2, <1>3 DEF ToSet

LEMMA PushUniqueFacts ==
  ASSUME NEW S, NEW list \in Seq(S), NEW va \in S
  PROVE  /\ PushUnique(list, va) \in Seq(S)
         /\ ToSet(PushUnique(list, va)) = ToSet(list) \cup {va}
<1>1. CASE Contains(list, va)
  <2>1. PushUnique(list, va) = list
    BY <1>1 DEF PushUnique
  <2>2. va \in ToSet(list)
    BY <1>1 DEF Contains, ToSet
  <2> QED
    BY <2>1, <2>2
<1>2. CASE ~Contains(list, va)
  <2>1. Append(list, va) \in Seq(S)
    OBVIOUS
  <2>2. ToSet(Append(list, va)) = ToSet(list) \cup {va}
    BY AppendElements
  <2> QED
    BY <1>2, <2>1, <2>2 DEF PushUnique
<1> QED
  BY <1>1, <1>2

LEMMA RemoveFirstFacts ==
  ASSUME NEW S, NEW list \in Seq(S), NEW va
  PROVE  /\ RemoveFirst(list, va) \in Seq(S)
         /\ ToSet(RemoveFirst(list, va)) \subseteq ToSet(list)
<1> DEFINE I == {i \in 1 .. Len(list) : list[i] = va}
<1>1. CASE I = {}
  <2>1. RemoveFirst(list, va) = list
    BY <1>1 DEF RemoveFirst
  <2> QED
    BY <2>1
<1>2. CASE I # {}
  <2>1. PICK at \in I : at = Min(I)
    <3>1. \E x \in I : \A y \in I : x =< y
      <4>1. I \subseteq Nat
        OBVIOUS
      <4> QED
        BY <1>2, <4>1, LeastNatural
    <3> QED
      BY <3>1 DEF Min
  <2>2. RemoveFirst(list, va) = SubSeq(list, 1, at - 1) \o SubSeq(list, at + 1, Len(list))
    BY <1>2, <2>1 DEF RemoveFirst, RemoveAt, SelectInSeq
  <2>3. at \in Nat /\ 1 <= at /\ at <= Len(list) /\ Len(list) \in Nat
    OBVIOUS
  <2>4. /\ SubSeq(list, 1, at - 1) \in Seq(S)
        /\ \A i \in DOMAIN SubSeq(list, 1, at - 1) : SubSeq(list, 1, at - 1)[i] \in ToSet(list)
    BY <2>3, SubSeqElements
  <2>5. /\ SubSeq(list, at + 1, Len(list)) \in Seq(S)
        /\ \A i \in DOMAIN SubSeq(list, at + 1, Len(list)) :
               SubSeq(list, at + 1, Len(list))[i] \in ToSet(list)
    BY <2>3, SubSeqElements
  <2>6. PICK p \in Seq(S), q \in Seq(S) :
            /\ RemoveFirst(list, va) = p \o q
            /\ \A i \in DOMAIN p : p[i] \in ToSet(list)
            /\ \A i \in DOMAIN q : q[i] \in ToSet(list)
    BY <2>2, <2>4, <2>5
  <2>7. p \o q \in Seq(S) /\ \A i \in DOMAIN (p \o q) : (p \o q)[i] \in ToSet(list)
    BY <2>6
  <2> QED
    BY <2>6, <2>7 DEF ToSet
<1> QED
  BY <1>1, <1>2

LEMMA CallBranchEffect ==
  ASSUME TypeInv, CallBranch
  PROVE  /\ Top \in Frame /\ Top.phase = "branch" /\ Top.branches # <<>>
         /\ Followed /\ "proc" \in Branch.flags /\ Branch.to \in Va
         /\ \E g \in Frame :
              /\ Kept(g, {"branches", "phase", "deferred"})
              /\ g.branches = Front(Top.branches)
              /\ g.phase = IF Branch.to = NextVa THEN "branch" ELSE "called"
              /\ \/ /\ g.deferred = Top.deferred
                    /\ Branch.to = NextVa \/ (~OnActivePath(Branch.to) /\ Len(cf_blocks) >= MaxDescent)
                    /\ Replaced(g) /\ functions' = functions /\ cf_blocks' = cf_blocks
                 \/ /\ g.deferred = PushUnique(Top.deferred, Branch.to)
                    /\ OnActivePath(Branch.to) /\ Branch.to # NextVa
                    /\ Replaced(g) /\ functions' = functions /\ cf_blocks' = cf_blocks
                 \/ /\ g.deferred = Top.deferred
                    /\ ~OnActivePath(Branch.to) /\ Branch.to # NextVa /\ Len(cf_blocks) < MaxDescent
                    /\ EntersFrom(g, Branch.to, functions)
<1>1. /\ stack \in Seq(Frame) /\ stack # <<>> /\ Top \in Frame
      /\ Top.phase = "branch" /\ Top.branches # <<>> /\ Branch.to \in Va
      /\ Followed /\ "proc" \in Branch.flags
  BY TopType, CodeFlowAssumption DEF TypeInv, CallBranch, Followed, Branching, InPhase
<1>2. Front(Top.branches) \in Seq(BranchRec)
  BY <1>1, ListType DEF Frame
<1>3. PICK ph \in {"branch", "called"} : ph = IF Branch.to = NextVa THEN "branch" ELSE "called"
  OBVIOUS
<1>4. PICK h : h = [Consumed EXCEPT !.phase = ph]
  OBVIOUS
<1>5. h = [Top EXCEPT !.branches = Front(@), !.phase = ph]
  BY <1>1, <1>4 DEF Consumed, Frame
<1>6. h \in Frame
  BY <1>1, <1>2, <1>5 DEF Frame, Phases
<1>7. /\ Kept(h, {"branches", "phase", "deferred"}) /\ h.deferred = Top.deferred
      /\ h.branches = Front(Top.branches) /\ h.phase = ph
  BY <1>1, <1>5 DEF Frame, Kept, Fields
<1>8. CASE Branch.to = NextVa \/ (~OnActivePath(Branch.to) /\ Len(cf_blocks) >= MaxDescent)
  <2>1. stack' = Become(h) /\ functions' = functions /\ cf_blocks' = cf_blocks
    BY <1>3, <1>4, <1>8 DEF CallBranch
  <2>2. Replaced(h)
    BY <1>1, <1>6, <2>1, BecomeIsReplaced
  <2>3. h.phase = IF Branch.to = NextVa THEN "branch" ELSE "called"
    BY <1>3, <1>7
  <2> QED
    BY <1>1, <1>6, <1>7, <1>8, <2>1, <2>2, <2>3
<1>9. CASE OnActivePath(Branch.to) /\ Branch.to # NextVa
  <2>1. PICK k : k = [h EXCEPT !.deferred = PushUnique(@, Branch.to)]
    OBVIOUS
  <2>2. PushUnique(h.deferred, Branch.to) \in Seq(Va)
    BY <1>1, <1>6, PushUniqueFacts DEF Frame
  <2>3. k \in Frame
    BY <1>6, <2>1, <2>2 DEF Frame
  <2>4. /\ Kept(k, {"branches", "phase", "deferred"}) /\ k.deferred = PushUnique(Top.deferred, Branch.to)
        /\ k.branches = Front(Top.branches) /\ k.phase = ph
    BY <1>6, <1>7, <2>1 DEF Frame, Kept, Fields
  <2>5. stack' = Become(k) /\ functions' = functions /\ cf_blocks' = cf_blocks
    BY <1>3, <1>4, <1>9, <2>1 DEF CallBranch
  <2>6. Replaced(k)
    BY <1>1, <2>3, <2>5, BecomeIsReplaced
  <2> QED
    BY <1>1, <1>3, <1>9, <2>3, <2>4, <2>5, <2>6
<1>10. CASE ~OnActivePath(Branch.to) /\ Branch.to # NextVa /\ ~(Len(cf_blocks) >= MaxDescent)
  <2>1. AddEntryPoint(Branch.to, functions, Become(h))
    BY <1>3, <1>4, <1>10 DEF CallBranch
  <2>2. EntersFrom(h, Branch.to, functions)
    BY <1>1, <1>6, <2>1, EntryEffect
  <2>3. Len(cf_blocks) < MaxDescent
    BY <1>10, CodeFlowAssumption DEF TypeInv
  <2> QED
    BY <1>1, <1>3, <1>6, <1>7, <1>10, <2>2, <2>3
<1> QED
  BY <1>8, <1>9, <1>10

LEMMA FlowBranchEffect ==
  ASSUME TypeInv, FlowBranch
  PROVE  /\ Top \in Frame /\ Top.phase = "branch" /\ Top.branches # <<>>
         /\ Branch.to \in Va
         /\ \E g \in Frame :
              /\ Replaced(g) /\ Kept(g, {"optodo", "branches"})
              /\ g.branches = Front(Top.branches)
              /\ g.optodo = IF Branch.to \in Top.visited THEN Top.optodo
                            ELSE Append(Top.optodo, Branch.to)
<1>1. /\ stack \in Seq(Frame) /\ stack # <<>> /\ Top \in Frame
      /\ Top.phase = "branch" /\ Top.branches # <<>> /\ Branch.to \in Va
  BY TopType, CodeFlowAssumption DEF TypeInv, FlowBranch, Followed, Branching, InPhase
<1>2. Front(Top.branches) \in Seq(BranchRec)
  BY <1>1, ListType DEF Frame
<1>3. PICK list \in Seq(Va) : list = IF Branch.to \in Top.visited THEN Top.optodo
                                     ELSE Append(Top.optodo, Branch.to)
  <2>1. Top.optodo \in Seq(Va)
    BY <1>1 DEF Frame
  <2>2. Append(Top.optodo, Branch.to) \in Seq(Va)
    BY <1>1, <2>1
  <2> QED
    BY <2>1, <2>2
<1>4. PICK h : h = [Consumed EXCEPT
                       !.optodo = IF Branch.to \in Top.visited THEN @ ELSE Append(@, Branch.to)]
  OBVIOUS
<1>5. h = [Top EXCEPT !.branches = Front(@), !.optodo = list]
  BY <1>1, <1>3, <1>4 DEF Frame, Consumed
<1>6. h \in Frame
  BY <1>1, <1>2, <1>5 DEF Frame
<1>7. Kept(h, {"optodo", "branches"}) /\ h.branches = Front(Top.branches) /\ h.optodo = list
  BY <1>1, <1>2, <1>5 DEF Frame, Kept, Fields
<1>8. Replaced(h)
  BY <1>1, <1>4, <1>6, BecomeIsReplaced DEF FlowBranch
<1> QED
  BY <1>1, <1>3, <1>6, <1>7, <1>8

LEMMA DrainDeferredEffect ==
  ASSUME TypeInv, DrainDeferred
  PROVE  LET fva == Head(Top.todo)
         IN  /\ Top \in Frame /\ Top.phase = "drain" /\ Top.todo # <<>> /\ fva \in Va
             /\ \E g \in Frame :
                  /\ Kept(g, {"todo"}) /\ g.todo = Tail(Top.todo)
                  /\ \/ /\ OnActivePath(fva) \/ fva \in reported
                        /\ Replaced(g) /\ functions' = functions /\ cf_blocks' = cf_blocks
                     \/ /\ ~OnActivePath(fva) /\ fva \notin reported
                        /\ EntersFrom(g, fva, functions)
<1> DEFINE fva == Head(Top.todo)
<1>1. /\ stack \in Seq(Frame) /\ stack # <<>> /\ Top \in Frame
      /\ Top.phase = "drain" /\ Top.todo # <<>>
  BY TopType DEF TypeInv, DrainDeferred, Draining, InPhase
<1>2. Tail(Top.todo) \in Seq(Va) /\ fva \in Va
  BY <1>1, ListType DEF Frame
<1>3. PICK h : h = [Top EXCEPT !.todo = Tail(@)]
  OBVIOUS
<1>4. h \in Frame
  BY <1>1, <1>2, <1>3 DEF Frame
<1>5. Kept(h, {"todo"}) /\ h.todo = Tail(Top.todo)
  BY <1>1, <1>2, <1>3 DEF Frame, Kept, Fields
<1>6. CASE OnActivePath(fva) \/ fva \in reported
  <2>1. stack' = Become(h) /\ functions' = functions /\ cf_blocks' = cf_blocks
    BY <1>3, <1>6 DEF DrainDeferred
  <2>2. Replaced(h)
    BY <1>1, <1>4, <2>1, BecomeIsReplaced
  <2> QED
    BY <1>1, <1>2, <1>4, <1>5, <1>6, <2>1, <2>2
<1>7. CASE ~OnActivePath(fva) /\ fva \notin reported
  <2>1. AddEntryPoint(fva, functions, Become(h))
    BY <1>3, <1>7 DEF DrainDeferred
  <2>2. EntersFrom(h, fva, functions)
    BY <1>1, <1>2, <1>4, <2>1, EntryEffect
  <2> QED
    BY <1>1, <1>2, <1>4, <1>5, <1>7, <2>2
<1> QED
  BY <1>6, <1>7

LEMMA DrainBlockedEffect ==
  ASSUME TypeInv, DrainBlocked
  PROVE  LET fva == Head(Top.todo)
         IN  /\ Top \in Frame /\ Top.phase = "blocked" /\ Top.todo # <<>> /\ fva \in Va
             /\ \E g \in Frame :
                  /\ Kept(g, {"todo", "still"}) /\ g.todo = Tail(Top.todo)
                  /\ \/ /\ Unblocked(fva)
                        /\ g.still = Top.still
                        /\ EntersFrom(g, fva, functions \ {fva})
                        /\ blocked_recursion' = RemoveFirst(blocked_recursion, fva)
                     \/ /\ ~Unblocked(fva)
                        /\ g.still = Append(Top.still, fva)
                        /\ Replaced(g) /\ functions' = functions /\ cf_blocks' = cf_blocks
                        /\ blocked_recursion' = blocked_recursion
<1> DEFINE fva == Head(Top.todo)
<1>1. /\ stack \in Seq(Frame) /\ stack # <<>> /\ Top \in Frame
      /\ Top.phase = "blocked" /\ Top.todo # <<>>
  BY TopType DEF TypeInv, DrainBlocked, Draining, InPhase
<1>2. Tail(Top.todo) \in Seq(Va) /\ fva \in Va
  BY <1>1, ListType DEF Frame
<1>3. PICK h : h = [Top EXCEPT !.todo = Tail(@)]
  OBVIOUS
<1>4. h \in Frame
  BY <1>1, <1>2, <1>3 DEF Frame
<1>5. Kept(h, {"todo", "still"}) /\ h.todo = Tail(Top.todo) /\ h.still = Top.still
  BY <1>1, <1>2, <1>3 DEF Frame, Kept, Fields
<1>6. CASE Unblocked(fva)
  <2>1. /\ AddEntryPoint(fva, functions \ {fva}, Become(h))
        /\ blocked_recursion' = RemoveFirst(blocked_recursion, fva)
    BY <1>3, <1>6 DEF DrainBlocked
  <2>2. EntersFrom(h, fva, functions \ {fva})
    BY <1>1, <1>2, <1>4, <2>1, EntryEffect
  <2> QED
    BY <1>1, <1>2, <1>4, <1>5, <1>6, <2>1, <2>2
<1>7. CASE ~Unblocked(fva)
  <2>1. PICK k : k = [h EXCEPT !.still = Append(@, fva)]
    OBVIOUS
  <2>2. Append(h.still, fva) \in Seq(Va)
    BY <1>2, <1>4 DEF Frame
  <2>3. k \in Frame
    BY <1>4, <2>1, <2>2 DEF Frame
  <2>4. Kept(k, {"todo", "still"}) /\ k.todo = Tail(Top.todo) /\ k.still = Append(Top.still, fva)
    BY <1>4, <1>5, <2>1 DEF Frame, Kept, Fields
  <2>5. /\ stack' = Become(k) /\ functions' = functions /\ cf_blocks' = cf_blocks
        /\ blocked_recursion' = blocked_recursion
    BY <1>3, <1>7, <2>1 DEF DrainBlocked
  <2>6. Replaced(k)
    BY <1>1, <2>3, <2>5, BecomeIsReplaced
  <2> QED
    BY <1>1, <1>2, <1>7, <2>3, <2>4, <2>5, <2>6
<1> QED
  BY <1>6, <1>7

LEMMA FinishFlowEffect ==
  ASSUME TypeInv, FinishFlow
  PROVE  /\ Top \in Frame /\ Top.phase = "blocked" /\ Top.todo = <<>>
         /\ \/ /\ Top.va \in DOMAIN waits_on
               /\ Popped /\ report_held' = report_held \cup {Top.va}
            \/ /\ Top.va \notin DOMAIN waits_on
               /\ report_held' = report_held
               /\ \E g \in Frame : Replaced(g) /\ Kept(g, {"phase"}) /\ g.phase = "report"
<1>1. /\ stack \in Seq(Frame) /\ stack # <<>> /\ Top \in Frame
      /\ Top.phase = "blocked" /\ Top.todo = <<>>
  BY TopType DEF TypeInv, FinishFlow, InPhase
<1>2. CASE Top.va \in DOMAIN waits_on
  BY <1>1, <1>2, FrontIsPopped DEF FinishFlow
<1>3. CASE Top.va \notin DOMAIN waits_on
  <2>1. PICK h : h = [Top EXCEPT !.phase = "report"]
    OBVIOUS
  <2>2. h \in Frame
    BY <1>1, <2>1 DEF Frame, Phases
  <2>3. Kept(h, {"phase"}) /\ h.phase = "report"
    BY <1>1, <2>1 DEF Frame, Kept, Fields
  <2>4. Replaced(h)
    BY <1>1, <1>3, <2>1, <2>2, BecomeIsReplaced DEF FinishFlow
  <2> QED
    BY <1>1, <1>3, <2>2, <2>3, <2>4 DEF FinishFlow
<1> QED
  BY <1>2, <1>3

\* Discovery::on_function, called from the frame f on top.
LEMMA OnFunctionEffect ==
  ASSUME TypeInv, stack # <<>>, NEW va \in Va, NEW f \in Frame, OnFunction(va, f)
  PROVE  /\ analyzed' = analyzed \cup {va}
         /\ \E g \in Frame :
              /\ Replaced(g)
              /\ \A x \in Fields \ {"names"} : g[x] = f[x]
<1>1. CASE FirstReport(va)
  <2>1. PICK h : h = [f EXCEPT !.names = LocalNames[va]]
    OBVIOUS
  <2>2. LocalNames[va] \in Seq(Va)
    BY CodeFlowAssumption
  <2>3. h \in Frame
    BY <2>1, <2>2 DEF Frame
  <2>4. \A x \in Fields \ {"names"} : h[x] = f[x]
    BY <2>1 DEF Frame, Fields
  <2>5. stack' = Become(h) /\ analyzed' = analyzed \cup {va}
    BY <1>1, <2>1 DEF OnFunction
  <2>6. Replaced(h)
    BY <2>3, <2>5, BecomeIsReplaced DEF TypeInv
  <2> QED
    BY <2>3, <2>4, <2>5, <2>6
<1>2. CASE ~FirstReport(va)
  <2>1. stack' = Become(f) /\ analyzed' = analyzed /\ va \in analyzed
    BY <1>2 DEF OnFunction, FirstReport
  <2>2. Replaced(f)
    BY <2>1, BecomeIsReplaced DEF TypeInv
  <2> QED
    BY <2>1, <2>2
<1> QED
  BY <1>1, <1>2

LEMMA ReportEffect ==
  ASSUME TypeInv, Report
  PROVE  /\ Top \in Frame /\ Top.phase = "report"
         /\ reported' = reported \cup {Top.va} /\ analyzed' = analyzed \cup {Top.va}
         /\ \E g \in Frame : Replaced(g) /\ Kept(g, {"phase", "names"}) /\ g.phase = "release"
<1>1. /\ stack # <<>> /\ Top \in Frame /\ Top.phase = "report" /\ Top.va \in Va
  BY TopType DEF TypeInv, Report, InPhase, Frame
<1>2. PICK h : h = [Top EXCEPT !.phase = "release"]
  OBVIOUS
<1>3. h \in Frame
  BY <1>1, <1>2 DEF Frame, Phases
<1>4. Kept(h, {"phase"}) /\ h.phase = "release"
  BY <1>1, <1>2 DEF Frame, Kept, Fields
<1>5. OnFunction(Top.va, h) /\ reported' = reported \cup {Top.va}
  BY <1>2 DEF Report
<1>6. /\ analyzed' = analyzed \cup {Top.va}
      /\ \E g \in Frame : Replaced(g) /\ \A x \in Fields \ {"names"} : g[x] = h[x]
  BY <1>1, <1>3, <1>5, OnFunctionEffect
<1>7. \A g \in Frame : (\A x \in Fields \ {"names"} : g[x] = h[x])
          => Kept(g, {"phase", "names"}) /\ g.phase = "release"
  BY <1>4 DEF Kept, Fields
<1> QED
  BY <1>1, <1>5, <1>6, <1>7

LEMMA ReportFreedEffect ==
  ASSUME TypeInv, NEW waiter \in Va, ReportFreed(waiter)
  PROVE  /\ Top \in Frame /\ Top.phase = "freed" /\ waiter \in Top.freed
         /\ reported' = reported \cup {waiter} /\ analyzed' = analyzed \cup {waiter}
         /\ \E g \in Frame :
              Replaced(g) /\ Kept(g, {"freed", "names"}) /\ g.freed = Top.freed \ {waiter}
<1>1. /\ stack # <<>> /\ Top \in Frame /\ Top.phase = "freed" /\ waiter \in Top.freed
  BY TopType DEF TypeInv, ReportFreed, Named, InPhase
<1>2. PICK h : h = [Top EXCEPT !.freed = @ \ {waiter}]
  OBVIOUS
<1>3. h \in Frame
  BY <1>1, <1>2 DEF Frame, Phases
<1>4. Kept(h, {"freed"}) /\ h.freed = Top.freed \ {waiter}
  BY <1>1, <1>2 DEF Frame, Kept, Fields
<1>5. OnFunction(waiter, h) /\ reported' = reported \cup {waiter}
  BY <1>2 DEF ReportFreed
<1>6. /\ analyzed' = analyzed \cup {waiter}
      /\ \E g \in Frame : Replaced(g) /\ \A x \in Fields \ {"names"} : g[x] = h[x]
  BY <1>1, <1>3, <1>5, OnFunctionEffect
<1>7. \A g \in Frame : (\A x \in Fields \ {"names"} : g[x] = h[x])
          => Kept(g, {"freed", "names"}) /\ g.freed = Top.freed \ {waiter}
  BY <1>4 DEF Kept, Fields
<1> QED
  BY <1>1, <1>5, <1>6, <1>7

LEMMA MakeLocalNameEffect ==
  ASSUME TypeInv, MakeLocalName
  PROVE  LET target == Head(Top.names)
         IN  /\ Top \in Frame /\ Top.names # <<>> /\ target \in Va
             /\ \E g \in Frame :
                  /\ Kept(g, {"names"})
                  /\ \/ Replaced(g) /\ functions' = functions /\ cf_blocks' = cf_blocks
                     \/ /\ target \notin analyzed /\ ~Defined(locations, target)
                        /\ EntersFrom(g, target, functions)
<1> DEFINE target == Head(Top.names)
<1>1. stack \in Seq(Frame) /\ stack # <<>> /\ Top \in Frame /\ Top.names # <<>>
  BY TopType DEF TypeInv, MakeLocalName
<1>2. Tail(Top.names) \in Seq(Va) /\ target \in Va
  BY <1>1, ListType DEF Frame
<1>3. PICK h : h = [Top EXCEPT !.names = Tail(@)]
  OBVIOUS
<1>4. h \in Frame
  BY <1>1, <1>2, <1>3 DEF Frame
<1>5. Kept(h, {"names"})
  BY <1>1, <1>2, <1>3 DEF Frame, Kept, Fields
<1>6. CASE target \notin analyzed /\ target \in Exec /\ ~Defined(locations, target)
  <2>1. AddEntryPoint(target, functions, Become(h))
    BY <1>3, <1>6 DEF MakeLocalName
  <2>2. EntersFrom(h, target, functions)
    BY <1>1, <1>2, <1>4, <2>1, EntryEffect
  <2> QED
    BY <1>1, <1>2, <1>4, <1>5, <1>6, <2>2
<1>7. CASE ~(target \notin analyzed /\ target \in Exec /\ ~Defined(locations, target))
  <2>1. stack' = Become(h) /\ functions' = functions /\ cf_blocks' = cf_blocks
    BY <1>3, <1>7 DEF MakeLocalName
  <2>2. Replaced(h)
    BY <1>1, <1>4, <2>1, BecomeIsReplaced
  <2> QED
    BY <1>1, <1>2, <1>4, <1>5, <2>1, <2>2
<1> QED
  BY <1>6, <1>7

LEMMA ReleaseEffect ==
  ASSUME TypeInv, Release
  PROVE  LET waiters == IF Top.va \in DOMAIN awaited_by THEN awaited_by[Top.va] ELSE {}
         IN  /\ Top \in Frame /\ Top.phase = "release"
             /\ DOMAIN waits_on' = DOMAIN waits_on
             /\ \A f \in DOMAIN waits_on :
                    waits_on'[f] = IF f \in waiters THEN waits_on[f] \ {Top.va} ELSE waits_on[f]
             /\ \E g \in Frame :
                  /\ Replaced(g) /\ Kept(g, {"phase", "freed"}) /\ g.phase = "freed"
                  /\ g.freed = {f \in waiters \cap DOMAIN waits_on : waits_on'[f] = {}}
<1> DEFINE waiters == IF Top.va \in DOMAIN awaited_by THEN awaited_by[Top.va] ELSE {}
<1>1. stack \in Seq(Frame) /\ stack # <<>> /\ Top \in Frame /\ Top.phase = "release"
  BY TopType DEF TypeInv, Release, Named, InPhase
<1>2. /\ DOMAIN waits_on' = DOMAIN waits_on
      /\ \A f \in DOMAIN waits_on :
             waits_on'[f] = IF f \in waiters THEN waits_on[f] \ {Top.va} ELSE waits_on[f]
  BY DEF Release
<1>3. PICK free : free = {f \in waiters \cap DOMAIN waits_on : waits_on'[f] = {}}
  OBVIOUS
<1>4. free \subseteq Va
  BY <1>3 DEF TypeInv, WaitsType
<1>5. PICK h : h = [Top EXCEPT !.phase = "freed", !.freed = free]
  OBVIOUS
<1>6. h \in Frame
  BY <1>1, <1>4, <1>5 DEF Frame, Phases
<1>7. Kept(h, {"phase", "freed"}) /\ h.phase = "freed" /\ h.freed = free
  BY <1>1, <1>5 DEF Frame, Kept, Fields
<1>8. stack' = Become(h)
  BY <1>2, <1>3, <1>5 DEF Release
<1>9. Replaced(h)
  BY <1>1, <1>6, <1>8, BecomeIsReplaced
<1> QED
  BY <1>1, <1>2, <1>3, <1>6, <1>7, <1>9

LEMMA ReturnEffect ==
  ASSUME TypeInv, Return
  PROVE  Top \in Frame /\ Top.phase = "freed" /\ Top.freed = {} /\ Popped
BY TopType, FrontIsPopped DEF TypeInv, Return, Named, InPhase

LEMMA MakeFunctionEffect ==
  ASSUME TypeInv, NEW va \in Seeds, MakeFunction(va)
  PROVE  /\ va \in Va /\ stack = <<>>
         /\ stack' \in Seq(Frame) /\ Len(stack') = 1 /\ stack'[1] = NewFrame(va)
         /\ MayEnter(va, functions)
         /\ functions' = functions \cup {va} /\ cf_blocks' = Append(cf_blocks, va)
<1>1. va \in Va
  BY CodeFlowAssumption
<1>2. stack' = <<NewFrame(va)>>
  BY DEF MakeFunction, AddEntryPoint
<1> QED
  BY <1>1, <1>2, NewFrameType DEF MakeFunction, AddEntryPoint

-----------------------------------------------------------------------------
(***************************************************************************)
(* Type correctness.                                                       *)
(***************************************************************************)

\* Whatever add_entry_point does, the stack, functions_ and the active path
\* keep their types.
LEMMA EntryTypes ==
  ASSUME NEW g \in Frame, NEW w \in Va, NEW known \in SUBSET Va, cf_blocks \in Seq(Va),
         EntersFrom(g, w, known)
  PROVE  stack' \in Seq(Frame) /\ functions' \in SUBSET Va /\ cf_blocks' \in Seq(Va)
<1>1. stack' \in Seq(Frame)
  BY DEF EntersFrom, Pushed, Replaced
<1>2. functions' = known \cup {w} \/ functions' = known
  BY DEF EntersFrom
<1>3. Append(cf_blocks, w) \in Seq(Va)
  OBVIOUS
<1>4. cf_blocks' = Append(cf_blocks, w) \/ cf_blocks' = cf_blocks
  BY DEF EntersFrom
<1> QED
  BY <1>1, <1>2, <1>3, <1>4

LEMMA TypeStep == TypeInv /\ [Next]_vars => TypeInv'
<1> SUFFICES ASSUME TypeInv, [Next]_vars PROVE TypeInv'
  OBVIOUS
<1> USE DEF TypeInv, deferralVars, discoveryVars
<1>1. CASE SkipAddress
  BY <1>1, SkipAddressEffect DEF SkipAddress, Replaced, WaitsType, DbType
<1>2. CASE DecodeOpcode
  <2> DEFINE va  == Last(Top.optodo)
             far == {b \in ToSet(GetBranches(va)) : b.to # NoVa /\ "fall" \notin b.flags}
  <2>1. /\ va \in Va /\ code[va] \in Instruction /\ stack' \in Seq(Frame)
        /\ locations' = AddLocation(locations, va, code[va].len, "op")
        /\ xrefs' = AddCodeXrefs(xrefs, va, far)
    BY <1>2, DecodeOpcodeEffect DEF Replaced
  <2>2. GetBranches(va) \in Seq(BranchRec)
    BY <2>1, BranchesType
  <2>3. \A b \in far : b.to \in Nat
    <3>1. \A b \in ToSet(GetBranches(va)) : b \in BranchRec
      BY <2>2 DEF ToSet
    <3> QED
      BY <3>1 DEF BranchRec
  <2>4. DOMAIN xrefs' \subseteq Va \X Nat
    <3>1. DOMAIN xrefs' = DOMAIN xrefs \cup {<<va, b.to>> : b \in far}
      BY <2>1, Zenon DEF AddCodeXrefs
    <3> HIDE DEF far, va
    <3> QED
      BY <2>1, <2>3, <3>1 DEF DbType
  <2>5. /\ DOMAIN locations' = DOMAIN locations \cup {va}
        /\ locations'[va].size = code[va].len
        /\ \A v \in DOMAIN locations \ {va} : locations'[v] = locations[v]
    BY <2>1 DEF AddLocation
  <2>6. code' = code
    BY <1>2 DEF DecodeOpcode
  <2>7. DbType'
    <3>1. DOMAIN locations' \subseteq Va
      BY <2>1, <2>5 DEF DbType
    <3>2. \A v \in DOMAIN locations' :
              code'[v] \in Instruction /\ locations'[v].size = code'[v].len
      BY <2>1, <2>5, <2>6 DEF DbType
    <3> QED
      BY <2>4, <3>1, <3>2 DEF DbType
  <2> QED
    BY <1>2, <2>1, <2>7 DEF DecodeOpcode, WaitsType
<1>3. CASE EndFlow
  <2>1. stack' \in Seq(Frame)
    BY <1>3, EndFlowEffect DEF Replaced
  <2>2. cf_blocks' \in Seq(Va)
    BY <1>3 DEF EndFlow, Front
  <2> QED
    BY <1>3, <2>1, <2>2 DEF EndFlow, WaitsType, DbType
<1>4. CASE BranchesDone
  BY <1>4, BranchesDoneEffect DEF BranchesDone, Replaced, WaitsType, DbType
<1>5. CASE SkipBranch
  BY <1>5, SkipBranchEffect DEF SkipBranch, Replaced, WaitsType, DbType
<1>6. CASE CallBranch
  <2>1. stack' \in Seq(Frame) /\ functions' \in SUBSET Va /\ cf_blocks' \in Seq(Va)
    <3>1. Branch.to \in Va
      BY <1>6, CallBranchEffect
    <3>2. PICK g \in Frame :
             \/ Replaced(g) /\ functions' = functions /\ cf_blocks' = cf_blocks
             \/ EntersFrom(g, Branch.to, functions)
      BY <1>6, CallBranchEffect
    <3>3. CASE Replaced(g) /\ functions' = functions /\ cf_blocks' = cf_blocks
      BY <3>3 DEF Replaced
    <3>4. CASE EntersFrom(g, Branch.to, functions)
      BY <3>1, <3>4, EntryTypes
    <3> QED
      BY <3>2, <3>3, <3>4
  <2> QED
    BY <1>6, <2>1 DEF CallBranch, WaitsType, DbType
<1>7. CASE AfterCall
  BY <1>7, AfterCallEffect DEF AfterCall, Replaced, WaitsType, DbType
<1>8. CASE TailBranch
  <2>1. stack' \in Seq(Frame) /\ Top.va \in Va /\ Branch.to \in Va
    BY <1>8, TailBranchEffect, CodeFlowAssumption DEF TailBranch, Followed, Replaced, Frame
  <2>2. WaitsType'
    <3>1. /\ waits_on' = InsertInto(waits_on, Top.va, Branch.to)
          /\ awaited_by' = InsertInto(awaited_by, Branch.to, Top.va)
      BY <1>8 DEF TailBranch
    <3>2. ASSUME NEW m, DOMAIN m \subseteq Va, m \in [DOMAIN m -> SUBSET Va],
                 NEW k \in Va, NEW v \in Va, NEW n, n = InsertInto(m, k, v)
          PROVE  DOMAIN n \subseteq Va /\ n \in [DOMAIN n -> SUBSET Va]
      BY <3>2 DEF InsertInto
    <3> QED
      BY <2>1, <3>1, <3>2 DEF WaitsType
  <2> QED
    BY <1>8, <2>1, <2>2 DEF TailBranch, DbType
<1>9. CASE FlowBranch
  BY <1>9, FlowBranchEffect DEF FlowBranch, Replaced, WaitsType, DbType
<1>10. ASSUME NEW jt \in JumpTables, ResolveJumpTable(jt) PROVE TypeInv'
  <2>1. /\ stack' \in Seq(Frame) /\ Top.cur \in Va
        /\ \A b \in ToSet(CaseBranches(jt)) : b.to \in Nat
        /\ xrefs' = AddCodeXrefs(xrefs, Top.cur, ToSet(CaseBranches(jt)))
    BY <1>10, ResolveJumpTableEffect DEF Replaced, Frame
  <2>2. DOMAIN xrefs' = DOMAIN xrefs \cup {<<Top.cur, b.to>> : b \in ToSet(CaseBranches(jt))}
    BY <2>1, Zenon DEF AddCodeXrefs
  <2>3. DOMAIN xrefs' \subseteq Va \X Nat
    BY <2>1, <2>2 DEF DbType
  <2> QED
    BY <1>10, <2>1, <2>3 DEF ResolveJumpTable, WaitsType, DbType
<1>11. CASE DrainDeferred
  <2> DEFINE fva == Head(Top.todo)
  <2>1. fva \in Va
    BY <1>11, DrainDeferredEffect
  <2>2. stack' \in Seq(Frame) /\ functions' \in SUBSET Va /\ cf_blocks' \in Seq(Va)
    <3>1. PICK g \in Frame :
             \/ Replaced(g) /\ functions' = functions /\ cf_blocks' = cf_blocks
             \/ EntersFrom(g, fva, functions)
      BY <1>11, DrainDeferredEffect
    <3>2. CASE Replaced(g) /\ functions' = functions /\ cf_blocks' = cf_blocks
      BY <3>2 DEF Replaced
    <3>3. CASE EntersFrom(g, fva, functions)
      BY <2>1, <3>3, EntryTypes
    <3> QED
      BY <3>1, <3>2, <3>3
  <2>3. blocked_recursion' \in Seq(Va)
    BY <1>11, <2>1, PushUniqueFacts DEF DrainDeferred
  <2> QED
    BY <1>11, <2>2, <2>3 DEF DrainDeferred, WaitsType, DbType
<1>12. CASE StartBlocked
  BY <1>12, StartBlockedEffect DEF StartBlocked, Replaced, WaitsType, DbType
<1>13. CASE DrainBlocked
  <2> DEFINE fva == Head(Top.todo)
  <2>1. fva \in Va
    BY <1>13, DrainBlockedEffect
  <2>2. stack' \in Seq(Frame) /\ functions' \in SUBSET Va /\ cf_blocks' \in Seq(Va)
    <3>1. PICK g \in Frame :
             \/ Replaced(g) /\ functions' = functions /\ cf_blocks' = cf_blocks
             \/ EntersFrom(g, fva, functions \ {fva})
      BY <1>13, DrainBlockedEffect
    <3>2. CASE Replaced(g) /\ functions' = functions /\ cf_blocks' = cf_blocks
      BY <3>2 DEF Replaced
    <3>3. CASE EntersFrom(g, fva, functions \ {fva})
      BY <2>1, <3>3, EntryTypes
    <3> QED
      BY <3>1, <3>2, <3>3
  <2>3. blocked_recursion' \in Seq(Va)
    BY <1>13, DrainBlockedEffect, RemoveFirstFacts
  <2> QED
    BY <1>13, <2>2, <2>3 DEF DrainBlocked, WaitsType, DbType
<1>14. CASE FinishFlow
  <2>1. stack' \in Seq(Frame) /\ report_held' \in SUBSET Va
    BY <1>14, FinishFlowEffect DEF Popped, Replaced, Frame
  <2>2. blocked_recursion' \in Seq(Va)
    BY <1>14, FinishFlowEffect DEF FinishFlow, Frame
  <2> QED
    BY <1>14, <2>1, <2>2 DEF FinishFlow, WaitsType, DbType
<1>15. CASE Report
  <2>1. /\ stack' \in Seq(Frame) /\ Top.va \in Va
        /\ reported' = reported \cup {Top.va} /\ analyzed' = analyzed \cup {Top.va}
    BY <1>15, ReportEffect DEF Replaced, Frame
  <2> QED
    BY <1>15, <2>1 DEF Report, WaitsType, DbType
<1>16. CASE MakeLocalName
  <2>1. stack' \in Seq(Frame) /\ functions' \in SUBSET Va /\ cf_blocks' \in Seq(Va)
    <3>1. Head(Top.names) \in Va
      BY <1>16, MakeLocalNameEffect
    <3>2. PICK g \in Frame :
             \/ Replaced(g) /\ functions' = functions /\ cf_blocks' = cf_blocks
             \/ EntersFrom(g, Head(Top.names), functions)
      BY <1>16, MakeLocalNameEffect
    <3>3. CASE Replaced(g) /\ functions' = functions /\ cf_blocks' = cf_blocks
      BY <3>3 DEF Replaced
    <3>4. CASE EntersFrom(g, Head(Top.names), functions)
      BY <3>1, <3>4, EntryTypes
    <3> QED
      BY <3>2, <3>3, <3>4
  <2> QED
    BY <1>16, <2>1 DEF MakeLocalName, WaitsType, DbType
<1>17. CASE Release
  <2>1. stack' \in Seq(Frame)
    BY <1>17, ReleaseEffect DEF Replaced
  <2>2. WaitsType'
    <3>1. DOMAIN waits_on' \subseteq Va /\ waits_on' \in [DOMAIN waits_on' -> SUBSET Va]
      BY <1>17 DEF Release, WaitsType
    <3>2. DOMAIN awaited_by' \subseteq Va /\ awaited_by' \in [DOMAIN awaited_by' -> SUBSET Va]
      BY <1>17 DEF Release, Without, WaitsType
    <3> QED
      BY <3>1, <3>2 DEF WaitsType
  <2> QED
    BY <1>17, <2>1, <2>2 DEF Release, DbType
<1>18. CASE Return
  BY <1>18, ReturnEffect DEF Return, Popped, WaitsType, DbType
<1>19. ASSUME NEW waiter \in Va, ReportFreed(waiter) PROVE TypeInv'
  <2>1. /\ stack' \in Seq(Frame)
        /\ reported' = reported \cup {waiter} /\ analyzed' = analyzed \cup {waiter}
    BY <1>19, ReportFreedEffect DEF Replaced
  <2>2. WaitsType'
    BY <1>19 DEF ReportFreed, Without, WaitsType
  <2>3. report_held' \in SUBSET Va
    BY <1>19 DEF ReportFreed
  <2> QED
    BY <1>19, <2>1, <2>2, <2>3 DEF ReportFreed, DbType
<1>20. ASSUME NEW va \in Seeds, MakeFunction(va) PROVE TypeInv'
  <2>1. /\ va \in Va /\ stack' \in Seq(Frame)
        /\ functions' = functions \cup {va} /\ cf_blocks' = Append(cf_blocks, va)
    BY <1>20, MakeFunctionEffect
  <2>2. cf_blocks' \in Seq(Va) /\ functions' \in SUBSET Va
    BY <2>1
  <2> QED
    BY <1>20, <2>1, <2>2 DEF MakeFunction, WaitsType, DbType
<1>21. CASE UNCHANGED vars
  BY <1>21 DEF vars, WaitsType, DbType
<1> QED
  BY <1>1, <1>2, <1>3, <1>4, <1>5, <1>6, <1>7, <1>8, <1>9, <1>10, <1>11, <1>12, <1>13, <1>14,
     <1>15, <1>16, <1>17, <1>18, <1>19, <1>20, <1>21 DEF Next, Step

LEMMA TypeInit == Init => TypeInv
BY DEF Init, TypeInv, WaitsType, DbType, EmptyDb

\* For every image, seed order, jump-table answer and FLIRT match, the
\* recovery keeps its types: the native stack holds well-formed frames, and
\* every location is a decoded instruction of the image's address range.
THEOREM CodeFlowTypes == Spec => []TypeInv
BY TypeInit, TypeStep, PTL DEF Spec

-----------------------------------------------------------------------------

(***************************************************************************)
(* The list of entries and the set analyzed_ that guards it agree.  The    *)
(* uniqueness of the list alone is not inductive: a new entry is new       *)
(* because it is not in the set.                                           *)
(***************************************************************************)
EntriesInv ==
    /\ entries \in Seq(analyzed)
    /\ \A va \in analyzed : \E i \in DOMAIN entries : entries[i] = va
    /\ IsInjective(entries)

\* Discovery::on_function keeps the list and the set in step.
LEMMA OnFunctionEntries ==
  ASSUME NEW va, NEW frame, EntriesInv, OnFunction(va, frame)
  PROVE  EntriesInv'
<1>1. CASE FirstReport(va)
  <2>1. analyzed' = analyzed \cup {va} /\ entries' = Append(entries, va) /\ va \notin analyzed
    BY <1>1 DEF OnFunction, FirstReport
  <2>2. entries' \in Seq(analyzed')
    BY <2>1 DEF EntriesInv
  <2>3. \A f \in analyzed' : \E i \in DOMAIN entries' : entries'[i] = f
    <3>1. Len(entries) + 1 \in DOMAIN entries' /\ entries'[Len(entries) + 1] = va
      BY <2>1 DEF EntriesInv
    <3>2. \A i \in DOMAIN entries : i \in DOMAIN entries' /\ entries'[i] = entries[i]
      BY <2>1 DEF EntriesInv
    <3> QED
      BY <2>1, <3>1, <3>2 DEF EntriesInv
  <2>4. IsInjective(entries')
    <3>1. \A i \in DOMAIN entries : entries[i] # va
      BY <2>1 DEF EntriesInv
    <3> QED
      BY <2>1, <3>1 DEF EntriesInv, IsInjective
  <2> QED
    BY <2>2, <2>3, <2>4 DEF EntriesInv
<1>2. CASE ~FirstReport(va)
  BY <1>2 DEF OnFunction, EntriesInv
<1> QED
  BY <1>1, <1>2

\* Every other step leaves both alone.
LEMMA StepEntries == EntriesInv /\ [Next]_vars => EntriesInv'
<1> SUFFICES ASSUME EntriesInv, [Next]_vars PROVE EntriesInv'
  OBVIOUS
<1>1. CASE Report
  BY <1>1, OnFunctionEntries DEF Report
<1>2. ASSUME NEW w \in Va, ReportFreed(w) PROVE EntriesInv'
  BY <1>2, OnFunctionEntries DEF ReportFreed
<1>3. CASE UNCHANGED <<analyzed, entries>>
  BY <1>3 DEF EntriesInv
<1>4. ASSUME Next, ~Report, ~\E w \in Va : ReportFreed(w) PROVE UNCHANGED <<analyzed, entries>>
  BY <1>4 DEF Next, Step, MakeFunction, SkipAddress, DecodeOpcode, EndFlow, BranchesDone,
     SkipBranch, CallBranch, AfterCall, TailBranch, FlowBranch, ResolveJumpTable,
     DrainDeferred, StartBlocked, DrainBlocked, FinishFlow, MakeLocalName, Release, Return,
     discoveryVars
<1>5. CASE UNCHANGED vars
  BY <1>5, <1>3 DEF vars, discoveryVars
<1> QED
  BY <1>1, <1>2, <1>3, <1>4, <1>5

\* However often the deferral machinery reports a function, Discovery lists
\* it once.
THEOREM FunctionsListedOnce == Spec => []EntriesUnique
<1>1. Init => EntriesInv
  BY DEF Init, EntriesInv, IsInjective
<1>2. EntriesInv => EntriesUnique
  BY DEF EntriesInv, EntriesUnique
<1> QED
  BY <1>1, <1>2, StepEntries, PTL DEF Spec

-----------------------------------------------------------------------------
(***************************************************************************)
(* Every function is settled.                                              *)
(***************************************************************************)

\* The phases of add_entry_point before its report.
Unreported == {"flow", "branch", "called", "drain", "blocked", "report"}

InProgress(f) == \E i \in DOMAIN stack : stack[i].va = f /\ stack[i].phase \in Unreported

(***************************************************************************)
(* What EveryFunctionSettled says of a returned make_function, for every   *)
(* state: a function is reported, held, or has a frame that still has to   *)
(* report it.                                                              *)
(***************************************************************************)
SettleInv ==
    /\ reported = analyzed
    /\ report_held \subseteq DOMAIN waits_on
    /\ \A f \in functions : f \in reported \/ f \in report_held \/ InProgress(f)

\* The frame on top goes on as g, perhaps below a new frame.
Continues(g) == Replaced(g) \/ \E w \in Va : Pushed(g, w)

LEMMA EnteringContinues ==
  ASSUME NEW g, NEW w \in Va, NEW known, EntersFrom(g, w, known)
  PROVE  Continues(g)
BY DEF EntersFrom, Continues

LEMMA ProgressKept ==
  ASSUME TypeInv, NEW g \in Frame, Continues(g),
         g.va = Top.va, Top.phase \in Unreported => g.phase \in Unreported,
         NEW f, InProgress(f)
  PROVE  InProgress(f)'
<1>1. PICK i \in DOMAIN stack : stack[i].va = f /\ stack[i].phase \in Unreported
  BY DEF InProgress
<1>2. Len(stack) \in Nat /\ DOMAIN stack = 1 .. Len(stack) /\ stack # <<>> /\ Top = stack[Len(stack)]
  BY TopType DEF TypeInv, Continues, Replaced, Pushed
<1>3. /\ stack' \in Seq(Frame) /\ Len(stack') >= Len(stack) /\ Len(stack') \in Nat
      /\ stack'[Len(stack)] = g /\ \A j \in 1 .. (Len(stack) - 1) : stack'[j] = stack[j]
  BY <1>2 DEF Continues, Replaced, Pushed
<1>4. i \in DOMAIN stack'
  BY <1>2, <1>3
<1>5. CASE i = Len(stack)
  BY <1>1, <1>2, <1>3, <1>4, <1>5 DEF InProgress
<1>6. CASE i # Len(stack)
  <2>1. stack'[i] = stack[i]
    BY <1>2, <1>3, <1>6
  <2> QED
    BY <1>1, <1>4, <2>1 DEF InProgress
<1> QED
  BY <1>5, <1>6

LEMMA ReplacedProgress ==
  ASSUME TypeInv, NEW g \in Frame, Replaced(g), NEW f, InProgress(f), f # Top.va
  PROVE  InProgress(f)'
<1>1. PICK i \in DOMAIN stack : stack[i].va = f /\ stack[i].phase \in Unreported
  BY DEF InProgress
<1>2. Len(stack) \in Nat /\ DOMAIN stack = 1 .. Len(stack) /\ stack # <<>> /\ Top = stack[Len(stack)]
  BY TopType DEF TypeInv, Replaced
<1>3. i \in DOMAIN stack' /\ stack'[i] = stack[i]
  BY <1>1, <1>2 DEF Replaced
<1> QED
  BY <1>1, <1>3 DEF InProgress

LEMMA PushedInProgress ==
  ASSUME TypeInv, NEW g, NEW w \in Va, Pushed(g, w)
  PROVE  InProgress(w)'
<1>1. /\ stack' \in Seq(Frame) /\ Len(stack') = Len(stack) + 1 /\ Len(stack) \in Nat
      /\ stack'[Len(stack) + 1] = NewFrame(w)
  BY DEF TypeInv, Pushed
<1>2. Len(stack) + 1 \in DOMAIN stack'
  BY <1>1
<1> QED
  BY <1>1, <1>2 DEF InProgress, NewFrame, Unreported

LEMMA PoppedProgress ==
  ASSUME TypeInv, Popped, NEW f, InProgress(f)
  PROVE  InProgress(f)' \/ (f = Top.va /\ Top.phase \in Unreported)
<1>1. PICK i \in DOMAIN stack : stack[i].va = f /\ stack[i].phase \in Unreported
  BY DEF InProgress
<1>2. Len(stack) \in Nat /\ DOMAIN stack = 1 .. Len(stack) /\ stack # <<>> /\ Top = stack[Len(stack)]
  BY TopType DEF TypeInv, Popped
<1>3. /\ stack' \in Seq(Frame) /\ Len(stack') = Len(stack) - 1
      /\ \A j \in 1 .. (Len(stack) - 1) : stack'[j] = stack[j]
  BY DEF Popped
<1>4. CASE i = Len(stack)
  BY <1>1, <1>2, <1>4
<1>5. CASE i # Len(stack)
  <2>1. stack'[i] = stack[i] /\ i \in DOMAIN stack'
    BY <1>2, <1>3, <1>5
  <2> QED
    BY <1>1, <2>1 DEF InProgress
<1> QED
  BY <1>4, <1>5

\* A step that reports nothing and goes on in the same frame.
LEMMA SettleKept ==
  ASSUME TypeInv, SettleInv, NEW g \in Frame,
         g.va = Top.va, Top.phase \in Unreported => g.phase \in Unreported,
         \/ Replaced(g) /\ functions' = functions
         \/ \E w \in Va : \E known \in SUBSET functions : EntersFrom(g, w, known),
         UNCHANGED <<reported, analyzed, report_held>>,
         DOMAIN waits_on \subseteq DOMAIN waits_on'
  PROVE  SettleInv'
<1>1. Continues(g)
  BY EnteringContinues DEF Continues
<1>2. \A f : InProgress(f) => InProgress(f)'
  BY <1>1, ProgressKept
<1>3. \A f \in functions' : f \in functions \/ InProgress(f)'
  <2>1. CASE functions' = functions
    BY <2>1
  <2>2. ASSUME NEW w \in Va, NEW known \in SUBSET functions, EntersFrom(g, w, known)
        PROVE  \A f \in functions' : f \in functions \/ InProgress(f)'
    <3>1. CASE Pushed(g, w) /\ functions' = known \cup {w}
      BY <3>1, PushedInProgress
    <3>2. CASE functions' = known
      BY <3>2
    <3> QED
      BY <2>2, <3>1, <3>2 DEF EntersFrom
  <2> QED
    BY <2>1, <2>2
<1> QED
  BY <1>2, <1>3 DEF SettleInv

LEMMA SettleStep == TypeInv /\ SettleInv /\ [Next]_vars => SettleInv'
<1> SUFFICES ASSUME TypeInv, SettleInv, [Next]_vars PROVE SettleInv'
  OBVIOUS
<1> USE DEF Kept, Fields, Unreported, deferralVars, discoveryVars
<1>1. CASE SkipAddress
  BY <1>1, SkipAddressEffect, SettleKept DEF SkipAddress
<1>2. CASE DecodeOpcode
  BY <1>2, DecodeOpcodeEffect, SettleKept DEF DecodeOpcode
<1>3. CASE EndFlow
  BY <1>3, EndFlowEffect, SettleKept DEF EndFlow
<1>4. CASE BranchesDone
  BY <1>4, BranchesDoneEffect, SettleKept DEF BranchesDone
<1>5. CASE SkipBranch
  BY <1>5, SkipBranchEffect, SettleKept DEF SkipBranch
<1>6. CASE CallBranch
  BY <1>6, CallBranchEffect, SettleKept DEF CallBranch
<1>7. CASE AfterCall
  BY <1>7, AfterCallEffect, SettleKept DEF AfterCall
<1>8. CASE TailBranch
  <2>1. DOMAIN waits_on \subseteq DOMAIN waits_on'
    BY <1>8 DEF TailBranch, InsertInto
  <2> QED
    BY <1>8, <2>1, TailBranchEffect, SettleKept DEF TailBranch
<1>9. CASE FlowBranch
  BY <1>9, FlowBranchEffect, SettleKept DEF FlowBranch
<1>10. ASSUME NEW jt \in JumpTables, ResolveJumpTable(jt) PROVE SettleInv'
  BY <1>10, ResolveJumpTableEffect, SettleKept DEF ResolveJumpTable
<1>11. CASE DrainDeferred
  BY <1>11, DrainDeferredEffect, SettleKept DEF DrainDeferred
<1>12. CASE StartBlocked
  BY <1>12, StartBlockedEffect, SettleKept DEF StartBlocked
<1>13. CASE DrainBlocked
  BY <1>13, DrainBlockedEffect, SettleKept DEF DrainBlocked
<1>14. CASE FinishFlow
  <2>1. CASE Popped /\ report_held' = report_held \cup {Top.va} /\ Top.va \in DOMAIN waits_on
    BY <1>14, <2>1, PoppedProgress DEF FinishFlow, SettleInv
  <2>2. ASSUME NEW g \in Frame, Replaced(g), Kept(g, {"phase"}), g.phase = "report",
               report_held' = report_held
        PROVE  SettleInv'
    BY <1>14, <2>2, FinishFlowEffect, SettleKept DEF FinishFlow
  <2> QED
    BY <1>14, <2>1, <2>2, FinishFlowEffect
<1>15. CASE Report
  <2>1. PICK g \in Frame : Replaced(g) /\ g.va = Top.va /\ g.phase = "release"
    BY <1>15, ReportEffect
  <2>2. ASSUME NEW f, InProgress(f), f # Top.va PROVE InProgress(f)'
    BY <2>1, <2>2, ReplacedProgress
  <2>3. reported' = reported \cup {Top.va} /\ analyzed' = analyzed \cup {Top.va}
    BY <1>15, ReportEffect
  <2>4. UNCHANGED <<functions, waits_on, report_held>>
    BY <1>15 DEF Report
  <2> QED
    BY <2>2, <2>3, <2>4 DEF SettleInv
<1>16. CASE MakeLocalName
  BY <1>16, MakeLocalNameEffect, SettleKept DEF MakeLocalName
<1>17. CASE Release
  BY <1>17, ReleaseEffect, SettleKept DEF Release
<1>18. CASE Return
  <2>1. Popped /\ Top.phase = "freed"
    BY <1>18, ReturnEffect
  <2>2. \A f : InProgress(f) => InProgress(f)'
    BY <2>1, PoppedProgress
  <2> QED
    BY <1>18, <2>2 DEF Return, SettleInv
<1>19. ASSUME NEW waiter \in Va, ReportFreed(waiter) PROVE SettleInv'
  <2>1. PICK g \in Frame : Replaced(g) /\ g.va = Top.va /\ g.phase = Top.phase
    BY <1>19, ReportFreedEffect
  <2>2. \A f : InProgress(f) => InProgress(f)'
    BY <2>1, ProgressKept DEF Continues
  <2>3. reported' = reported \cup {waiter} /\ analyzed' = analyzed \cup {waiter}
    BY <1>19, ReportFreedEffect
  <2>4. /\ DOMAIN waits_on' = DOMAIN waits_on \ {waiter}
        /\ report_held' = report_held \ {waiter} /\ functions' = functions
    BY <1>19 DEF ReportFreed, Without
  <2> QED
    BY <2>2, <2>3, <2>4 DEF SettleInv
<1>20. ASSUME NEW va \in Seeds, MakeFunction(va) PROVE SettleInv'
  <2>1. ~\E f : InProgress(f)
    BY <1>20, MakeFunctionEffect DEF InProgress
  <2>2. InProgress(va)' /\ functions' = functions \cup {va}
    <3>1. 1 \in DOMAIN stack' /\ stack'[1] = NewFrame(va) /\ functions' = functions \cup {va}
      BY <1>20, MakeFunctionEffect
    <3> QED
      BY <3>1 DEF InProgress, NewFrame
  <2> QED
    BY <1>20, <2>1, <2>2 DEF MakeFunction, SettleInv
<1>21. CASE UNCHANGED vars
  BY <1>21 DEF vars, SettleInv, InProgress
<1> QED
  BY <1>1, <1>2, <1>3, <1>4, <1>5, <1>6, <1>7, <1>8, <1>9, <1>10, <1>11, <1>12, <1>13, <1>14,
     <1>15, <1>16, <1>17, <1>18, <1>19, <1>20, <1>21 DEF Next, Step

\* When make_function has returned, every function it entered is reported or
\* held, and what is held still waits: for every image, seed order, jump-table
\* answer, FLIRT match and setting of the caps.
THEOREM FunctionsSettle == Spec => []EveryFunctionSettled
<1>1. Init => SettleInv
  BY DEF Init, SettleInv, EmptyDb
<1>2. TypeInv /\ SettleInv => EveryFunctionSettled
  <2> SUFFICES ASSUME TypeInv, SettleInv, Idle PROVE EveryFunctionSettled
    BY DEF EveryFunctionSettled
  <2>1. ~\E f : InProgress(f)
    BY DEF Idle, InProgress
  <2> QED
    BY <2>1 DEF SettleInv, EveryFunctionSettled
<1> QED
  BY <1>1, <1>2, CodeFlowTypes, SettleStep, PTL DEF Spec

-----------------------------------------------------------------------------
(***************************************************************************)
(* The deferral tables.                                                    *)
(***************************************************************************)

\* What a flow has decoded: its instructions are locations, it starts at the
\* function's address, and it handles branches of an instruction it decoded.
InsnFrame(f) ==
    /\ f.insns \subseteq DOMAIN locations
    /\ f.insns # {} => f.va \in DOMAIN locations
    /\ f.phase \in {"branch", "called"} => f.cur \in f.insns
    /\ f.phase = "flow" /\ f.insns = {} => f.optodo \in {<<f.va>>, <<>>}

InsnInv == \A i \in DOMAIN stack : InsnFrame(stack[i])

\* Facts about the stack after a step, in one place.
LEMMA StackAfter ==
  ASSUME TypeInv, NEW g, Continues(g)
  PROVE  /\ stack # <<>> /\ Len(stack) \in Nat \ {0} /\ Len(stack') \in Nat
         /\ DOMAIN stack = 1 .. Len(stack) /\ DOMAIN stack' = 1 .. Len(stack')
         /\ stack[Len(stack)] = Top /\ stack'[Len(stack)] = g
         /\ Len(stack) \in DOMAIN stack' /\ Len(stack') \in {Len(stack), Len(stack) + 1}
         /\ \A i \in DOMAIN stack : i # Len(stack) => i \in DOMAIN stack' /\ stack'[i] = stack[i]
         /\ \A i \in DOMAIN stack' :
                \/ i \in DOMAIN stack /\ i # Len(stack) /\ stack'[i] = stack[i]
                \/ i = Len(stack) /\ stack'[i] = g
                \/ i = Len(stack) + 1 /\ \E w \in Va : Pushed(g, w) /\ stack'[i] = NewFrame(w)
<1>1. PICK s \in Seq(Frame), t \in Seq(Frame) :
          /\ s = stack /\ t = stack' /\ s # <<>> /\ s[Len(s)] = Top /\ t[Len(s)] = g
          /\ \A i \in 1 .. (Len(s) - 1) : t[i] = s[i]
          /\ \/ Len(t) = Len(s)
             \/ Len(t) = Len(s) + 1 /\ \E w \in Va : Pushed(g, w) /\ t[Len(s) + 1] = NewFrame(w)
  BY TopType DEF Continues, Replaced, Pushed, TypeInv
<1>2. PICK n \in Nat \ {0}, m \in Nat :
          n = Len(s) /\ m = Len(t) /\ DOMAIN s = 1 .. n /\ DOMAIN t = 1 .. m
  BY <1>1
<1>3. m \in {n, n + 1} /\ n \in DOMAIN t
  BY <1>1, <1>2
<1>4. \A i \in DOMAIN s : i # n => i \in 1 .. (n - 1) /\ i \in DOMAIN t
  BY <1>2, <1>3
<1>5. \A i \in DOMAIN t : (i \in DOMAIN s /\ i # n /\ i \in 1 .. (n - 1)) \/ i = n \/ (i = n + 1 /\ m = n + 1)
  BY <1>2, <1>3
<1> QED
  BY <1>1, <1>2, <1>3, <1>4, <1>5

LEMMA InsnKept ==
  ASSUME TypeInv, InsnInv, NEW g, Continues(g), InsnFrame(g)',
         DOMAIN locations \subseteq DOMAIN locations'
  PROVE  InsnInv'
<1> SUFFICES ASSUME NEW i \in DOMAIN stack', NEW f, f = stack'[i] PROVE InsnFrame(f)'
  BY DEF InsnInv
<1>1. CASE i \in DOMAIN stack /\ f = stack[i]
  BY <1>1 DEF InsnInv, InsnFrame
<1>2. CASE f = g
  BY <1>2
<1>3. ASSUME NEW w, f = NewFrame(w) PROVE InsnFrame(f)'
  BY <1>3 DEF InsnFrame, NewFrame
<1> QED
  BY <1>1, <1>2, <1>3, StackAfter

LEMMA InsnStep == TypeInv /\ InsnInv /\ [Next]_vars => InsnInv'
<1> SUFFICES ASSUME TypeInv, InsnInv, [Next]_vars PROVE InsnInv'
  OBVIOUS
<1>0. stack # <<>> => InsnFrame(Top) /\ Top \in Frame
  <2> SUFFICES ASSUME stack # <<>> PROVE InsnFrame(Top) /\ Top \in Frame
    OBVIOUS
  <2>1. Top = stack[Len(stack)] /\ Len(stack) \in DOMAIN stack /\ Top \in Frame
    BY TopType DEF TypeInv
  <2> QED
    BY <2>1 DEF InsnInv
<1> USE DEF Kept, Fields, deferralVars, discoveryVars
\* A step that leaves the flow of the frame alone, or ends it.
<1>a. ASSUME NEW g \in Frame, Continues(g), g.insns = Top.insns, g.va = Top.va,
             g.cur = Top.cur, g.optodo = Top.optodo,
             \/ g.phase = Top.phase
             \/ g.phase \in Phases \ {"flow", "branch", "called"}
             \/ g.phase \in {"branch", "called"} /\ Top.phase \in {"branch", "called"}
             \/ g.phase = "flow" /\ Top.phase = "branch",
             locations' = locations
      PROVE  InsnInv'
  <2>1. stack # <<>>
    BY <1>a DEF Continues, Replaced, Pushed
  <2>2. InsnFrame(g)'
    BY <1>0, <1>a, <2>1 DEF InsnFrame
  <2> QED
    BY <1>a, <2>2, InsnKept
<1>1. CASE SkipAddress
  <2>1. PICK g \in Frame : /\ Replaced(g) /\ g.insns = Top.insns /\ g.va = Top.va
                           /\ g.phase = "flow" /\ g.optodo = Front(Top.optodo)
    BY <1>1, SkipAddressEffect
  <2>2. Top.phase = "flow" /\ stack # <<>> /\ locations' = locations
    BY <1>1, SkipAddressEffect DEF SkipAddress, Replaced
  <2>3. Top.insns = {} => Top.optodo \in {<<Top.va>>, <<>>}
    BY <1>0, <2>2 DEF InsnFrame
  <2>4. Top.insns = {} => g.optodo = <<>>
    BY <2>1, <2>3 DEF Front
  <2>5. InsnFrame(g)'
    BY <1>0, <2>1, <2>2, <2>4 DEF InsnFrame
  <2> QED
    BY <2>1, <2>2, <2>5, InsnKept DEF Continues
<1>2. CASE DecodeOpcode
  <2> DEFINE va == Last(Top.optodo)
  <2>1. PICK g \in Frame : /\ Replaced(g) /\ g.insns = Top.insns \cup {va} /\ g.va = Top.va
                           /\ g.phase = "branch" /\ g.cur = va
    BY <1>2, DecodeOpcodeEffect
  <2>2. /\ Top.phase = "flow" /\ stack # <<>> /\ DOMAIN locations' = DOMAIN locations \cup {va}
        /\ Top.optodo # <<>>
    BY <1>2, DecodeOpcodeEffect DEF Replaced
  <2>3. Top.insns = {} => va = Top.va
    <3>1. Top.insns = {} => Top.optodo = <<Top.va>>
      BY <1>0, <2>2 DEF InsnFrame
    <3> QED
      BY <3>1 DEF Last
  <2>4. InsnFrame(g)'
    BY <1>0, <2>1, <2>2, <2>3 DEF InsnFrame
  <2> QED
    BY <2>1, <2>2, <2>4, InsnKept DEF Continues
<1>3. CASE EndFlow
  BY <1>3, <1>a, EndFlowEffect DEF EndFlow, Continues, Phases
<1>4. CASE BranchesDone
  BY <1>4, <1>a, BranchesDoneEffect DEF BranchesDone, Continues
<1>5. CASE SkipBranch
  BY <1>5, <1>a, SkipBranchEffect DEF SkipBranch, Continues
<1>6. CASE CallBranch
  <2>1. PICK g \in Frame : /\ Continues(g) /\ Kept(g, {"branches", "phase", "deferred"})
                           /\ g.phase \in {"branch", "called"}
    BY <1>6, CallBranchEffect, EnteringContinues DEF Continues
  <2> QED
    BY <1>6, <1>a, <2>1, CallBranchEffect DEF CallBranch
<1>7. CASE AfterCall
  BY <1>7, <1>a, AfterCallEffect DEF AfterCall, Continues
<1>8. CASE TailBranch
  BY <1>8, <1>a, TailBranchEffect DEF TailBranch, Continues
<1>9. CASE FlowBranch
  <2>1. PICK g \in Frame : /\ Replaced(g) /\ g.insns = Top.insns /\ g.va = Top.va
                           /\ g.phase = "branch" /\ g.cur = Top.cur
    BY <1>9, FlowBranchEffect
  <2>2. Top.phase = "branch" /\ stack # <<>> /\ locations' = locations
    BY <1>9, FlowBranchEffect DEF FlowBranch, Replaced
  <2>3. InsnFrame(g)'
    BY <1>0, <2>1, <2>2 DEF InsnFrame
  <2> QED
    BY <2>1, <2>2, <2>3, InsnKept DEF Continues
<1>10. ASSUME NEW jt \in JumpTables, ResolveJumpTable(jt) PROVE InsnInv'
  BY <1>10, <1>a, ResolveJumpTableEffect DEF ResolveJumpTable, Continues
<1>11. CASE DrainDeferred
  <2>1. PICK g \in Frame : Continues(g) /\ Kept(g, {"todo"})
    BY <1>11, DrainDeferredEffect, EnteringContinues DEF Continues
  <2> QED
    BY <1>11, <1>a, <2>1 DEF DrainDeferred
<1>12. CASE StartBlocked
  BY <1>12, <1>a, StartBlockedEffect DEF StartBlocked, Continues, Phases
<1>13. CASE DrainBlocked
  <2>1. PICK g \in Frame : Continues(g) /\ Kept(g, {"todo", "still"})
    BY <1>13, DrainBlockedEffect, EnteringContinues DEF Continues
  <2> QED
    BY <1>13, <1>a, <2>1 DEF DrainBlocked
<1>b. CASE Popped /\ locations' = locations
  <2>1. \A i \in DOMAIN stack' : i \in DOMAIN stack /\ stack'[i] = stack[i]
    BY <1>b DEF Popped, TypeInv
  <2> QED
    BY <1>b, <2>1 DEF InsnInv, InsnFrame
<1>14. CASE FinishFlow
  <2>1. locations' = locations
    BY <1>14 DEF FinishFlow
  <2>2. CASE Popped
    BY <1>b, <2>1, <2>2
  <2>3. ASSUME NEW g \in Frame, Replaced(g), Kept(g, {"phase"}), g.phase = "report" PROVE InsnInv'
    BY <1>a, <2>1, <2>3 DEF Continues, Phases
  <2> QED
    BY <1>14, <2>2, <2>3, FinishFlowEffect
<1>15. CASE Report
  BY <1>15, <1>a, ReportEffect DEF Report, Continues, Phases
<1>16. CASE MakeLocalName
  <2>1. PICK g \in Frame : Continues(g) /\ Kept(g, {"names"})
    BY <1>16, MakeLocalNameEffect, EnteringContinues DEF Continues
  <2> QED
    BY <1>16, <1>a, <2>1 DEF MakeLocalName
<1>17. CASE Release
  BY <1>17, <1>a, ReleaseEffect DEF Release, Continues, Phases
<1>18. CASE Return
  BY <1>18, <1>b, ReturnEffect DEF Return
<1>19. ASSUME NEW waiter \in Va, ReportFreed(waiter) PROVE InsnInv'
  BY <1>19, <1>a, ReportFreedEffect DEF ReportFreed, Continues
<1>20. ASSUME NEW va \in Seeds, MakeFunction(va) PROVE InsnInv'
  <2>1. \A i \in DOMAIN stack' : stack'[i] = NewFrame(va)
    BY <1>20, MakeFunctionEffect
  <2> QED
    BY <2>1 DEF InsnInv, InsnFrame, NewFrame
<1>21. CASE UNCHANGED vars
  BY <1>21 DEF vars, InsnInv, InsnFrame
<1> QED
  BY <1>1, <1>2, <1>3, <1>4, <1>5, <1>6, <1>7, <1>8, <1>9, <1>10, <1>11, <1>12, <1>13, <1>14,
     <1>15, <1>16, <1>17, <1>18, <1>19, <1>20, <1>21 DEF Next, Step

\* The first byte of a location is defined, whatever else the database holds.
LEMMA StartIsDefined ==
  ASSUME TypeInv, NEW v \in DOMAIN locations
  PROVE  Defined(locations, v)
<1> DEFINE before == {s \in DOMAIN locations : s <= v}
<1>1. v \in Int /\ DOMAIN locations \subseteq Int
  BY VaAssumption DEF TypeInv, DbType, Va
<1>2. v \in before /\ \A t \in before : t <= v
  BY <1>1
<1>3. PICK start : start = CHOOSE s \in before : \A t \in before : t <= s
  OBVIOUS
<1>4. start \in before /\ \A t \in before : t <= start
  BY <1>2, <1>3
<1>5. start = v
  BY <1>1, <1>2, <1>4
<1>6. v < v + locations[v].size
  <2>1. locations[v].size \in Nat \ {0}
    BY DEF TypeInv, DbType, Instruction
  <2> QED
    BY <1>1, <2>1
<1>7. GetLocation(locations, v) = v
  BY <1>2, <1>3, <1>5, <1>6 DEF GetLocation
<1> QED
  BY <1>1, <1>7, NoVaAssumption DEF Defined

(***************************************************************************)
(* A function that a release freed waits for nothing until its report, for *)
(* it has been flowed: a frame that FLIRT's local names, made in between,  *)
(* may enter for it again decodes nothing, and so adds no wait.            *)
(***************************************************************************)
FreedFrame(i, f) ==
    /\ f.phase # "freed" => f.freed = {}
    /\ \A w \in f.freed :
         /\ w \in DOMAIN locations
         /\ w \in DOMAIN waits_on => waits_on[w] = {}
         /\ \A j \in DOMAIN stack : j > i /\ stack[j].va = w => stack[j].insns = {}

FreedInv == \A i \in DOMAIN stack : FreedFrame(i, stack[i])

WaitInv ==
    /\ WaitsInverse
    /\ DOMAIN waits_on \subseteq DOMAIN locations
    /\ FreedInv

FreedBelow(w) == \E i \in DOMAIN stack : i # Len(stack) /\ w \in stack[i].freed

LEMMA FreedKept ==
  ASSUME TypeInv, FreedInv, NEW g \in Frame, Continues(g), g.va = Top.va,
         g.insns = Top.insns \/ ~FreedBelow(Top.va),
         g.phase # "freed" => g.freed = {},
         \A w \in g.freed : /\ w \in DOMAIN locations'
                            /\ w \in DOMAIN waits_on' => waits_on'[w] = {},
         DOMAIN locations \subseteq DOMAIN locations',
         \A w \in DOMAIN waits_on' :
            \/ w \in DOMAIN waits_on /\ waits_on'[w] \subseteq waits_on[w]
            \/ ~FreedBelow(w)
  PROVE  FreedInv'
<1> SUFFICES ASSUME NEW i \in DOMAIN stack', NEW f, f = stack'[i] PROVE FreedFrame(i, f)'
  BY DEF FreedInv
<1>1. CASE i \in DOMAIN stack /\ i # Len(stack) /\ f = stack[i]
  <2>1. FreedFrame(i, f)
    BY <1>1 DEF FreedInv
  <2>2. ASSUME NEW w \in f.freed PROVE w \in DOMAIN locations'
    BY <2>1, <2>2 DEF FreedFrame
  <2>3. ASSUME NEW w \in f.freed PROVE w \in DOMAIN waits_on' => waits_on'[w] = {}
    <3>1. FreedBelow(w)
      BY <1>1, <2>3 DEF FreedBelow
    <3> QED
      BY <2>1, <2>3, <3>1 DEF FreedFrame
  <2>4. ASSUME NEW w \in f.freed, NEW j \in DOMAIN stack', j > i, NEW h, h = stack'[j], h.va = w
        PROVE  h.insns = {}
    <3>1. CASE j \in DOMAIN stack /\ h = stack[j]
      BY <2>1, <2>4, <3>1 DEF FreedFrame
    <3>2. CASE j = Len(stack) /\ h = g
      <4>1. FreedBelow(w) /\ w = Top.va
        BY <1>1, <2>4, <3>2 DEF FreedBelow
      <4>2. Len(stack) \in DOMAIN stack /\ stack[Len(stack)] = Top
        BY StackAfter
      <4>3. Top.insns = {}
        BY <2>1, <2>4, <3>2, <4>1, <4>2 DEF FreedFrame
      <4> QED
        BY <3>2, <4>1, <4>3
    <3>3. ASSUME NEW u, h = NewFrame(u) PROVE h.insns = {}
      BY <3>3 DEF NewFrame
    <3> QED
      BY <2>4, <3>1, <3>2, <3>3, StackAfter
  <2>5. \A w \in f.freed : \A j \in DOMAIN stack' :
            j > i /\ stack'[j].va = w => stack'[j].insns = {}
    BY <2>4
  <2> QED
    BY <2>1, <2>2, <2>3, <2>5 DEF FreedFrame
<1>2. CASE i = Len(stack) /\ f = g
  <2>1. \A j \in DOMAIN stack' : j > i => \E u \in Va : stack'[j] = NewFrame(u)
    BY <1>2, StackAfter
  <2>2. \A j \in DOMAIN stack' : j > i => stack'[j].insns = {}
    BY <2>1 DEF NewFrame
  <2> QED
    BY <1>2, <2>2 DEF FreedFrame
<1>3. ASSUME NEW u, f = NewFrame(u) PROVE FreedFrame(i, f)'
  BY <1>3 DEF FreedFrame, NewFrame
<1> QED
  BY <1>1, <1>2, <1>3, StackAfter

LEMMA FreedStep == TypeInv /\ InsnInv /\ WaitInv /\ [Next]_vars => FreedInv'
<1> SUFFICES ASSUME TypeInv, InsnInv, WaitInv, [Next]_vars PROVE FreedInv'
  OBVIOUS
<1>0. stack # <<>> => /\ InsnFrame(Top) /\ FreedFrame(Len(stack), Top) /\ Top \in Frame
                      /\ Top = stack[Len(stack)] /\ Len(stack) \in DOMAIN stack
  <2> SUFFICES ASSUME stack # <<>>
               PROVE  /\ InsnFrame(Top) /\ FreedFrame(Len(stack), Top) /\ Top \in Frame
                      /\ Top = stack[Len(stack)] /\ Len(stack) \in DOMAIN stack
    OBVIOUS
  <2>1. Top = stack[Len(stack)] /\ Len(stack) \in DOMAIN stack /\ Top \in Frame
    BY TopType DEF TypeInv
  <2> QED
    BY <2>1 DEF InsnInv, WaitInv, FreedInv
<1>f. FreedInv
  BY DEF WaitInv
\* A freed function below has a frame on top only with nothing decoded.
<1>t. ASSUME stack # <<>>, FreedBelow(Top.va) PROVE Top.insns = {} /\ Top.va \in DOMAIN locations
  <2>1. PICK i \in DOMAIN stack : i # Len(stack) /\ Top.va \in stack[i].freed
    BY <1>t DEF FreedBelow
  <2>2. Len(stack) > i
    BY <2>1 DEF TypeInv
  <2> QED
    BY <1>0, <1>t, <1>f, <2>1, <2>2 DEF FreedInv, FreedFrame
<1> USE DEF Kept, Fields, deferralVars, discoveryVars
<1>a. ASSUME NEW g \in Frame, Continues(g), g.insns = Top.insns, g.va = Top.va, g.freed = Top.freed,
             Top.phase # "freed" \/ g.phase = "freed", locations' = locations, waits_on' = waits_on
      PROVE  FreedInv'
  <2>1. stack # <<>>
    BY <1>a DEF Continues, Replaced, Pushed
  <2>2. /\ g.phase # "freed" => g.freed = {}
        /\ \A w \in g.freed : w \in DOMAIN locations /\ (w \in DOMAIN waits_on => waits_on[w] = {})
    BY <1>0, <1>a, <2>1 DEF FreedFrame
  <2> QED
    BY <1>a, <1>f, <2>2, FreedKept
<1>1. CASE SkipAddress
  BY <1>1, <1>a, SkipAddressEffect DEF SkipAddress, Continues
<1>2. CASE DecodeOpcode
  <2> DEFINE va == Last(Top.optodo)
  <2>1. PICK g \in Frame : /\ Replaced(g) /\ g.va = Top.va /\ g.freed = Top.freed /\ g.phase = "branch"
    BY <1>2, DecodeOpcodeEffect
  <2>2. /\ Top.phase = "flow" /\ stack # <<>> /\ DOMAIN locations' = DOMAIN locations \cup {va}
        /\ Top.optodo # <<>> /\ waits_on' = waits_on /\ Decodable(Top, va)
    BY <1>2, DecodeOpcodeEffect DEF DecodeOpcode, Replaced
  <2>3. g.freed = {}
    BY <1>0, <2>1, <2>2 DEF FreedFrame
  <2>4. ~FreedBelow(Top.va)
    <3> SUFFICES ASSUME FreedBelow(Top.va) PROVE FALSE
      OBVIOUS
    <3>1. Top.insns = {} /\ Top.va \in DOMAIN locations
      BY <1>t, <2>2
    <3>2. Top.optodo = <<Top.va>>
      BY <1>0, <2>2, <3>1 DEF InsnFrame
    <3>3. va = Top.va
      BY <3>2 DEF Last
    <3> QED
      BY <2>2, <3>1, <3>3, StartIsDefined DEF Decodable
  <2> QED
    BY <1>f, <2>1, <2>2, <2>3, <2>4, FreedKept DEF Continues
<1>3. CASE EndFlow
  BY <1>3, <1>a, EndFlowEffect DEF EndFlow, Continues
<1>4. CASE BranchesDone
  BY <1>4, <1>a, BranchesDoneEffect DEF BranchesDone, Continues
<1>5. CASE SkipBranch
  BY <1>5, <1>a, SkipBranchEffect DEF SkipBranch, Continues
<1>6. CASE CallBranch
  <2>1. PICK g \in Frame : Continues(g) /\ Kept(g, {"branches", "phase", "deferred"})
    BY <1>6, CallBranchEffect, EnteringContinues DEF Continues
  <2> QED
    BY <1>6, <1>a, <2>1, CallBranchEffect DEF CallBranch
<1>7. CASE AfterCall
  BY <1>7, <1>a, AfterCallEffect DEF AfterCall, Continues
<1>8. CASE TailBranch
  <2>1. PICK g \in Frame : Replaced(g) /\ Kept(g, {"branches"})
    BY <1>8, TailBranchEffect
  <2>2. Top.phase = "branch" /\ stack # <<>> /\ locations' = locations
    BY <1>8, TailBranchEffect DEF TailBranch, Replaced
  <2>3. g.freed = {} /\ g.va = Top.va /\ g.insns = Top.insns
    BY <1>0, <2>1, <2>2 DEF FreedFrame
  <2>4. ~FreedBelow(Top.va)
    BY <1>0, <1>t, <2>2 DEF InsnFrame
  <2>5. \A w \in DOMAIN waits_on' : w = Top.va \/ (w \in DOMAIN waits_on /\ waits_on'[w] = waits_on[w])
    BY <1>8 DEF TailBranch, InsertInto
  <2> QED
    BY <1>f, <2>1, <2>2, <2>3, <2>4, <2>5, FreedKept DEF Continues
<1>9. CASE FlowBranch
  BY <1>9, <1>a, FlowBranchEffect DEF FlowBranch, Continues
<1>10. ASSUME NEW jt \in JumpTables, ResolveJumpTable(jt) PROVE FreedInv'
  BY <1>10, <1>a, ResolveJumpTableEffect DEF ResolveJumpTable, Continues
<1>11. CASE DrainDeferred
  <2>1. PICK g \in Frame : Continues(g) /\ Kept(g, {"todo"})
    BY <1>11, DrainDeferredEffect, EnteringContinues DEF Continues
  <2> QED
    BY <1>11, <1>a, <2>1, DrainDeferredEffect DEF DrainDeferred
<1>12. CASE StartBlocked
  BY <1>12, <1>a, StartBlockedEffect DEF StartBlocked, Continues
<1>13. CASE DrainBlocked
  <2>1. PICK g \in Frame : Continues(g) /\ Kept(g, {"todo", "still"})
    BY <1>13, DrainBlockedEffect, EnteringContinues DEF Continues
  <2> QED
    BY <1>13, <1>a, <2>1, DrainBlockedEffect DEF DrainBlocked
<1>b. ASSUME Popped, locations' = locations, waits_on' = waits_on PROVE FreedInv'
  <2>1. \A i \in DOMAIN stack' : i \in DOMAIN stack /\ stack'[i] = stack[i]
    BY <1>b DEF Popped, TypeInv
  <2> QED
    BY <1>b, <1>f, <2>1 DEF FreedInv, FreedFrame
<1>14. CASE FinishFlow
  <2>1. locations' = locations /\ waits_on' = waits_on /\ Top.phase = "blocked"
    BY <1>14, FinishFlowEffect DEF FinishFlow
  <2>2. CASE Popped
    BY <1>b, <2>1, <2>2
  <2>3. ASSUME NEW g \in Frame, Replaced(g), Kept(g, {"phase"}) PROVE FreedInv'
    BY <1>a, <2>1, <2>3 DEF Continues
  <2> QED
    BY <1>14, <2>2, <2>3, FinishFlowEffect
<1>15. CASE Report
  BY <1>15, <1>a, ReportEffect DEF Report, Continues
<1>16. CASE MakeLocalName
  <2>1. PICK g \in Frame : Continues(g) /\ Kept(g, {"names"})
    BY <1>16, MakeLocalNameEffect, EnteringContinues DEF Continues
  <2> QED
    BY <1>16, <1>a, <2>1, MakeLocalNameEffect DEF MakeLocalName
<1>17. CASE Release
  <2> DEFINE waiters == IF Top.va \in DOMAIN awaited_by THEN awaited_by[Top.va] ELSE {}
  <2>1. PICK g \in Frame : /\ Replaced(g) /\ Kept(g, {"phase", "freed"}) /\ g.phase = "freed"
                           /\ g.freed = {f \in waiters \cap DOMAIN waits_on : waits_on'[f] = {}}
    BY <1>17, ReleaseEffect
  <2>2. \A w \in g.freed : w \in DOMAIN waits_on /\ waits_on'[w] = {}
    BY <2>1
  <2>3. /\ DOMAIN waits_on' = DOMAIN waits_on
        /\ \A f \in DOMAIN waits_on : waits_on'[f] \subseteq waits_on[f]
    BY <1>17, ReleaseEffect
  <2>4. locations' = locations /\ DOMAIN waits_on \subseteq DOMAIN locations
    BY <1>17 DEF Release, WaitInv
  <2> QED
    BY <1>f, <2>1, <2>2, <2>3, <2>4, FreedKept DEF Continues
<1>18. CASE Return
  BY <1>18, <1>b, ReturnEffect DEF Return
<1>19. ASSUME NEW waiter \in Va, ReportFreed(waiter) PROVE FreedInv'
  <2>1. PICK g \in Frame : /\ Replaced(g) /\ Kept(g, {"freed", "names"})
                           /\ g.freed = Top.freed \ {waiter}
    BY <1>19, ReportFreedEffect
  <2>2. Top.phase = "freed" /\ stack # <<>> /\ locations' = locations
    BY <1>19, ReportFreedEffect DEF ReportFreed, Replaced
  <2>3. /\ DOMAIN waits_on' \subseteq DOMAIN waits_on
        /\ \A f \in DOMAIN waits_on' : waits_on'[f] = waits_on[f]
    BY <1>19 DEF ReportFreed, Without
  <2>4. \A w \in g.freed : w \in DOMAIN locations /\ (w \in DOMAIN waits_on => waits_on[w] = {})
    BY <1>0, <2>1, <2>2 DEF FreedFrame
  <2> QED
    BY <1>f, <2>1, <2>2, <2>3, <2>4, FreedKept DEF Continues
<1>20. ASSUME NEW va \in Seeds, MakeFunction(va) PROVE FreedInv'
  <2>1. \A i \in DOMAIN stack' : stack'[i] = NewFrame(va)
    BY <1>20, MakeFunctionEffect
  <2> QED
    BY <2>1 DEF FreedInv, FreedFrame, NewFrame
<1>21. CASE UNCHANGED vars
  BY <1>21, <1>f DEF vars, FreedInv, FreedFrame
<1> QED
  BY <1>1, <1>2, <1>3, <1>4, <1>5, <1>6, <1>7, <1>8, <1>9, <1>10, <1>11, <1>12, <1>13, <1>14,
     <1>15, <1>16, <1>17, <1>18, <1>19, <1>20, <1>21 DEF Next, Step

LEMMA WaitStep == TypeInv /\ InsnInv /\ WaitInv /\ [Next]_vars => WaitInv'
<1> SUFFICES ASSUME TypeInv, InsnInv, WaitInv, [Next]_vars PROVE WaitInv'
  OBVIOUS
<1>1. FreedInv'
  BY FreedStep
<1> USE DEF deferralVars, discoveryVars
<1>2. CASE TailBranch
  <2>1. PICK f \in Va, t \in Va :
           /\ f = Top.va /\ t = Branch.to
           /\ waits_on' = InsertInto(waits_on, f, t) /\ awaited_by' = InsertInto(awaited_by, t, f)
    BY <1>2, TailBranchEffect, CodeFlowAssumption DEF TailBranch, Followed, Frame
  <2>2. WaitsInverse'
    <3> SUFFICES ASSUME NEW a \in Va, NEW b \in Va
                 PROVE  (a \in DOMAIN waits_on' /\ b \in waits_on'[a]) <=>
                        (b \in DOMAIN awaited_by' /\ a \in awaited_by'[b])
      BY DEF WaitsInverse
    <3>1. (a \in DOMAIN waits_on' /\ b \in waits_on'[a]) <=>
          (a \in DOMAIN waits_on /\ b \in waits_on[a]) \/ (a = f /\ b = t)
      BY <2>1 DEF InsertInto
    <3>2. (b \in DOMAIN awaited_by' /\ a \in awaited_by'[b]) <=>
          (b \in DOMAIN awaited_by /\ a \in awaited_by[b]) \/ (a = f /\ b = t)
      BY <2>1 DEF InsertInto
    <3>3. (a \in DOMAIN waits_on /\ b \in waits_on[a]) <=>
          (b \in DOMAIN awaited_by /\ a \in awaited_by[b])
      BY DEF WaitInv, WaitsInverse
    <3> QED
      BY <3>1, <3>2, <3>3
  <2>3. Top.va \in DOMAIN locations
    <3>1. stack # <<>> /\ Top.phase = "branch"
      BY <1>2, TailBranchEffect DEF Replaced
    <3>2. Top = stack[Len(stack)] /\ Len(stack) \in DOMAIN stack
      BY <3>1, TopType DEF TypeInv
    <3> QED
      BY <3>1, <3>2 DEF InsnInv, InsnFrame
  <2>4. DOMAIN waits_on' = DOMAIN waits_on \cup {Top.va} /\ locations' = locations
    BY <1>2 DEF TailBranch, InsertInto
  <2> QED
    BY <1>1, <2>2, <2>3, <2>4 DEF WaitInv
<1>3. CASE Release
  <2>1. PICK va \in Va : va = Top.va
    BY <1>3, ReleaseEffect DEF Frame
  <2> DEFINE waiters == IF va \in DOMAIN awaited_by THEN awaited_by[va] ELSE {}
  <2>2. /\ DOMAIN waits_on' = DOMAIN waits_on
        /\ \A f \in DOMAIN waits_on :
               waits_on'[f] = IF f \in waiters THEN waits_on[f] \ {va} ELSE waits_on[f]
    BY <1>3, <2>1, ReleaseEffect
  <2>3. /\ DOMAIN awaited_by' = DOMAIN awaited_by \ {va}
        /\ \A g \in DOMAIN awaited_by' : awaited_by'[g] = awaited_by[g]
    BY <1>3, <2>1 DEF Release, Without
  <2>4. WaitsInverse'
    <3> SUFFICES ASSUME NEW a \in Va, NEW b \in Va
                 PROVE  (a \in DOMAIN waits_on' /\ b \in waits_on'[a]) <=>
                        (b \in DOMAIN awaited_by' /\ a \in awaited_by'[b])
      BY DEF WaitsInverse
    <3>1. (a \in DOMAIN waits_on /\ b \in waits_on[a]) <=>
          (b \in DOMAIN awaited_by /\ a \in awaited_by[b])
      BY DEF WaitInv, WaitsInverse
    <3>2. CASE b # va
      BY <2>2, <2>3, <3>1, <3>2
    <3>3. CASE b = va
      <4>1. ~(b \in DOMAIN awaited_by')
        BY <2>3, <3>3
      <4>2. ASSUME a \in DOMAIN waits_on', b \in waits_on'[a] PROVE FALSE
        <5>1. a \in DOMAIN waits_on /\ b \in waits_on[a]
          BY <2>2, <4>2
        <5>2. a \in waiters
          BY <3>1, <3>3, <5>1
        <5> QED
          BY <2>2, <3>3, <4>2, <5>1, <5>2
      <4> QED
        BY <4>1, <4>2
    <3> QED
      BY <3>2, <3>3
  <2>5. locations' = locations
    BY <1>3 DEF Release
  <2> QED
    BY <1>1, <2>2, <2>4, <2>5 DEF WaitInv
<1>4. ASSUME NEW waiter \in Va, ReportFreed(waiter) PROVE WaitInv'
  <2>1. /\ DOMAIN waits_on' = DOMAIN waits_on \ {waiter}
        /\ \A f \in DOMAIN waits_on' : waits_on'[f] = waits_on[f]
        /\ awaited_by' = awaited_by /\ locations' = locations
    BY <1>4 DEF ReportFreed, Without
  <2>2. waiter \in DOMAIN waits_on => waits_on[waiter] = {}
    <3>1. waiter \in Top.freed /\ stack # <<>>
      BY <1>4, ReportFreedEffect DEF Replaced
    <3>2. Top = stack[Len(stack)] /\ Len(stack) \in DOMAIN stack
      BY <3>1, TopType DEF TypeInv
    <3> QED
      BY <3>1, <3>2 DEF WaitInv, FreedInv, FreedFrame
  <2>3. WaitsInverse'
    <3> SUFFICES ASSUME NEW a \in Va, NEW b \in Va
                 PROVE  (a \in DOMAIN waits_on' /\ b \in waits_on'[a]) <=>
                        (b \in DOMAIN awaited_by' /\ a \in awaited_by'[b])
      BY DEF WaitsInverse
    <3>1. (a \in DOMAIN waits_on /\ b \in waits_on[a]) <=>
          (b \in DOMAIN awaited_by /\ a \in awaited_by[b])
      BY DEF WaitInv, WaitsInverse
    <3>2. (a \in DOMAIN waits_on' /\ b \in waits_on'[a]) <=> (a \in DOMAIN waits_on /\ b \in waits_on[a])
      BY <2>1, <2>2
    <3> QED
      BY <2>1, <3>1, <3>2
  <2> QED
    BY <1>1, <2>1, <2>3 DEF WaitInv
<1>5. CASE UNCHANGED <<waits_on, awaited_by>> /\ DOMAIN locations \subseteq DOMAIN locations'
  BY <1>1, <1>5 DEF WaitInv, WaitsInverse
<1>6. CASE DecodeOpcode
  <2>1. DOMAIN locations \subseteq DOMAIN locations'
    BY <1>6, DecodeOpcodeEffect
  <2> QED
    BY <1>5, <1>6, <2>1 DEF DecodeOpcode
<1>7. CASE UNCHANGED vars
  BY <1>5, <1>7 DEF vars
<1>8. ASSUME Next, ~TailBranch, ~Release, ~DecodeOpcode, ~\E w \in Va : ReportFreed(w)
      PROVE  UNCHANGED <<waits_on, awaited_by, locations>>
  BY <1>8 DEF Next, Step, MakeFunction, SkipAddress, EndFlow, BranchesDone, SkipBranch,
     CallBranch, AfterCall, FlowBranch, ResolveJumpTable, DrainDeferred, StartBlocked,
     DrainBlocked, FinishFlow, Report, MakeLocalName, Return
<1> QED
  BY <1>2, <1>3, <1>4, <1>5, <1>6, <1>7, <1>8

\* The deferral tables are inverse to each other in every state, whatever the
\* nesting of flows, releases and functions that FLIRT makes in between: every
\* wait is cleared by the report of what it waits for.
THEOREM DeferralTablesInverse == Spec => []WaitsInverse
<1>1. Init => InsnInv /\ WaitInv
  BY DEF Init, InsnInv, WaitInv, WaitsInverse, FreedInv, EmptyDb
<1>2. WaitInv => WaitsInverse
  BY DEF WaitInv
<1> QED
  BY <1>1, <1>2, CodeFlowTypes, InsnStep, WaitStep, PTL DEF Spec
===============================================================================
