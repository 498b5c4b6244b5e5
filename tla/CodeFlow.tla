------------------------------ MODULE CodeFlow ------------------------------
(***************************************************************************)
(* Function recovery: CodeFlowContext (viv/cf_context.cpp) with the        *)
(* callbacks Discovery installs in it (viv/discovery.cpp).                 *)
(*                                                                         *)
(* add_entry_point flows the code of one function and descends into every  *)
(* function that code calls before it goes on, so a native call stack of   *)
(* unfinished functions grows; reporting a function runs the FLIRT         *)
(* analyzer, which may make further functions from inside the report.  The *)
(* variable stack is that native stack: one frame per active               *)
(* add_entry_point, each with the phase it is in.  A call or a tail jump   *)
(* to a function that is still being flowed is deferred, and the deferral  *)
(* tables (waits_on, awaited_by, report_held, blocked_recursion) decide    *)
(* when such functions are reported.                                       *)
(*                                                                         *)
(* The image is the variable code, chosen once: what the reader decodes at *)
(* each address.  The jump-table resolver and the FLIRT matcher are        *)
(* oracles: the first may answer with any table of JumpTables, the second  *)
(* is the constant LocalNames, the local names of the module it matches at *)
(* each function.                                                          *)
(***************************************************************************)
EXTENDS CodeBlocks, SequencesExt

CONSTANTS
    Exec,           \* the executable addresses
    Programs,       \* the images: functions from Va to instructions or Bad
    JumpTables,     \* what the resolver may answer: [cases, data] records
    Seeds,          \* the addresses a pass may hand to make_function
    LocalNames,     \* LocalNames[f]: local-name targets FLIRT finds at f
    MaxDescent,     \* kMaxDescentDepth
    MaxFunctions,   \* kMaxFunctionsPerImage
    MaxInsns        \* kMaxInsnsPerFunction

\* What the reader decodes: the target is NoVa for an indirect branch, exits
\* tells a call of an import that does not return, directly or by its thunk.
Instruction == [kind : {"plain", "call", "jump", "cond", "ret"}, len : Nat \ {0},
                to : Nat \cup {NoVa}, exits : BOOLEAN]

ASSUME CodeFlowAssumption ==
    /\ Exec \subseteq Va /\ Seeds \subseteq Va
    /\ Bad \notin Instruction
    /\ Programs \subseteq [Va -> Instruction \cup {Bad}]
    /\ \A jt \in JumpTables : jt.cases \in Seq(Nat)
    /\ LocalNames \in [Va -> Seq(Va)]
    /\ {MaxDescent, MaxFunctions, MaxInsns} \subseteq Nat \ {0}

\* MaxVa is chosen so that Va holds every address the image names: targets,
\* cases, the end of an instruction, and the end of a block that was entered
\* in the middle of one.
ASSUME ImageAssumption ==
    /\ \A p \in Programs : \A va \in {v \in Va : p[v] # Bad} :
          /\ p[va].to \in Va \cup {NoVa}
          /\ \A w \in va .. (va + p[va].len - 1) :
                w = va \/ (w \in Va /\ p[w] # Bad) => w + p[va].len \in Va
    /\ \A jt \in JumpTables : jt.cases \in Seq(Va)

VARIABLES
    code,               \* the image under analysis
    stack,              \* active add_entry_point calls, innermost last
    cf_blocks,          \* the functions being flowed, the active path
    functions,          \* functions_, the duplicate guard
    reported,           \* on_function has fired
    waits_on,           \* waits_on_: function -> ancestors it jumped into
    awaited_by,         \* awaited_by_: the inverse
    report_held,        \* reports stashed until a wait clears
    blocked_recursion,  \* deferred recursion targets, in order
    noflow,             \* suppressed <<from, to>> edges
    locations, xrefs,   \* Discovery's databases
    analyzed,           \* Discovery: on_function already ran
    entries,            \* Discovery: function_entries_
    blocks,             \* Discovery: blocks_.by_function_
    no_return           \* Discovery: no_return_functions_

deferralVars  == <<reported, waits_on, awaited_by, report_held>>
discoveryVars == <<locations, xrefs, analyzed, entries, blocks, no_return>>
vars == <<code, stack, cf_blocks, functions, deferralVars, blocked_recursion,
          noflow, discoveryVars>>

Init ==
    /\ code \in Programs
    /\ stack = <<>>
    /\ cf_blocks = <<>>
    /\ functions = {}
    /\ reported = {}
    /\ waits_on = EmptyDb
    /\ awaited_by = EmptyDb
    /\ report_held = {}
    /\ blocked_recursion = <<>>
    /\ noflow = {}
    /\ locations = EmptyDb
    /\ xrefs = EmptyDb
    /\ analyzed = {}
    /\ entries = <<>>
    /\ blocks = EmptyDb
    /\ no_return = {}

-----------------------------------------------------------------------------
(***************************************************************************)
(* Helpers of cf_context.cpp                                               *)
(***************************************************************************)

\* get_branches: fall-through first, branch target last.
GetBranches(va) ==
    LET op   == code[va]
        cond == {f \in {"cond"} : op.kind = "cond"}
        fall == IF IsFallthrough(op)
                THEN <<[to |-> va + op.len, flags |-> cond \cup {"fall"}]>> ELSE <<>>
        far  == CASE op.kind = "call" /\ op.to # NoVa -> <<[to |-> op.to, flags |-> {"proc"}]>>
                  [] IsJump(op) /\ op.to # NoVa       -> <<[to |-> op.to, flags |-> cond]>>
                  [] IsJump(op) /\ op.to = NoVa       -> <<[to |-> NoVa, flags |-> cond \cup {"deref"}]>>
                  [] OTHER                            -> <<>>
    IN  fall \o far

PushUnique(list, va) == IF Contains(list, va) THEN list ELSE Append(list, va)

OnActivePath(va) == Contains(cf_blocks, va)

\* The adjacency maps: insert v in the set m[k], creating it if need be.
InsertInto(m, k, v) ==
    [j \in DOMAIN m \cup {k} |->
        IF j # k THEN m[j] ELSE IF k \in DOMAIN m THEN m[k] \cup {v} ELSE {v}]

Without(m, keys) == [k \in DOMAIN m \ keys |-> m[k]]

Top == Last(stack)

Become(frame) == [stack EXCEPT ![Len(stack)] = frame]

InPhase(phase) == stack # <<>> /\ Top.phase = phase

\* A frame of add_entry_point(va) about to flow va.
NewFrame(va) ==
    [va |-> va, phase |-> "flow", cur |-> va, optodo |-> <<va>>, visited |-> {},
     insns |-> {}, data |-> {}, branches |-> <<>>, deferred |-> <<>>,
     todo |-> <<>>, still |-> <<>>, freed |-> {}, names |-> <<>>]

\* The guards of add_entry_point, given the functions known before the call.
MayEnter(va, known) == Cardinality(known) < MaxFunctions /\ va \notin known

\* add_entry_point(va), called with the native stack `below`: the frame is
\* pushed and va joins the active path, or the call returns at once.
AddEntryPoint(va, known, below) ==
    IF MayEnter(va, known)
    THEN /\ stack' = Append(below, NewFrame(va))
         /\ functions' = known \cup {va}
         /\ cf_blocks' = Append(cf_blocks, va)
    ELSE /\ stack' = below
         /\ functions' = known
         /\ UNCHANGED cf_blocks

\* Discovery::is_no_return_call
IsNoReturnCall(va) ==
    /\ code[va].kind = "call"
    /\ code[va].exits \/ code[va].to \in no_return

-----------------------------------------------------------------------------
(***************************************************************************)
(* add_code_flow: the worklist                                             *)
(***************************************************************************)

\* A pass hands Discovery::make_function an address.
MakeFunction(va) ==
    /\ stack = <<>>
    /\ MayEnter(va, functions)
    /\ AddEntryPoint(va, functions, <<>>)
    /\ UNCHANGED <<code, deferralVars, blocked_recursion, noflow, discoveryVars>>

Flowing == InPhase("flow") /\ Top.optodo # <<>> /\ Cardinality(Top.insns) < MaxInsns

\* The address on top of the worklist yields no instruction on this flow:
\* visited, claimed by another flow, table data, or undecodable.
Decodable(f, va) ==
    /\ va \notin f.visited
    /\ ~Defined(locations, va)
    /\ va \notin f.data
    /\ code[va] # Bad

\* Mutant of SkipAddress: the address stays on the worklist.
SkipWithoutPop ==
    /\ Flowing
    /\ ~Decodable(Top, Last(Top.optodo))
    /\ stack' = Become([Top EXCEPT !.visited = @ \cup {Last(Top.optodo)}])
    /\ UNCHANGED <<code, cf_blocks, functions, deferralVars, blocked_recursion, noflow,
                   discoveryVars>>

SkipAddress ==
    /\ Flowing
    /\ ~Decodable(Top, Last(Top.optodo))
    /\ stack' = Become([Top EXCEPT !.optodo = Front(@),
                                   !.visited = @ \cup {Last(Top.optodo)}])
    /\ UNCHANGED <<code, cf_blocks, functions, deferralVars, blocked_recursion, noflow,
                   discoveryVars>>

\* Decode and hand the instruction to Discovery::on_opcode, which defines its
\* location and records its edges except the fall-through.
DecodeOpcode ==
    LET va  == Last(Top.optodo)
        brs == GetBranches(va)
        far == {b \in ToSet(brs) : b.to # NoVa /\ "fall" \notin b.flags}
    IN  /\ Flowing
        /\ Decodable(Top, va)
        /\ stack' = Become([Top EXCEPT !.optodo = Front(@),
                                       !.visited = @ \cup {va},
                                       !.insns = @ \cup {va},
                                       !.cur = va,
                                       !.branches = brs,
                                       !.phase = "branch"])
        /\ locations' = AddLocation(locations, va, code[va].len, "op")
        /\ xrefs' = AddCodeXrefs(xrefs, va, far)
        /\ UNCHANGED <<code, cf_blocks, functions, deferralVars, blocked_recursion, noflow,
                       analyzed, entries, blocks, no_return>>

\* The worklist is empty or the per-function cap is reached.
EndFlow ==
    /\ InPhase("flow")
    /\ ~Flowing
    /\ cf_blocks' = Front(cf_blocks)
    /\ stack' = Become([Top EXCEPT !.phase = "drain", !.todo = Top.deferred])
    /\ UNCHANGED <<code, functions, deferralVars, blocked_recursion, noflow, discoveryVars>>

-----------------------------------------------------------------------------
(***************************************************************************)
(* add_code_flow: the branches of one instruction, the last one first      *)
(***************************************************************************)

Branch == Last(Top.branches)

NextVa == Top.cur + code[Top.cur].len

\* Mutant of Consumed: handling one branch drops the others.
ConsumedAll == [Top EXCEPT !.branches = <<>>]

Consumed == [Top EXCEPT !.branches = Front(@)]

Branching == InPhase("branch") /\ Top.branches # <<>>

Followed == /\ Branching
            /\ Branch.to # NoVa
            /\ Branch.to \in Exec
            /\ <<Top.cur, Branch.to>> \notin noflow

BranchesDone ==
    /\ InPhase("branch")
    /\ Top.branches = <<>>
    /\ stack' = Become([Top EXCEPT !.phase = "flow"])
    /\ UNCHANGED <<code, cf_blocks, functions, deferralVars, blocked_recursion, noflow,
                   discoveryVars>>

\* Not executable, suppressed, or an indirect branch nothing resolves.
SkipBranch ==
    /\ Branching
    /\ ~Followed
    /\ stack' = Become(Consumed)
    /\ UNCHANGED <<code, cf_blocks, functions, deferralVars, blocked_recursion, noflow,
                   discoveryVars>>

\* The cases of a resolved table, as branches still to be handled.
CaseBranches(jt) ==
    [i \in DOMAIN jt.cases |-> [to |-> jt.cases[i], flags |-> {"cond"}]]

\* The resolver reads an indirect, unconditional jump as a switch dispatch:
\* every case becomes a pending branch and an edge, the table becomes data.
ResolveJumpTable(jt) ==
    /\ Branching
    /\ Branch.to = NoVa
    /\ code[Top.cur].kind = "jump"
    /\ stack' = Become([Consumed EXCEPT !.branches = @ \o CaseBranches(jt),
                                        !.data = @ \cup jt.data])
    /\ xrefs' = AddCodeXrefs(xrefs, Top.cur, ToSet(CaseBranches(jt)))
    /\ UNCHANGED <<code, cf_blocks, functions, deferralVars, blocked_recursion, noflow,
                   locations, analyzed, entries, blocks, no_return>>

\* A call: descend into the callee, defer it when it is on the active path,
\* abandon it past the descent cap.  A call to the next instruction is none.
CallBranch ==
    LET bva  == Branch.to
        back == [Consumed EXCEPT !.phase = IF bva = NextVa THEN "branch" ELSE "called"]
    IN  /\ Followed
        /\ "proc" \in Branch.flags
        /\ IF bva = NextVa \/ (~OnActivePath(bva) /\ Len(cf_blocks) >= MaxDescent)
           THEN stack' = Become(back) /\ UNCHANGED <<cf_blocks, functions>>
           ELSE IF OnActivePath(bva)
           THEN /\ stack' = Become([back EXCEPT !.deferred = PushUnique(@, bva)])
                /\ UNCHANGED <<cf_blocks, functions>>
           ELSE AddEntryPoint(bva, functions, Become(back))
        /\ UNCHANGED <<code, deferralVars, blocked_recursion, noflow, discoveryVars>>

\* Mutant of AfterCall: the verdict on the callee is never asked for.
AfterCallIgnoringNoReturn ==
    /\ InPhase("called")
    /\ stack' = Become([Top EXCEPT !.phase = "branch"])
    /\ UNCHANGED <<code, cf_blocks, functions, deferralVars, blocked_recursion, noflow,
                   discoveryVars>>

\* Back from the callee: its fall-through is suppressed if it does not return.
AfterCall ==
    /\ InPhase("called")
    /\ noflow' = noflow \cup {e \in {<<Top.cur, NextVa>>} : IsNoReturnCall(Top.cur)}
    /\ stack' = Become([Top EXCEPT !.phase = "branch"])
    /\ UNCHANGED <<code, cf_blocks, functions, deferralVars, blocked_recursion, discoveryVars>>

TailJump(bva) == OnActivePath(bva) /\ IsJump(code[Top.cur]) /\ Top.va # bva

\* Mutant of TailBranch: the inverse index is not kept.
TailBranchOneWay ==
    /\ Followed
    /\ "proc" \notin Branch.flags
    /\ TailJump(Branch.to)
    /\ waits_on' = InsertInto(waits_on, Top.va, Branch.to)
    /\ stack' = Become(Consumed)
    /\ UNCHANGED <<code, cf_blocks, functions, reported, awaited_by, report_held,
                   blocked_recursion, noflow, discoveryVars>>

\* A jump into a function still being flowed: this function waits for it.
TailBranch ==
    /\ Followed
    /\ "proc" \notin Branch.flags
    /\ TailJump(Branch.to)
    /\ waits_on' = InsertInto(waits_on, Top.va, Branch.to)
    /\ awaited_by' = InsertInto(awaited_by, Branch.to, Top.va)
    /\ stack' = Become(Consumed)
    /\ UNCHANGED <<code, cf_blocks, functions, reported, report_held, blocked_recursion,
                   noflow, discoveryVars>>

\* Any other branch is flowed into, unless this flow already went there.
FlowBranch ==
    /\ Followed
    /\ "proc" \notin Branch.flags
    /\ ~TailJump(Branch.to)
    /\ stack' = Become([Consumed EXCEPT
                    !.optodo = IF Branch.to \in Top.visited THEN @ ELSE Append(@, Branch.to)])
    /\ UNCHANGED <<code, cf_blocks, functions, deferralVars, blocked_recursion, noflow,
                   discoveryVars>>

-----------------------------------------------------------------------------
(***************************************************************************)
(* add_code_flow: draining the deferred calls, then the end of             *)
(* add_entry_point                                                         *)
(***************************************************************************)

Draining(phase) == InPhase(phase) /\ Top.todo # <<>>

\* This flow's deferred targets: still active ones are handed to the blocked
\* list, unreported ones are entered.
DrainDeferred ==
    LET fva  == Head(Top.todo)
        rest == [Top EXCEPT !.todo = Tail(@)]
    IN  /\ Draining("drain")
        /\ IF OnActivePath(fva) \/ fva \in reported
           THEN stack' = Become(rest) /\ UNCHANGED <<cf_blocks, functions>>
           ELSE AddEntryPoint(fva, functions, Become(rest))
        /\ blocked_recursion' = IF OnActivePath(fva) THEN PushUnique(blocked_recursion, fva)
                                                     ELSE blocked_recursion
        /\ UNCHANGED <<code, deferralVars, noflow, discoveryVars>>

StartBlocked ==
    /\ InPhase("drain")
    /\ Top.todo = <<>>
    /\ stack' = Become([Top EXCEPT !.phase = "blocked", !.todo = blocked_recursion])
    /\ UNCHANGED <<code, cf_blocks, functions, deferralVars, blocked_recursion, noflow,
                   discoveryVars>>

Unblocked(fva) == ~OnActivePath(fva) /\ fva \notin reported

\* Mutant of DrainBlocked: the entered function stays on the blocked list.
DrainBlockedKeeping ==
    LET fva  == Head(Top.todo)
        rest == [Top EXCEPT !.todo = Tail(@)]
    IN  /\ Draining("blocked")
        /\ IF Unblocked(fva)
           THEN /\ AddEntryPoint(fva, functions \ {fva}, Become(rest))
                /\ UNCHANGED blocked_recursion
           ELSE /\ stack' = Become([rest EXCEPT !.still = Append(@, fva)])
                /\ UNCHANGED <<cf_blocks, functions, blocked_recursion>>
        /\ UNCHANGED <<code, deferralVars, noflow, discoveryVars>>

\* Mutant of DrainBlocked: the function is forgotten but not entered again.
DrainBlockedForgetting ==
    LET fva  == Head(Top.todo)
        rest == [Top EXCEPT !.todo = Tail(@)]
    IN  /\ Draining("blocked")
        /\ functions' = IF Unblocked(fva) THEN functions \ {fva} ELSE functions
        /\ stack' = Become([rest EXCEPT !.still = IF Unblocked(fva) THEN @ ELSE Append(@, fva)])
        /\ UNCHANGED <<code, cf_blocks, blocked_recursion, deferralVars, noflow, discoveryVars>>

\* The snapshot of the blocked list: a function that left the active path
\* unreported is forgotten and entered again, the others stay blocked.
DrainBlocked ==
    LET fva  == Head(Top.todo)
        rest == [Top EXCEPT !.todo = Tail(@)]
    IN  /\ Draining("blocked")
        /\ IF Unblocked(fva)
           THEN /\ AddEntryPoint(fva, functions \ {fva}, Become(rest))
                /\ blocked_recursion' = RemoveFirst(blocked_recursion, fva)
           ELSE /\ stack' = Become([rest EXCEPT !.still = Append(@, fva)])
                /\ UNCHANGED <<cf_blocks, functions, blocked_recursion>>
        /\ UNCHANGED <<code, deferralVars, noflow, discoveryVars>>

\* Mutant of FinishFlow: a report that has to wait is dropped.
FinishFlowDropping ==
    /\ InPhase("blocked")
    /\ Top.todo = <<>>
    /\ blocked_recursion' = Top.still
    /\ stack' = IF Top.va \in DOMAIN waits_on
                THEN Front(stack) ELSE Become([Top EXCEPT !.phase = "report"])
    /\ UNCHANGED <<code, cf_blocks, functions, deferralVars, noflow, discoveryVars>>

\* blocked_recursion_ = still_blocked, and add_code_flow returns: the report
\* is made now, or held while this function waits on an ancestor.
FinishFlow ==
    /\ InPhase("blocked")
    /\ Top.todo = <<>>
    /\ blocked_recursion' = Top.still
    /\ IF Top.va \in DOMAIN waits_on
       THEN stack' = Front(stack) /\ report_held' = report_held \cup {Top.va}
       ELSE stack' = Become([Top EXCEPT !.phase = "report"]) /\ UNCHANGED report_held
    /\ UNCHANGED <<code, cf_blocks, functions, reported, waits_on, awaited_by, noflow,
                   discoveryVars>>

-----------------------------------------------------------------------------
(***************************************************************************)
(* report_function, with Discovery::on_function                            *)
(***************************************************************************)

\* The analyzed_ guard: a repeated report is ignored.
FirstReport(va) == va \notin analyzed

\* codeblocks, then noret; then the FLIRT analyzer's local names are left to
\* the frame to make.
OnFunction(va, frame) ==
    IF FirstReport(va)
    THEN LET found == AnalyzeFunction(code, locations, xrefs, va)
             calls == {c \in Exec : code[c] # Bad /\ IsNoReturnCall(c)}
         IN  /\ analyzed' = analyzed \cup {va}
             /\ entries' = Append(entries, va)
             /\ blocks' = [f \in DOMAIN blocks \cup {va} |-> IF f = va THEN found ELSE blocks[f]]
             /\ no_return' = no_return \cup
                    {f \in {va} : FunctionIsNoReturn(code, xrefs, found, calls)}
             /\ stack' = Become([frame EXCEPT !.names = LocalNames[va]])
    ELSE stack' = Become(frame) /\ UNCHANGED <<analyzed, entries, blocks, no_return>>

Report ==
    /\ InPhase("report")
    /\ reported' = reported \cup {Top.va}
    /\ OnFunction(Top.va, [Top EXCEPT !.phase = "release"])
    /\ UNCHANGED <<code, cf_blocks, functions, waits_on, awaited_by, report_held,
                   blocked_recursion, noflow, locations, xrefs>>

\* FlirtDiscoveryAnalyzer::apply_names: a local name at an address that is
\* executable, undefined and no function yet makes a function of it, from
\* inside the report.
MakeLocalName ==
    LET target == Head(Top.names)
        rest   == [Top EXCEPT !.names = Tail(@)]
    IN  /\ stack # <<>>
        /\ Top.names # <<>>
        /\ IF target \notin analyzed /\ target \in Exec /\ ~Defined(locations, target)
           THEN AddEntryPoint(target, functions, Become(rest))
           ELSE stack' = Become(rest) /\ UNCHANGED <<cf_blocks, functions>>
        /\ UNCHANGED <<code, deferralVars, blocked_recursion, noflow, discoveryVars>>

Named(phase) == InPhase(phase) /\ Top.names = <<>>

\* va is done: it is struck off the waits of everyone awaiting it, and those
\* left without a wait are freed.
Release ==
    LET waiters == IF Top.va \in DOMAIN awaited_by THEN awaited_by[Top.va] ELSE {}
        struck  == [f \in DOMAIN waits_on |->
                        IF f \in waiters THEN waits_on[f] \ {Top.va} ELSE waits_on[f]]
    IN  /\ Named("release")
        /\ waits_on' = struck
        /\ awaited_by' = Without(awaited_by, {Top.va})
        /\ stack' = Become([Top EXCEPT
               !.phase = "freed",
               !.freed = {f \in waiters \cap DOMAIN struck : struck[f] = {}}])
        /\ UNCHANGED <<code, cf_blocks, functions, reported, report_held, blocked_recursion,
                       noflow, discoveryVars>>

\* A freed function is reported directly, in the order of a hash set; the
\* functions that wait on it are not looked at.
ReportFreed(waiter) ==
    /\ Named("freed")
    /\ waiter \in Top.freed
    /\ waits_on' = Without(waits_on, {waiter})
    /\ report_held' = report_held \ {waiter}
    /\ reported' = reported \cup {waiter}
    /\ OnFunction(waiter, [Top EXCEPT !.freed = @ \ {waiter}])
    /\ UNCHANGED <<code, cf_blocks, functions, awaited_by, blocked_recursion, noflow,
                   locations, xrefs>>

Return ==
    /\ Named("freed")
    /\ Top.freed = {}
    /\ stack' = Front(stack)
    /\ UNCHANGED <<code, cf_blocks, functions, deferralVars, blocked_recursion, noflow,
                   discoveryVars>>

-----------------------------------------------------------------------------
\* One step of the analysis in progress.
Step ==
    \/ SkipAddress \/ DecodeOpcode \/ EndFlow
    \/ BranchesDone \/ SkipBranch \/ CallBranch \/ AfterCall \/ TailBranch \/ FlowBranch
    \/ \E jt \in JumpTables : ResolveJumpTable(jt)
    \/ DrainDeferred \/ StartBlocked \/ DrainBlocked \/ FinishFlow
    \/ Report \/ MakeLocalName \/ Release \/ Return
    \/ \E waiter \in Va : ReportFreed(waiter)

Next == Step \/ \E va \in Seeds : MakeFunction(va)

Spec == Init /\ [][Next]_vars

\* The analysis is one thread that never waits: a call in progress goes on.
FairSpec == Spec /\ WF_vars(Step)

-----------------------------------------------------------------------------
(***************************************************************************)
(* Properties                                                              *)
(***************************************************************************)

Idle == stack = <<>>

\* A function is reported to Discovery more than once (a recursion target is
\* entered again while its own call is still unwinding), yet it is analysed
\* once: the list of recovered functions names each one once.
EntriesUnique == IsInjective(entries)

\* The two deferral tables are inverse to each other outside a release: a
\* wait nobody would clear, or a clearance nobody waits for, never exists.
WaitsInverse ==
    \A f, g \in Va :
        (f \in DOMAIN waits_on /\ g \in waits_on[f]) <=>
        (g \in DOMAIN awaited_by /\ f \in awaited_by[g])

\* When a make_function call has returned, every function it entered has been
\* reported or is held, and a held function is still waiting.
EveryFunctionSettled ==
    Idle =>
        /\ functions \subseteq reported \cup report_held
        /\ reported = analyzed
        /\ report_held \subseteq DOMAIN waits_on

Followable(va, to) == to \in Exec /\ code[to] # Bad /\ <<va, to>> \notin noflow

\* Where flow leads from a decoded instruction, suppressed edges left out.
FlowsTo(va) ==
    {n \in FlowTargets(xrefs, va) : Followable(va, n)} \cup
    {n \in {va + code[va].len} : IsFallthrough(code[va]) /\ Followable(va, n)}

TableData == UNION {jt.data : jt \in JumpTables}

\* When a make_function call has returned, no code that flow leads to was
\* missed: every followable edge of a decoded instruction ends at a defined
\* address or in a table, although jumps into unfinished functions were not
\* followed and calls were deferred, blocked and entered again on the way.
FlowClosed ==
    Idle =>
        \A va \in DOMAIN locations : \A n \in FlowsTo(va) :
            Defined(locations, n) \/ n \in TableData

\* ... and every function a decoded call names was entered.
CallsEntered ==
    Idle =>
        \A va \in DOMAIN locations :
            /\ code[va].kind = "call"
            /\ code[va].to \in Exec \ {va + code[va].len}
            => code[va].to \in functions

\* No instruction was decoded, and no edge leads, inside a decoded one.
Aligned ==
    \A v \in DOMAIN locations :
        \A w \in DOMAIN locations \cup {e[2] : e \in DOMAIN xrefs} :
            v < w => v + locations[v].size <= w

\* The recovered blocks neither overlap nor get lost.  Unless instructions
\* overlap, the blocks of one function do not, but for the block at its entry:
\* flow may run into an entry that no edge leads to, and is not split there.
\* And the registration loop of analyze_function, which stops at the last
\* marker without registering it, never drops a block that has bytes.
BlocksTile ==
    /\ Aligned =>
           \A f \in DOMAIN blocks : \A b, c \in {d \in blocks[f] : d.va # f} :
               b # c => b.va + b.size <= c.va \/ c.va + c.size <= b.va
    /\ InPhase("report") =>
           LET walk   == BlockWalk(code, locations, xrefs)
               starts == BlockStarts(walk, Top.va)
           IN  Registered(walk, starts) = {s \in starts : BlockSize(walk, s) # 0}

\* The nesting of add_entry_point, that is the native stack, stays within one
\* of the descent cap: entering deferred and blocked functions again, which is
\* not checked against the cap, never stacks up.  (LocalNames is empty here:
\* the functions FLIRT makes from inside a report nest without a cap.)
NativeDepthBounded == Len(stack) <= MaxDescent + 1

\* A call of make_function always returns, although the blocked list lets a
\* function be forgotten and entered again.
Returns == ~Idle ~> Idle

-----------------------------------------------------------------------------
(***************************************************************************)
(* No-return calls.  The address after one is decoded only when something  *)
(* other than such a call leads there.                                     *)
(***************************************************************************)

FallsInto(va, next) == IsFallthrough(code[va]) /\ va + code[va].len = next

\* Calls of the thunk of a no-return import.
ThunkExits ==
    {c \in DOMAIN locations :
        code[c].kind = "call" /\ code[c].exits /\ code[c].to \in Exec \ {c + code[c].len}}

\* After a direct call of a no-return import's thunk, no phantom block is
\* decoded, whether the thunk was entered, deferred or abandoned at the cap:
\* what is decoded there is a function, the target of an edge, or reached by
\* another instruction that falls through to it.
DirectExitSuppressed ==
    Idle => \A c \in ThunkExits :
                LET next == c + code[c].len
                IN  next \in DOMAIN locations =>
                        \/ next \in functions
                        \/ HasCodeXrefTo(xrefs, next)
                        \/ \E v \in DOMAIN locations \ ThunkExits : FallsInto(v, next)
=============================================================================
