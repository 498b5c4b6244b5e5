------------------------- MODULE WorkspaceEmulator -------------------------
(***************************************************************************)
(* The run loop of the discovery emulator (emu/workspace_emulator.cpp,     *)
(* WorkspaceEmulator::run_function) with its three monitors: the Watcher   *)
(* that judges whether a candidate address looks like a function           *)
(* (emu/watcher.cpp), the AnalysisMonitor that collects call targets and   *)
(* RegAtTarget, which stops at an address (emu/emu_discovery.cpp).         *)
(*                                                                         *)
(* A path is an address and a snapshot of registers and memory taken when  *)
(* it was queued.  What an instruction computes is abstracted (module      *)
(* IntelEmulator has it): a snapshot is the set of store instructions      *)
(* whose bytes the overlay holds, one entry each.  A program is a function *)
(* from mapped addresses to instructions; an instruction that cannot be    *)
(* decoded is Bad.                                                         *)
(***************************************************************************)
EXTENDS Naturals, Sequences, FiniteSets, SequencesExt, FiniteSetsExt

CONSTANTS Bad,            \* no instruction decodes here
          Programs,       \* the programs to emulate
          Entry,          \* funcva
          Target,         \* target_va of emulate_to_read_register
          Exec,           \* addresses in executable maps
          MaxHit,         \* visits per address, 1 in every caller
          MaxEmuSteps,    \* kMaxEmuSteps
          MaxTodoQueue,   \* kMaxTodoQueue
          MaxQueuedOverlay \* kMaxQueuedOverlayEntries

ASSUME EmuAssumption ==
    /\ MaxHit \in Nat \ {0} /\ MaxEmuSteps \in Nat
    /\ MaxTodoQueue \in Nat \ {0} /\ MaxQueuedOverlay \in Nat

\* Addresses are naturals, a jump has a target and a jump table a list of them.
ASSUME ProgramAssumption ==
    /\ Entry \in Nat
    /\ \A p \in Programs :
           /\ DOMAIN p \subseteq Nat
           /\ \A va \in DOMAIN p : p[va] # Bad =>
                  /\ p[va].len \in Nat
                  /\ p[va].kind \in {"jcc", "jmp", "table", "call"} => p[va].to \in Nat
                  /\ p[va].kind = "table" => p[va].entries \in Seq(Nat)

VARIABLES prog,      \* the mapped code
          monitor,   \* "watcher", "analysis" or "target"
          phase,     \* "pop", "run" or "done"
          todo,      \* the queued paths, the last one is taken next
          queued,    \* queued_overlay
          hits,      \* visits per address
          steps,     \* instructions executed
          pc,        \* program counter
          overlay,   \* the current memory overlay
          stop,      \* emustop_
          watch,     \* what the Watcher recorded
          seeds,     \* AnalysisMonitor::seeds_
          trace,     \* history: the stores executed on the current path
          dropped    \* history: a path was refused or the step cap was met

vars == <<prog, monitor, phase, todo, queued, hits, steps, pc, overlay, stop, watch,
          seeds, trace, dropped>>

Mapped == DOMAIN prog
Insn == prog[pc]
Next1(va) == va + prog[va].len

\* get_branches: the fall-through, the target of a jump or a call, and for a jump
\* through a table its entries in place of a target, as long as they are valid
\* pointers.
TableRun(ts) ==
    LET bad == {k \in DOMAIN ts : ts[k] \notin Mapped}
    IN  IF bad = {} THEN ts ELSE SubSeq(ts, 1, Min(bad) - 1)

Branches(va) ==
    LET i == prog[va]
    IN  CASE i.kind = "jcc" -> <<Next1(va), i.to>>
          [] i.kind = "jmp" -> <<i.to>>
          [] i.kind = "table" -> TableRun(i.entries)
          [] i.kind = "call" -> <<Next1(va), i.to>>
          [] i.kind = "ret" -> <<>>
          [] OTHER -> <<Next1(va)>>

\* check_branches: when there is more than one branch, the distinct targets in the
\* order of their first occurrence.
FirstAt(s) == {k \in DOMAIN s : \A j \in 1..(k - 1) : s[j] # s[k]}
Nth(S, i) == CHOOSE k \in S : Cardinality({j \in S : j =< k}) = i
Distinct(s) == [i \in 1..Cardinality(FirstAt(s)) |-> s[Nth(FirstAt(s), i)]]

\* Mutant: the last of several targets is taken for the way on and not queued.
CheckBranchesButLast(va) ==
    IF Len(Branches(va)) =< 1 THEN <<>> ELSE Front(Distinct(Branches(va)))

CheckBranches(va) ==
    IF Len(Branches(va)) =< 1 THEN <<>> ELSE Distinct(Branches(va))

\* push_path for each address in turn; the first refusal ends the queueing.  All
\* paths share one snapshot, so the k-th push is admitted by a bound on k alone.
Admits(q, cost, snap, k) ==
    /\ Len(q) + k =< MaxTodoQueue
    /\ cost + k * Cardinality(snap.overlay) =< MaxQueuedOverlay

PushPaths(q, cost, vas, snap) ==
    LET n == Cardinality({k \in DOMAIN vas : Admits(q, cost, snap, k)})
    IN  [todo |-> q \o [k \in 1..n |-> [va |-> vas[k], overlay |-> snap.overlay,
                                       trace |-> snap.trace]],
         queued |-> cost + n * Cardinality(snap.overlay),
         full |-> n # Len(vas)]

Snap == [overlay |-> overlay, trace |-> trace]

-----------------------------------------------------------------------------
(* Monitors.                                                               *)

NoWatch == [hasret |-> FALSE, badcode |-> FALSE, count |-> 0, dist |-> <<>>]

\* Mutant: an opcode is noted once instead of counted.
RecordOnce(w, mn) ==
    [w EXCEPT !.count = @ + 1, !.dist = [x \in DOMAIN @ \cup {mn} |-> 1]]

Tally(dist, mn) ==
    [x \in DOMAIN dist \cup {mn} |->
        (IF x \in DOMAIN dist THEN dist[x] ELSE 0) + (IF x = mn THEN 1 ELSE 0)]
Record(w, mn) == [w EXCEPT !.count = @ + 1, !.dist = Tally(@, mn)]

\* Watcher::prehook: an out or an all-zero opcode stops without being counted, the
\* exit interrupt stops and is counted, a return stops the run as a success.
Prehook(w, i) ==
    CASE i.kind \in {"out", "badop"} -> [w |-> w, stop |-> TRUE]
      [] i.kind = "exit" -> [w |-> Record(w, i.mn), stop |-> TRUE]
      [] i.kind = "ret" -> [w |-> [Record(w, i.mn) EXCEPT !.hasret = TRUE], stop |-> TRUE]
      [] OTHER -> [w |-> Record(w, i.mn), stop |-> FALSE]

\* round(count / total, 3) >= 0.67: the rounding is to the nearest thousandth.
RatioAtLeast(count, total, permille) ==
    total # 0 /\ (2000 * count + total) \div (2 * total) >= permille

LooksGood ==
    /\ watch.hasret /\ ~watch.badcode
    /\ watch.count > 4 =>
           \A mn \in DOMAIN watch.dist : ~RatioAtLeast(watch.dist[mn], watch.count, 670)

\* AnalysisMonitor::apicall: neither a self call nor a call of the next address,
\* and only of executable memory.
Apicall(s, va, to) ==
    IF to = Entry \/ to = Next1(va) \/ to \notin Exec THEN s ELSE s \cup {to}

-----------------------------------------------------------------------------
(* run_function.                                                           *)

Init ==
    /\ prog \in Programs /\ monitor \in {"watcher", "analysis", "target"}
    /\ phase = "pop"
    /\ LET first == PushPaths(<<>>, 0, <<Entry>>, [overlay |-> {}, trace |-> {}])
       IN  todo = first.todo /\ queued = first.queued
    /\ hits = [va \in {} |-> 0]
    /\ steps = 0 /\ pc = Entry /\ overlay = {} /\ stop = FALSE
    /\ watch = NoWatch /\ seeds = {} /\ trace = {} /\ dropped = FALSE

\* Mutant: the memory of the path that just ended is kept.
PopPathDirty ==
    /\ phase = "pop" /\ todo # <<>>
    /\ LET top == Last(todo)
       IN  /\ todo' = Front(todo)
           /\ queued' = queued - Cardinality(top.overlay)
           /\ trace' = top.trace /\ pc' = top.va
    /\ phase' = "run"
    /\ UNCHANGED <<prog, monitor, hits, steps, overlay, stop, watch, seeds, dropped>>

\* Takes the path queued last and restores its snapshot.
PopPath ==
    /\ phase = "pop" /\ todo # <<>>
    /\ LET top == Last(todo)
       IN  /\ todo' = Front(todo)
           /\ queued' = queued - Cardinality(top.overlay)
           /\ overlay' = top.overlay /\ trace' = top.trace /\ pc' = top.va
    /\ phase' = "run"
    /\ UNCHANGED <<prog, monitor, hits, steps, stop, watch, seeds, dropped>>

Finish ==
    /\ phase = "pop" /\ todo = <<>>
    /\ phase' = "done"
    /\ UNCHANGED <<prog, monitor, todo, queued, hits, steps, pc, overlay, stop, watch, seeds,
                   trace, dropped>>

Hits(va) == IF va \in DOMAIN hits THEN hits[va] ELSE 0
CountHit == hits' = [va \in DOMAIN hits \cup {pc} |-> Hits(va) + (IF va = pc THEN 1 ELSE 0)]

Running == phase = "run" /\ steps < MaxEmuSteps /\ pc \in Mapped
Decoded == Running /\ Hits(pc) < MaxHit /\ Insn # Bad
Hook ==
    CASE monitor = "watcher" -> Prehook(watch, Insn)
      [] monitor = "target" -> [w |-> watch, stop |-> pc = Target]
      [] OTHER -> [w |-> watch, stop |-> FALSE]

\* A path ends at the step cap, outside the image, at an address visited before,
\* or where nothing decodes.
EndPath ==
    /\ phase = "run" /\ ~Decoded
    /\ IF Running THEN CountHit ELSE UNCHANGED hits
    /\ dropped' = (dropped \/ steps >= MaxEmuSteps)
    /\ phase' = "pop"
    /\ UNCHANGED <<prog, monitor, todo, queued, steps, pc, overlay, stop, watch, seeds, trace>>

\* The monitor stops the run before the instruction executes.
StopAtPrehook ==
    /\ Decoded /\ Hook.stop
    /\ CountHit
    /\ watch' = Hook.w /\ stop' = TRUE /\ phase' = "done"
    /\ UNCHANGED <<prog, monitor, todo, queued, steps, pc, overlay, seeds, trace, dropped>>

\* The instruction executes; what follows depends on its kind.
Executes(kinds) ==
    /\ Decoded /\ ~Hook.stop /\ Insn.kind \in kinds
    /\ CountHit
    /\ watch' = Hook.w /\ steps' = steps + 1

\* Traps and unmodelled instructions end the path.
ExecTrap ==
    /\ Executes({"trap", "out", "exit"})
    /\ phase' = "pop"
    /\ UNCHANGED <<prog, monitor, todo, queued, pc, overlay, stop, seeds, trace, dropped>>

\* A division by zero is an anomaly: the watcher gives up, the other monitor only
\* loses the path.
ExecDivideByZero ==
    /\ Decoded /\ ~Hook.stop /\ Insn.kind = "div0"
    /\ CountHit /\ steps' = steps + 1
    /\ IF monitor = "watcher"
       THEN watch' = [Hook.w EXCEPT !.badcode = TRUE] /\ stop' = TRUE /\ phase' = "done"
       ELSE watch' = Hook.w /\ stop' = stop /\ phase' = "pop"
    /\ UNCHANGED <<prog, monitor, todo, queued, pc, overlay, seeds, trace, dropped>>

\* check_call: not descended into, execution goes on after it.
ExecCall ==
    /\ Executes({"call"})
    /\ seeds' = IF monitor = "analysis" THEN Apicall(seeds, pc, Insn.to) ELSE seeds
    /\ pc' = Next1(pc)
    /\ UNCHANGED <<prog, monitor, phase, todo, queued, overlay, stop, trace, dropped>>

\* More than one way on: every one is queued with the state reached here.
ExecFork ==
    /\ Executes({"jcc", "table"}) /\ CheckBranches(pc) # <<>>
    /\ LET q == PushPaths(todo, queued, CheckBranches(pc), Snap)
       IN  todo' = q.todo /\ queued' = q.queued /\ dropped' = (dropped \/ q.full)
    /\ phase' = "pop"
    /\ UNCHANGED <<prog, monitor, pc, overlay, stop, seeds, trace>>

\* A table with fewer than two valid entries jumps where its operand points.
ExecJump ==
    /\ Executes({"jmp", "table"}) /\ CheckBranches(pc) = <<>>
    /\ pc' = Insn.to
    /\ UNCHANGED <<prog, monitor, phase, todo, queued, overlay, stop, seeds, trace, dropped>>

ExecReturn ==
    /\ Executes({"ret"})
    /\ phase' = "pop"
    /\ UNCHANGED <<prog, monitor, todo, queued, pc, overlay, stop, seeds, trace, dropped>>

ExecPlain ==
    /\ Executes({"plain", "store", "badop"})
    /\ overlay' = IF Insn.kind = "store" THEN overlay \cup {pc} ELSE overlay
    /\ trace' = IF Insn.kind = "store" THEN trace \cup {pc} ELSE trace
    /\ pc' = Next1(pc)
    /\ UNCHANGED <<prog, monitor, phase, todo, queued, stop, seeds, dropped>>

Next == \/ PopPath \/ Finish \/ EndPath \/ StopAtPrehook \/ ExecTrap \/ ExecDivideByZero
        \/ ExecCall \/ ExecFork \/ ExecJump \/ ExecReturn \/ ExecPlain

Spec == Init /\ [][Next]_vars

-----------------------------------------------------------------------------
(* Properties.                                                             *)

\* A path sees exactly the stores made on its own way from the entry, whatever
\* paths ran between its being queued and its being taken.
PathIsolated == phase = "run" => overlay = trace

\* The addresses control can reach from the entry: the reference for the run.
Steps(va) ==
    IF prog[va] = Bad \/ prog[va].kind \in {"trap", "out", "exit", "div0", "ret"} THEN {}
    ELSE CASE prog[va].kind = "call" -> {Next1(va)}
           [] prog[va].kind = "table" /\ Len(Branches(va)) < 2 -> {prog[va].to}
           [] OTHER -> ToSet(Branches(va))

\* The least set of mapped addresses that has the entry and is closed under Steps.
Closed(S) == {Entry} \cap Mapped \subseteq S /\ \A va \in S : Steps(va) \cap Mapped \subseteq S
Reach == {va \in Mapped : \A S \in SUBSET Mapped : Closed(S) => va \in S}

\* A run that no cap and no monitor cut short has visited every address control
\* can reach, one visit per address notwithstanding, and has collected every
\* call target a caller is to make a function of, and nothing else; a run that
\* looks for an address finds it exactly when control can reach it.
Exhaustive ==
    phase = "done" /\ (~stop \/ monitor = "target") /\ ~dropped =>
        /\ ~stop => DOMAIN hits = Reach
        /\ monitor = "target" => (stop <=> Target \in Reach /\ prog[Target] # Bad)
        /\ monitor = "analysis" =>
               seeds = {prog[va].to : va \in {v \in Reach : /\ prog[v] # Bad
                                                            /\ prog[v].kind = "call"
                                                            /\ prog[v].to \in Exec \ {Entry}
                                                            /\ prog[v].to # Next1(v)}}

\* A candidate passes only if control can reach a return from it without having
\* met an anomaly, and one of more than four instructions only if no opcode makes
\* up 70% of the distinct instructions visited, however the ratio is rounded.
GoodHasReturn ==
    LET seen == {va \in DOMAIN hits : prog[va] # Bad}
    IN  phase = "done" /\ monitor = "watcher" /\ LooksGood =>
            /\ prog[pc].kind = "ret" /\ pc \in Reach
            /\ \A va \in seen : prog[va].kind # "div0"
            /\ Cardinality(seen) > 4 =>
                   \A va \in seen : 10 * Cardinality({v \in seen : prog[v].mn = prog[va].mn})
                                       < 7 * Cardinality(seen)
=============================================================================
