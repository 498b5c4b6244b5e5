# A TLA+ model of PAPA

PAPA reads a Windows executable, recovers its functions, extracts features from
them and matches the features against capa rules. This directory holds TLA+
specifications of its core, TLC configurations that check them on small
instances, and TLAPS proofs of the results that matter most. Every definition is
translated from the source; `PROJECT.json` ("map") names the lines.

## 1. The system

| component | state it keeps | operations | hard because |
|---|---|---|---|
| command-line driver (`main_driver.cpp`, `papa_main.cpp`) | the parsed `Args`, the future of the signature load | `parse_args`, `run`, `main` | a background thread alive across six early returns and several throws |
| FLIRT signature set (`flirt/flirt.cpp`) | one slot per embedded pack, the list of trees | `make_embedded` | one thread per pack, thread creation may fail half way |
| discovery passes (`viv/engine.cpp`, `discovery_passes.cpp`, `entrypoints.cpp`) | the tried and emulated sets, a snapshot of the entries | entry points, relocations, pointers, emulated calls, prologues | each pass walks a list that its own work makes stale |
| discovery databases (`viv/discovery.cpp`, `location_db`, `xref_db`, `codeblocks`) | locations, edges, recovered functions, their blocks, no-return verdicts | `make_function`, `make_pointer`, `on_opcode`, `on_function`, `analyze_function` | state is read while the flow that fills it is unfinished |
| code flow (`viv/cf_context.cpp`) | active path, deferral tables, blocked list, suppressed edges | `add_entry_point`, `add_code_flow`, `report_function` | re-entrant recursion through calls, tail jumps and callbacks, with caps |
| FLIRT matching (`flirt_matcher`, `flirt_classifier`, `viv/flirt_analysis.cpp`) | a cache per match, the library names | `classify_at`, `apply_names`, `on_function` | recursive references with tentative answers; makes functions from inside a match |
| emulator (`emu/`) | registers, flags, memory overlay, path queue | `execute_opcode`, `run_function`, the monitors | widths; paths that share one machine; limits |
| feature extractors (`insn.cpp`, `basic_block.cpp`, `function.cpp`, `imports.cpp`, `indirect_calls.cpp`) | none (pure) | features per instruction, block, function | backward slices, thunk chains, cycles |
| rule parser (`rules/parser.cpp`) | none (pure) | a statement from a YAML tree, with scope checks | a leaf is judged at the scope it will be matched at, much later |
| rule set (`rules/ruleset.cpp`, `feature_index.cpp`, `optimizer.cpp`) | rules, name and namespace indices, order per scope, feature index | `from_rules`, `match` | a sort, an index and a matcher that must agree about references |
| match engine (`engine.cpp`, `features/`) | the feature set, which matching extends | `evaluate`, `evaluate_quick`, `match` | two evaluators; a set that grows while it is read |
| limitation gate (`capabilities/common.cpp`) | none | the gate's rule closure, its verdict | must agree with a match it does not run |
| static capabilities (`capabilities/static_.cpp`) | one slot per function | `run_indexed`, scope bubble-up, reduction | a thread pool with exceptions; every merge must come before its match |
| PE access, YAML reader, rendering, hashes | none that outlives a call | read, parse, format | input arithmetic, text |

Control flows downward: `run` loads the sample, starts the signature load, loads
the rules, asks the gate, waits for the signatures, builds the backend (which
runs the discovery passes; they call code flow, which calls back into discovery,
which calls FLIRT, which calls `make_function` again; two of the passes ask the
emulator), then lets the worker pool match every function and reduces the
results. The only concurrency is the signature load (`std::async` plus one
thread per pack) and the worker pool. The other hard parts are re-entrancy (the
code-flow recursion and the FLIRT match run callbacks that start further
recursion while tables of the outer call are half updated) and the long way of a
match from an instruction up to the file.

`PROJECT.json` lists the hazards at their lines with the properties that cover
them. Known and not covered by a property: a write error while the report is
rendered is never looked at (`main_driver.cpp:333`); only the start of a read is
checked against its section (`pe_image.cpp:50`), and the source does not say what
the bytes past the end should be; the blocks of a function are built when it is
first reported and later edges do not split them (`discovery.cpp:101`), as in
vivisect; a call that is deferred, or abandoned at the descent cap, is judged
before its callee has a no-return verdict (`cf_context.cpp:255`), as in vivisect
too: `DirectExitSuppressed` is about the direct calls of thunks the import oracle
knows as exits. That a failed thread start terminates the process is tolerated,
not forbidden: `NoDanglingWorker` asks that no worker runs on after a return.

## 2. The modules

**Worker pool.** `RunIndexed` models `run_indexed` thread by thread: `main` is
the calling thread, `pc[w]` a worker, `next` the atomic counter, `slots` the
output, `first_error` and the mutex the error path. `Spawn`, `SpawnFails`,
`StartOwnWorker`, `JoinAll` are the calling thread's steps; `Claim`, `Body`,
`BodyThrows`, `LockError`, `RecordError` a worker's. `IndexedFor` is the abstract
specification: a loop that fills each slot once and ends complete, failed or
aborted. The mapping sends the pool's slots to the loop's and its end to the
loop's status.

**Function recovery.** `LocationDb` (locations and edges), `CodeBlocks`
(`analyze_function`, `function_is_noreturn`) and `CodeFlow`. The variable `stack`
of `CodeFlow` is the native call stack of `add_entry_point`; a frame's `phase`
says where in the code it is: `flow` and `branch` (the worklist and the branches
of one instruction), `called` (back from a callee), `drain` and `blocked` (the
two loops at the end), `report`, `release`, `freed` (`report_function`). An image
maps addresses to instruction records (kind, length, target, whether it calls a
no-return import) or to `Bad`. The jump-table resolver may give any answer of
`JumpTables` or none; the FLIRT analyzer appears as the local names it finds at
a function, which are made into functions from inside the report. Iteration over
a hash set (`awaited_by_`) is a free choice.

The proofs about it are `CodeFlowProofs` (types, the effect of each action on the
stack, entries and deferral tables) and `CodeFlowCoverProofs` (what is decoded and
entered, how deep it nests, the blocks).

**Discovery passes.** `DiscoveryPasses` runs the passes of `viv/engine.cpp` in
their order, one candidate, function or round per step, over `LocationDb`. A
made function decodes the closure of its flow in one step; how that closure is
computed is `CodeFlow`'s subject. The image says which addresses look like code
(the watcher's verdict) and which call targets an emulation of a function
resolves.

**Emulator.** `EmuBits` has the width arithmetic and the register file with its
lanes, `SandboxMemory` the maps and the capped overlay, `IntelEmulator` the whole
of `execute_opcode` as a function from machine to machine, one instruction per
behaviour. A byte has `ByteBits` bits: with one bit a word has eight, every size
keeps its ratio to the others, and all boundary operands can be enumerated.
`WorkspaceEmulator` is the run loop: the queue of paths with their snapshots, the
hit, step, queue and memory limits, and the three monitors (the watcher that
decides whether bytes are a function, the collector of call targets, the search
for one address). There an instruction is only what the loop sees of it, and
`overlay` stands for the machine a path carries.

**FLIRT.** `FlirtPacks` is `make_embedded` with its threads. `Flirt` is the match:
the walk of the signature tree with wildcards, the checksum and the tail bytes,
`classify_at` with its cache, its tentative negatives and its depth cap,
`references_satisfied`, and the discovery analyzer that tries the packs in order
and applies the names. `Decode` and `Report` say in which order addresses are
decoded and functions reported, which is free; a local name that makes a
function enters and reports the functions it calls, then the function itself, from
inside the match (`Enter`). There too an address is decoded as a whole, before its
callees are entered.

**Rules.** `Statements` has the statement trees as post-order sequences of nodes
and, as operators, `evaluate`, `evaluate_quick`, `collect_match_refs`, the need
analysis of the feature index and the optimizer. `StatementTree` builds every
tree of bounded size. `RuleSet` is `from_rules` as a pipeline: subscope
extraction, indexing, validation, then Kahn's sort one `Pop` at a time for each
scope, then the feature index. `RuleEngine` is `match` as an operator, `RuleMatch`
the same match one rule per step together with the index and the limitation
gate. A feature is a tag and a short sequence of symbols, so that scanning,
prefix and wildcard matches differ from equality; regular expressions are
literals. The name of a rule is a path of numbers, the base name first; the heap
of the sort compares names as the text they are spelled as (`SegmentLess`). Every walk of a tree is a recursive function of the node's position, so
that it can be proved about: `StatementLemmas` has what the walks compute,
`StatementTreeProofs` the theorems about trees, `RuleMatchProofs` those about the
pipeline, the index, the gate and the sort.

**From a rule document to the report.** `RuleParser` is `RuleParser::parse` on a
YAML tree, with every error path. `PeImage` is the address translation, with the
width of an address; `Extraction` the instruction, block, function, file and
global features, import and thunk resolution, and the backward slice behind an
indirect call. `StaticCaps` composes them: documents are parsed and built into a
rule set by `RuleSet`'s own steps, then workers take the functions of an image in
any order, each running the instruction, block and function passes with the
merges between them, and the reduction and the file pass end in a report. On the
same rule sets `RuleMatch`'s steps compare index and gate with the plain match.

**Driver.** `Driver` extends `FlirtPacks` with `parse_args`, `run` and `main`.
What the file system, the rules, the gate and the analysis answer is a free
choice; every early return and every throw is an action. `Leave` is the end of
`run`, where the future's destructor waits.

The modules whose names start with `MC` give the constants their values. A
definition marked as a mutant, next to the one it alters, is a deliberately wrong
variant: the property it is paired with in `PROJECT.json` is violated when it
replaces the original.

## 3. What TLC checks

| run | instance | distinct states | shows |
|---|---|---|---|
| `pool` | 4 functions, 3 workers, 3 bodies may throw, any spawn may fail | 3,133 | complete or error, no thread left, the call ends, it implements the loop |
| `codeflow` | all images of 4 addresses over `ret`, `call x`, `jmp x`, and all of 3 addresses over 13 instructions with tables, exits, overlaps; 2 seeds, names made at two functions | 746,038 | the deferral tables are inverse, every function ends reported or held, nothing reachable or called is missed, no code behind a direct no-return call, blocks neither overlap nor get lost |
| `codeflow_caps` | all images of 3 addresses, each cap set to 2 | 16,122 | bounded native stack, every `make_function` returns |
| `discovery` | 1,920 images with overlapping code, pointers, relocations, prologues; round limits 2, function limit 5 | 33,230 | no function in the middle of what is decoded, each pass leaves nothing it was to claim, the passes end |
| `emulator` | every modelled instruction on boundary operands of an 8-bit word, 32- and 64-bit mode | 397,096 | a jump after a compare decides the comparison, products and quotients are exact, push and pop are inverse |
| `emurun` | 9,216 programs of four or five addresses, three monitors, all limits reached | 210,934 | paths do not see each other's stores, an uncut run visits what control can reach, a candidate passes only with a reachable return |
| `flirt` | 3 functions, two packs of 6 x 5 x 3 and 2 trees, every order of decoding and reporting, depth cap 2 | 287,940 | every name is earned, a function is unnamed only for a reason |
| `statements` | all trees of at most 4 nodes over 6 kinds of leaf, against 10 feature sets | 92,593 | probe, need analysis and optimizer agree with evaluation |
| `static` | corpora of two to five documents, a rich image and 1,029 flow graphs, 6 feature sets, 2 workers | 217,158 | leaves are legal where they are matched, what is extracted can be asked for, order respects references, a cycle error is real, index and gate lose no match, slices and loops are right, the report is exact |
| `driver` | all command lines of at most 4 arguments, 3 packs of which one does not parse | 74,904 | no thread outlives the process, the signature set is whole, the exit code tells of a report, the program ends |

`ReportExact` is the property the whole matching side is for: a rule is in the
report at a place, once, if and only if its statement holds there of what was
extracted at and below the place together with what the report says matched
there and below. It is stated on the report and the image alone, without the
order of the passes. `Exhaustive` plays the same part for the emulator's run
loop and `FlowClosed` with `CallsEntered` for code flow. `SliceReaches` and
`LoopIsCycle` compare algorithms with reference definitions by reachability, as
`CompareDecides` and `ProductsAndQuotients` do with arithmetic on integers.
`ReportExact` leaves out rules that refer to themselves, by name or through their
namespace. `ProductsAndQuotients` covers every size of the one-operand forms; the
two places where the code is not the processor (the halves of a byte `div`, the
sign of a narrow `idiv`'s remainder) are stated in it as the code has them.
`SliceReaches` has a notion of overwriting of its own, that of the processor; where
a 32-bit write stands between, which the code passes over, it says what the code does. `UnnamedForAReason`
excuses a function whose match failed because a reference of it was answered
tentatively or at the depth cap.

Two runs end in a violation. Each states what a comment says and shows that the
code does something else:

| run | says | the code |
|---|---|---|
| `static_unsupported` | an absent scope "signals do not match in that pipeline" (`rule.h:22`) | a rule without a static scope is given function scope and matched |
| `flirt_rematch` | a function an earlier signature named "is not re-matched" (`flirt_analysis.cpp:144`) | it is, when another function references it under a later pack, and its name is overwritten |

### Further disagreements met while modelling

They have no run; the models follow the code.

* Code flow: an indirect call of a no-return import keeps its fall-through, since
  it has no procedure edge and the oracle is never asked (`cf_context.cpp:255`,
  `cf_context.h:43`). An entry already decoded by an unfinished flow is skipped
  and reported at once, before its "code flow is complete" (`cf_context.cpp:196`,
  `cf_context.h:41`). The release of held functions is one level deep, so a chain
  of waits leaves the last function held for ever (`cf_context.h:91` reads
  otherwise, the comment in `cf_context.cpp:106` says it is deliberate).
  `get_location` looks only at the nearest start, so with overlapping instructions
  an address inside a longer one counts as undefined (`location_db.h:35`).
* Passes: the emulation and the prologue rounds stop after 6 and 8 rounds, although
  the comments promise a fixpoint (`discovery_passes.cpp:50`, `:69`).
* Rules: references are validated in one pass, so a rule that references a dropped
  rule stays (`ruleset.cpp:217`). A rule named like a namespace hides that
  namespace from the sort (`ruleset.cpp:269`, `ruleset.h:24`). `rules_in_namespace`
  also returns nested namespaces (`ruleset.h:60`). The name in a count of
  characteristics is not checked against the scope (`parser.cpp:845`).
* Emulator: the carry of an 8-byte operation compares with a mask that reads as -1
  (`bits.h:74`); a write to a 32-bit lane in 64-bit mode is
  not masked to 32 bits, although "every write masks" (`registers.h:98`); the byte
  form of `div` leaves the quotient above the remainder, `idiv` below 8 bytes gives
  the remainder the sign of the quotient (7 by -2 is -3, remainder -1), and the
  zero flag of `add` is not the processor's;
  `check_call` leaves the pushed return address on the stack.
* Indirect calls: `is_full_write_to_register` compares widths only, although its
  comment says that "on x64 a 32-bit write also zero-extends"
  (`indirect_calls.cpp:29-30`): a `call rax` behind a `mov eax` is resolved to the
  definition of `rax` that the `mov` replaced. `SliceReaches` allows exactly this.
* Driver: the limitation report goes to stdout whatever `-o` says
  (`main_driver.cpp:246`, the usage text at `:56`). `run` "never throws across this
  boundary" (`main_driver.h:54`), yet `filesystem::exists`, `std::async` and a
  rethrown worker exception leave it, and `main` catches them. `--json` does not
  override a verbosity option after it (`main_driver.h:12`).

### Bounds

* Code flow: recursion patterns need a function, one it calls and one that jumps
  back; four addresses give three functions with a body and a chain of calls and
  tail jumps among them. `Returns` and the depth bound need the caps to be hit,
  which two of everything does.
* Passes: six code addresses hold an instruction that covers the start of another,
  a function that a pointer, a call and a prologue all lead to, and one that only
  a later round finds; the limit of two rounds both ends a pass and is not reached.
* Emulator: eight-bit words with one-bit bytes keep four distinct sizes, so sign
  extension, truncation and double-width results all differ; the operands are the
  boundaries of each size. At that scale a byte is one bit, so that of the byte
  forms of multiplication and division it is mainly checked where each half goes.
  Loops of four addresses reach the hit limit, two branches in a row the queue
  limit.
* FLIRT: three functions hold a cycle, a chain longer than the depth cap, a sibling
  name and a function made from inside a match.
* Statements: four nodes hold every parent above every leaf with a sibling, and a
  `not` above a compound node.
* Rules: three rules hold a reference, what it references, and a rule of the same
  namespace; the corpora place references under `not`, `or`, counts and nested
  subscopes. One corpus has a rule of every scope, each reading the one below, on
  an image that has something for every extractor; another meets all graphs of
  three blocks.
* Driver: an option needs two arguments; four hold two options, or an option, a
  mode and a sample. Three packs is the real number; the build with none needs
  no threads and is covered by the proof.
* Unbounded in the proofs: the number of functions, workers, packs, rules,
  addresses and the length of the command line.

### Fairness

`RunIndexed` and `Driver` assume weak fairness of each thread's steps: the
operating system schedules every runnable thread, nothing in the code spins or
waits on a condition another thread may never set. Failures (a throw, a failed
thread start) are never obliged to happen. `CodeFlow` and `DiscoveryPasses`
assume that the single analysis thread goes on. `Driver` and `Flirt` run with
deadlock checking; the others end in states that have nothing left to do.

## 4. What is proved

| theorem | module | for every |
|---|---|---|
| `TypeCorrect`, `OwnersDistinct`, `CompleteOrErrorHolds`, `NoDanglingWorkerHolds` | `RunIndexedProofs` | number of functions, requested and available workers, set of throwing bodies |
| `PoolImplementsLoop` | `RunIndexedProofs` | as above: `Spec => Loop!Spec` under the mapping |
| `CodeFlowTypes` | `CodeFlowProofs` | image, seed order, table answer, FLIRT match and cap |
| `FunctionsListedOnce`, `FunctionsSettle`, `DeferralTablesInverse` | `CodeFlowProofs` | as above |
| `FlowIsClosed` | `CodeFlowCoverProofs` | as above, when `MaxInsns > MaxVa + 1` |
| `CallsAreEntered` | `CodeFlowCoverProofs` | as above, when `MaxFunctions` and `MaxDescent` exceed `MaxVa + 1` |
| `ExitsSuppressed` | `CodeFlowCoverProofs` | as above, no hypothesis on the caps |
| `BlocksLieApart` | `CodeFlowCoverProofs` | image, seed order, table answer, FLIRT match and cap |
| `StackIsBounded` | `CodeFlowCoverProofs` | image, seed order, table answer and cap, when no local names are made |
| `PathsAreIsolated`, `RunIsExhaustive` | `WorkspaceEmulatorProofs` | program, monitor and limits (finite for the second) |
| `GoodCandidates` | `WorkspaceEmulatorProofs` | program, with the visit cap of one the code sets |
| `ProbeIsExact`, `NeedIsSound`, `OptimizeIsNeutral` | `StatementTreeProofs` | tree the parser can build, feature set with finite address sets |
| `IndexIsSound`, `GateIsSound` | `RuleMatchProofs` | corpus the parser can hand over, feature set, order the heap yields |
| `SortRespectsReferences`, `CycleErrorIsReal` | `RuleMatchProofs` | corpus the parser can hand over, order the heap yields |
| `NoThreadOutlives`, `SignaturesComplete`, `ExitCodeTellsReport` | `DriverProofs` | command line, number of packs (at least one for the second) |

*Pool.* `CompleteOrError` is not inductive: that all slots are filled at the end
depends on where each claimed but empty index is. The invariant `IInv` says it:
an empty slot below the counter is held by exactly one worker or an error has
been kept, and the kept error's slot is nobody's any more. The refinement proof
uses it to show that a body's step finds its slot empty.

*Code flow, the stack.* Every later proof looks at the same thing: how a step
changes the native stack. `CodeFlowProofs` says it once per action, in an effect
lemma: a step replaces the top frame by one that differs in named fields, pushes
the frame of a new entry on that, or pops. `TypeInv` is proved from these lemmas,
and the later proofs cite them instead of the actions.

*Code flow, the tables.* The list of entries is injective because it enumerates
the set `analyzed_`, which a new entry is not in (`EntriesInv`). `SettleInv`: a
function is reported, held or in a frame that has yet to report it, and a held
function has a wait entry. That the two tables stay inverse hangs on the time
between a release and the reports of what it freed, during which FLIRT may make
and enter functions: `WaitInv` adds that a freed function waits for nothing until
its report, because it was decoded before it waited and a frame that enters it
again decodes nothing (`FreedInv`).

*Code flow, what is found.* `FlowClosed` and `CallsEntered` speak of the idle
state only. `FlowInv` extends the first to every state: an edge out of a decoded
instruction ends at defined code, in a table, at bytes that do not decode, or is
still pending in some frame, as a branch of the instruction in hand or on its
worklist. Two of its conjuncts are about what the code relies on without saying
so: a jump that is not followed goes to a function on the active path, and such
a function has its first instruction decoded (`PathInv`); and a location never
stops covering an address another one comes to start behind, since `Defined`
looks only at the nearest start (`DefinedStays`). `CallInv` does the same for
calls, with `KnownInv`: all deferred and blocked addresses are known functions,
so that taking one off `functions_` is followed by entering it again. `ExitInv`
gives every decoded address a reason, the entry of a frame or of a function, an
edge, or an instruction that falls into it and is not a suppressed call; the
suppression comes before the fall-through is followed because the call is the
last branch of the list and the last is taken first (`ThunkCallFirst`).

The hypotheses of `FlowIsClosed` and `CallsAreEntered` say that the caps are out
of reach on an image of `MaxVa + 1` addresses. They cannot be dropped: a flow cut
at its cap leaves targets behind, and the code means it to. `codeflow_caps` runs
with the caps met.

*Code flow, the stack's depth.* Entries from the deferred and the blocked list are
not checked against the descent cap. `ShapeInv` shows why they do not pile up. In
the regular shape every frame below the top waits for a callee, and the active
path lists exactly these frames. A deferred function is known, so
`add_entry_point` refuses it. A blocked function is reported or belongs to a frame
of the stack, so the only one that is neither active nor reported is the function
that is draining: it enters itself, once. In that second shape everything is
decoded already, so the second flow calls nothing, and the blocked list, from
which the function was erased, holds nothing that could be entered. The erasure
removes one occurrence only, hence `QueueInv`: the blocked list, and the two lists
a drain splits it into, name each function once. With local names the bound is
false, as a report may then enter functions at any depth, without a check.

*Code flow, the blocks.* The walk of `analyze_function` only moves forward, so it is
the recursive function `BlockWalk`, unfolded by a lemma from the last address down.
No block is lost, because a walk that records an end has put a marker there or
pushed it as a start, and the rounds of `BlockStarts` reach every start that is
pushed (by counting: a set that grew in every round would outgrow the addresses).
Blocks do not overlap, because every start other than the entry is a cut: the
target of an edge, or the address behind an instruction that flow leaves
(`PushedIsCut`). When instructions are aligned, a walk from a cut goes from one
instruction's start to the next and ends at the latest at the next cut
(`WalkMeetsCut`). The entry is excepted in the property because it need not be a
cut. The databases only grow, so blocks built long ago were built from aligned
instructions if those of today are aligned (`AlignedBefore`), and `TileInv` is
inductive. `ImageAssumption` says that `MaxVa` is large enough for every address
the image names; it is a statement about the bound, not about the code, and TLC
evaluates it.

*Emulator run loop.* For `PathIsolated` the invariant says that each queued snapshot
is the memory its own path left (`SnapInv`). For `Exhaustive` it is the usual one of a search:
everything reachable is executed, queued, the current address, or was given up
for a reason the statement excludes; the counts of visits and steps enter
because a limit met is such a reason.

*Rule sort.* `KahnInvariant`: the rules ready or sorted are exactly those with
in-degree zero, in-degree is the number of unsorted dependencies, and a sorted
rule's dependencies are sorted before it. When the queue runs empty early, the
rules left form a non-empty set each of whose members depends on another member.
The counting steps rest on the cardinality theorems of `FiniteSetTheorems`; that a
group of rules is finite follows from the corpus being a list.

*Statements.* A tree is a sequence of nodes, children first. What a walk over it
computes is a recursive function, which the prover cannot unfold until the
function is known to exist: each walk has a lemma that says so, by taking the
shortest prefix for which there is none. An induction over trees is then the
same argument, the first node at which a claim fails. `TreeInv` says of the
parser's state that children come before parents, a `not` has one child and a
"some" asks for at least one. From it: `evaluate_quick` agrees with `evaluate`
node by node, with and without short circuit; a node that holds has one of the
features its need names, unless the need is marked as free; and the optimizer,
which only permutes the children of a node, leaves the set of children that hold
alone.

*Index and gate.* `MatchInv` follows the pipeline: the rules are well-formed and
free of Subscope placeholders after extraction (`RulesReady`), the two indices
are those of the current rules (`IndicesCurrent`), the order of a scope lists
known rules (`OrdersKnown`), the needs are those of the rules they index
(`NeedsCurrent`), and what a match has done so far is `MatchSoFar` of the rules it
has visited (`MatchProgress`). For the index: a rule that is not selected has a
need, none of whose features is in the set handed in. A published feature is
a match feature, and no need holds one, so the rule still cannot hold when its turn
comes: visiting it would change nothing (`Hopeless`, `Pruned`, `OnlyMatches`). For
the gate: the closure of the limitation rules under references is closed
(`GrowthCloses`, by counting: a set that grew at every step would outgrow the
rules), so the full pass and the gate agree at every rule on the features that
rules of the closure refer to (`Alike`, `Abreast`), though they disagree on the rest. The
assumption on the corpus, `CorporaAssumption`, is what the parser's constructors
guarantee; TLC checks it, in run `static`, of all that `RuleParser` returns there.

*Driver.* `Inv` ties the position of the main thread to the state of the loader
and the loader's to its decoders: before the launch nothing runs, past `get` the
set is ready, and a ready set has no running decoder. `ReportInv` ties it to the
output: nothing is written before `run` is left, and from then on the code tells.

Only model-checked: liveness (`Terminates`, `Returns`, `PassesEnd`, `Exits`);
`SubscopesExtracted`, which is true of corpora whose own names do not look like
synthetic ones (the code checks a name only when `index_rules` rejects a
duplicate), so that it has no proof for every corpus; and the modules that use
`RECURSIVE` operators or `Bitwise`, which the prover does not take: instruction
semantics, the passes, the parser, the extractors, the static pass and the FLIRT
match.

## 5. What is not modelled, and the plan

Left, in the order in which it is worth doing:

1. `JumpTables`: the window analysis that today is an oracle of `CodeFlow`.
2. String carving, embedded-PE carving and the regex prefilter, as bounded
   algorithms against reference definitions.
3. `add_from_buffer` and `classify` of the signature set, and
   `readable_bytes_at_rva`.

Proofs worth adding: `ScanLeavesClaimed`, that a pass leaves no candidate it was to
claim, for every image, once the closure of a flow in `DiscoveryPasses` is written
without `RECURSIVE`.

Left out for good: instruction decoding (Zydis), inflation (miniz) and the
signature byte stream, the YAML text reader, the PE header layouts and the table
of ordinals, hash functions, report wording and layout, the vendored rule corpus,
and running out of memory other than a failed thread start. These turn bytes or
text into a value or a value into text: what a model could say of them is the
code again.
