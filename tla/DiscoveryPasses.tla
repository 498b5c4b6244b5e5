-------------------------- MODULE DiscoveryPasses --------------------------
(***************************************************************************)
(* The passes of the function recovery (viv/engine.cpp,                    *)
(* discover_functions, with viv/discovery_passes.cpp and                   *)
(* viv/entrypoints.cpp): entry points, relocations, pointer candidates to  *)
(* a fixpoint, and on a 32-bit image the call targets found by emulation   *)
(* and the prologue scan.  One action per step of a pass that makes a      *)
(* location or a function.                                                 *)
(*                                                                         *)
(* make_function is summarised (module CodeFlow has its deferrals): it     *)
(* decodes what is reachable from an address, a callee to its end before   *)
(* its caller goes on, and never an address that is already defined.       *)
(*                                                                         *)
(* An image is a record: what decodes at an address (a length, the calls,  *)
(* jumps and rip-relative leas), its executable addresses, the pointers    *)
(* stored in it, its seeds and relocations, the addresses of prologue and  *)
(* of boundary bytes, and the two verdicts of the emulator, both pure      *)
(* (module WorkspaceEmulator): which addresses look like code, and which   *)
(* call targets a function resolves.                                       *)
(***************************************************************************)
EXTENDS LocationDb, Sequences, SequencesExt, FiniteSetsExt, TLC

CONSTANTS Images,          \* the images to analyse
          PtrSize,         \* ptr_size_
          MaxFunctions,    \* kMaxFunctionsPerImage
          MaxCalling,      \* kMaxPasses of run_calling
          MaxFuncentries   \* kMaxPasses of run_funcentries

ASSUME PassesAssumption ==
    /\ PtrSize \in Nat \ {0} /\ MaxFunctions \in Nat
    /\ MaxCalling \in Nat /\ MaxFuncentries \in Nat

VARIABLES img,       \* the image
          phase,     \* the running pass
          db,        \* locations_
          funcs,     \* CodeFlowContext::functions_
          entries,   \* function_entries_, in the order they were reported
          todo,      \* what is left of the list the pass walks
          tried,     \* tried of run_emucode, emulated of run_calling
          pass,      \* pass number
          added,     \* added
          scanned    \* history: the functions a scanning pass asked for

vars == <<img, phase, db, funcs, entries, todo, tried, pass, added, scanned>>

Sorted(S) == [k \in 1..Cardinality(S) |-> CHOOSE x \in S : Cardinality({y \in S : y < x}) = k - 1]

-----------------------------------------------------------------------------
(* make_function.                                                          *)

\* The addresses queued by an instruction, the next to take last.
Pushes(i, va) ==
    (IF i.kind \in {"jmp", "jcc"} /\ i.to \in img.exec THEN <<i.to>> ELSE <<>>)
    \o (IF i.kind \notin {"jmp", "ret"} /\ va + i.len \in img.exec THEN <<va + i.len>> ELSE <<>>)

RECURSIVE MakeFunction(_, _), AddCodeFlow(_, _, _)
AddCodeFlow(s, optodo, va) ==
    IF optodo = <<>> THEN [s EXCEPT !.entries = Append(@, va)]
    ELSE LET cur  == Last(optodo)
             i    == img.code[cur]
             read == [s EXCEPT !.db = AddLocation(@, cur, i.len, "op")]
             call == i.kind = "call" /\ i.to \in img.exec /\ i.to # cur + i.len
         IN  IF Defined(s.db, cur) \/ cur \notin DOMAIN img.code
             THEN AddCodeFlow(s, Front(optodo), va)
             ELSE AddCodeFlow(IF call THEN MakeFunction(read, i.to) ELSE read,
                              Front(optodo) \o Pushes(i, cur), va)
MakeFunction(s, va) ==
    IF Cardinality(s.funcs) >= MaxFunctions \/ va \in s.funcs THEN s
    ELSE AddCodeFlow([s EXCEPT !.funcs = @ \cup {va}], <<va>>, va)

State == [db |-> db, funcs |-> funcs, entries |-> entries]
Becomes(s) == \E t \in {s} : db' = t.db /\ funcs' = t.funcs /\ entries' = t.entries

(* Pointers.                                                               *)

LooksLikeCode(d, va) == ~Defined(d, va) /\ va \in img.good

FollowPointer(s, target) == IF LooksLikeCode(s.db, target) THEN MakeFunction(s, target) ELSE s

MakePointer(s, site) ==
    IF Defined(s.db, site) \/ site \notin DOMAIN img.ptr THEN s
    ELSE FollowPointer([s EXCEPT !.db = AddLocation(@, site, PtrSize, "pointer")], img.ptr[site])

(* Where the passes take their addresses from.                             *)

\* The table of function records is read up to the first whose unwind
\* information is unreadable or of an unknown version; a chained one is skipped.
PdataBegins(recs) ==
    LET stops == {k \in DOMAIN recs : recs[k].unwind = "stop"}
        read  == IF stops = {} THEN recs ELSE SubSeq(recs, 1, Min(stops) - 1)
    IN  Sorted({read[k].begin : k \in {j \in DOMAIN read : read[j].unwind = "seed"}})

EntrypointSeeds ==
    img.entry
    \o SelectSeq(img.exports, LAMBDA va : va \notin img.forwarded)
    \o SelectSeq(img.tls, LAMBDA va : va \in img.exec)
    \o (IF img.is64 THEN PdataBegins(img.pdata) ELSE <<>>)

PointerCandidates == {img.ptr[s] : s \in DOMAIN img.ptr} \cap img.exec

\* On a 64-bit image also what the decoded instructions take the address of.
EmuCandidates ==
    LET leas == {va \in DOMAIN db \cap DOMAIN img.code :
                    db[va].type = "op" /\ img.code[va].kind = "lea"}
    IN  PointerCandidates
        \cup (IF img.is64 THEN {img.code[va].to : va \in leas} \cap img.exec ELSE {})

\* find_function_prologues: in the text section, past a boundary byte, at a
\* prologue, and not over a decoded instruction.
Covered(va) == \E s \in DOMAIN db : db[s].type = "op" /\ s =< va /\ va < s + db[s].size
Prologues == {va \in img.prologue : va - 1 \in img.boundary /\ ~Covered(va)}

-----------------------------------------------------------------------------
(* The passes.                                                             *)

Init ==
    /\ img \in Images
    /\ phase = "entrypoints" /\ todo = EntrypointSeeds
    /\ db = EmptyDb /\ funcs = {} /\ entries = <<>>
    /\ tried = {} /\ pass = 0 /\ added = FALSE /\ scanned = {}

Goto(p, list) == phase' = p /\ todo' = list

RunEntrypoint ==
    /\ phase = "entrypoints" /\ todo # <<>>
    /\ Becomes(MakeFunction(State, Head(todo))) /\ todo' = Tail(todo)
    /\ UNCHANGED <<img, phase, tried, pass, added, scanned>>

EntrypointsEnd ==
    /\ phase = "entrypoints" /\ todo = <<>>
    /\ Goto("relocations", img.relocs)
    /\ UNCHANGED <<img, db, funcs, entries, tried, pass, added, scanned>>

RunRelocation ==
    /\ phase = "relocations" /\ todo # <<>>
    /\ Becomes(MakePointer(State, Head(todo))) /\ todo' = Tail(todo)
    /\ UNCHANGED <<img, phase, tried, pass, added, scanned>>

RelocationsEnd ==
    /\ phase = "relocations" /\ todo = <<>>
    /\ Goto("emucode", <<>>)
    /\ UNCHANGED <<img, db, funcs, entries, tried, pass, added, scanned>>

\* Mutant: a candidate that failed is tried again.
EmucodeRetry ==
    LET docode == {va \in EmuCandidates : LooksLikeCode(db, va)}
    IN  /\ phase = "emucode" /\ todo = <<>> /\ docode # {}
        /\ todo' = Sorted(docode)
        /\ UNCHANGED <<img, phase, db, funcs, entries, tried, pass, added, scanned>>

\* One round of run_emucode: every candidate not tried before, sorted, if it
\* looks like code.  The calling pass starts with nothing emulated.
EmucodeCollect ==
    LET new    == EmuCandidates \ tried
        docode == {va \in new : LooksLikeCode(db, va)}
    IN  /\ phase = "emucode" /\ todo = <<>> /\ docode # {}
        /\ todo' = Sorted(docode) /\ tried' = tried \cup new
        /\ UNCHANGED <<img, phase, db, funcs, entries, pass, added, scanned>>

EmucodeEnd ==
    /\ phase = "emucode" /\ todo = <<>>
    /\ \A va \in EmuCandidates \ tried : ~LooksLikeCode(db, va)
    /\ Goto(IF img.is64 THEN "done" ELSE "calling", <<>>) /\ tried' = {}
    /\ UNCHANGED <<img, db, funcs, entries, pass, added, scanned>>

\* Mutant: the address is not looked up again.
ClaimStale(s, va) == [MakeFunction(s, va) EXCEPT !.scanned = @ \cup {va}, !.added = TRUE]

\* Makes a function of an address nobody has claimed since it was collected.
Claim(s, va) ==
    IF Defined(s.db, va) THEN s
    ELSE [MakeFunction(s, va) EXCEPT !.scanned = @ \cup {va}, !.added = TRUE]
Scan == State @@ [scanned |-> scanned, added |-> added]
Scanned(s) == \E t \in {s} : Becomes(t) /\ scanned' = t.scanned /\ added' = t.added

EmucodeMake ==
    /\ phase = "emucode" /\ todo # <<>>
    /\ Scanned([Claim(Scan, Head(todo)) EXCEPT !.added = FALSE]) /\ todo' = Tail(todo)
    /\ UNCHANGED <<img, phase, tried, pass>>

\* A round of run_calling walks a copy of the function list.
CallingPass ==
    /\ phase = "calling" /\ todo = <<>> /\ pass < MaxCalling /\ (pass = 0 \/ added)
    /\ todo' = SelectSeq(entries, LAMBDA va : va \notin tried)
    /\ tried' = tried \cup Range(entries)
    /\ pass' = pass + 1 /\ added' = FALSE
    /\ UNCHANGED <<img, phase, db, funcs, entries, scanned>>

\* Mutant: only the first resolved target is looked at.
CallingFirst ==
    /\ phase = "calling" /\ todo # <<>>
    /\ Scanned(FoldLeft(Claim, Scan, SelectSeq(Sorted(img.calls[Head(todo)]),
                                                LAMBDA va : va = Min(img.calls[Head(todo)]))))
    /\ todo' = Tail(todo)
    /\ UNCHANGED <<img, phase, tried, pass>>

CallingFunction ==
    /\ phase = "calling" /\ todo # <<>>
    /\ Scanned(FoldLeft(Claim, Scan, Sorted(img.calls[Head(todo)]))) /\ todo' = Tail(todo)
    /\ UNCHANGED <<img, phase, tried, pass>>

CallingEnd ==
    /\ phase = "calling" /\ todo = <<>> /\ (pass = MaxCalling \/ (pass > 0 /\ ~added))
    /\ Goto("funcentries", <<>>) /\ pass' = 0 /\ added' = FALSE
    /\ UNCHANGED <<img, db, funcs, entries, tried, scanned>>

FuncentriesPass ==
    /\ phase = "funcentries" /\ todo = <<>> /\ pass < MaxFuncentries /\ (pass = 0 \/ added)
    /\ todo' = Sorted(Prologues)
    /\ pass' = pass + 1 /\ added' = FALSE
    /\ UNCHANGED <<img, phase, db, funcs, entries, tried, scanned>>

FuncentriesMake ==
    /\ phase = "funcentries" /\ todo # <<>>
    /\ Scanned(Claim(Scan, Head(todo))) /\ todo' = Tail(todo)
    /\ UNCHANGED <<img, phase, tried, pass>>

FuncentriesEnd ==
    /\ phase = "funcentries" /\ todo = <<>> /\ (pass = MaxFuncentries \/ (pass > 0 /\ ~added))
    /\ Goto("done", <<>>)
    /\ UNCHANGED <<img, db, funcs, entries, tried, pass, added, scanned>>

Next == \/ RunEntrypoint \/ EntrypointsEnd \/ RunRelocation \/ RelocationsEnd
        \/ EmucodeCollect \/ EmucodeMake \/ EmucodeEnd
        \/ CallingPass \/ CallingFunction \/ CallingEnd
        \/ FuncentriesPass \/ FuncentriesMake \/ FuncentriesEnd

Spec == Init /\ [][Next]_vars
\* The passes are sequential code.
FairSpec == Spec /\ WF_vars(Next)

-----------------------------------------------------------------------------
(* Properties.                                                             *)

AtCap == Cardinality(funcs) >= MaxFunctions

\* A function a scanning pass asked for starts at an instruction of its own: no
\* pass makes a function in the middle of what an earlier one decoded, although
\* the list it walks is older than the functions it has made since.
ScanLeavesClaimed ==
    \A va \in scanned : va \in DOMAIN db \/ va \notin DOMAIN img.code \/ AtCap

\* A pass that has ended leaves nothing unclaimed that it was to claim, although
\* each function it made exposes new candidates and hides others.  After the
\* pointer pass: no pointer into code, and on a 64-bit image no address taken by
\* an instruction decoded so far, that looks like code.  Unless the limit of
\* rounds ended them, after the calling pass: no resolved call target; after the
\* prologue scan: no prologue.
PassesSettle ==
    ~AtCap =>
        /\ phase \in {"calling", "funcentries", "done"} =>
               \A va \in EmuCandidates : Defined(db, va) \/ va \notin img.good
        /\ phase = "funcentries" /\ pass = 0 /\ Range(entries) \subseteq tried =>
               \A va \in UNION {img.calls[f] : f \in Range(entries)} \cap DOMAIN img.code :
                  Defined(db, va)
        /\ phase = "done" /\ ~img.is64 /\ ~added => \A va \in Prologues : Defined(db, va)

\* The unbounded loop of the pointer pass ends, also when the function cap keeps
\* a candidate from ever being claimed.
PassesEnd == <>(phase = "done")
=============================================================================
