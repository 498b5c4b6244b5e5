---------------------- MODULE WorkspaceEmulatorProofs ----------------------
(***************************************************************************)
(* What the run loop of the discovery emulator promises, for every program *)
(* and every cap: a path sees its own stores only, a run that nothing cuts *)
(* short is exhaustive, and a candidate that looks good has a return.      *)
(***************************************************************************)
EXTENDS WorkspaceEmulator, FiniteSetTheorems, TLAPS

-----------------------------------------------------------------------------
(* Inductive invariants.                                                   *)

Path == [va : Nat, overlay : SUBSET Nat, trace : SUBSET Nat]

IsWatch(w) == w \in [hasret : BOOLEAN, badcode : BOOLEAN, count : Nat, dist : {w.dist}]

TypeInv ==
    /\ prog \in Programs /\ monitor \in {"watcher", "analysis", "target"}
    /\ phase \in {"pop", "run", "done"} /\ stop \in BOOLEAN /\ dropped \in BOOLEAN
    /\ steps \in Nat /\ todo \in Seq(Path) /\ pc \in Nat /\ overlay \subseteq Nat /\ trace \subseteq Nat
    /\ IsFiniteSet(DOMAIN hits) /\ hits \in [DOMAIN hits -> Nat \ {0}]
    /\ IsWatch(watch)

\* Every queued snapshot is the memory of its own path.
SnapInv ==
    /\ phase = "run" => overlay = trace
    /\ \A k \in DOMAIN todo : todo[k].overlay = todo[k].trace

\* The addresses still to be run: the queued ones and the one being run.
Pending == {todo[k].va : k \in DOMAIN todo} \cup (IF phase = "run" THEN {pc} ELSE {})

\* Only reachable addresses are run.
ReachInv == DOMAIN hits \subseteq Reach /\ Pending \cap Mapped \subseteq Reach

\* As long as nothing was refused, every way on from a visited address is visited or
\* pending.
CoverInv ==
    /\ stop => phase = "done"
    /\ phase = "done" /\ ~stop => todo = <<>>
    /\ ~stop /\ ~dropped =>
           /\ {Entry} \cap Mapped \subseteq DOMAIN hits \cup Pending
           /\ \A va \in DOMAIN hits : Steps(va) \cap Mapped \subseteq DOMAIN hits \cup Pending

\* The calls among the visited instructions whose targets become functions.
SeedCalls(S) == {v \in S : /\ prog[v] # Bad /\ prog[v].kind = "call"
                           /\ prog[v].to \in Exec \ {Entry} /\ prog[v].to # Next1(v)}

\* What the two simpler monitors know of the visited addresses.
MonitorInv ==
    /\ monitor = "analysis" => ~stop /\ seeds = {prog[va].to : va \in SeedCalls(DOMAIN hits)}
    /\ monitor = "target" =>
           IF stop THEN pc = Target /\ pc \in DOMAIN hits /\ prog[pc] # Bad
           ELSE Target \in DOMAIN hits => prog[Target] = Bad

Seen == {va \in DOMAIN hits : prog[va] # Bad}
Counted == {va \in Seen : prog[va].kind \notin {"out", "badop"}}

\* What the Watcher knows of them.
WatchInv ==
    monitor = "watcher" =>
        /\ watch.hasret => stop /\ pc \in Seen /\ prog[pc].kind = "ret"
        /\ ~stop \/ watch.hasret => Counted = Seen
        /\ ~watch.badcode => \A va \in Seen : prog[va].kind # "div0"

\* With one visit per address, the Watcher counts addresses, in all and by opcode.
ByName(C) == [mn \in {prog[va].mn : va \in C} |-> Cardinality({va \in C : prog[va].mn = mn})]
CountInv ==
    monitor = "watcher" => watch.count = Cardinality(Counted) /\ watch.dist = ByName(Counted)

-----------------------------------------------------------------------------
(* Operators: the least of a set of naturals, the distinct elements of a   *)
(* sequence, the queueing of several paths.                                *)

LEMMA LeastNatural ==
    ASSUME NEW S, S \subseteq Nat, S # {}
    PROVE  \E x \in S : \A y \in S : x =< y
<1>1. PICK x \in S : \A y \in S : ~(<<y, x>> \in OpToRel(<, Nat))
    BY NatLessThanWellFounded, WFMin
<1>2. \A y \in S : ~(y < x)
    BY <1>1 DEF OpToRel
<1> QED
    BY <1>2

\* Nth numbers a finite set of naturals from 1 in ascending order.
LEMMA NthNumbers ==
    ASSUME NEW S, S \subseteq Nat, IsFiniteSet(S)
    PROVE  /\ \A i \in 1..Cardinality(S) : Nth(S, i) \in S
           /\ \A k \in S : \E i \in 1..Cardinality(S) : Nth(S, i) = k
<1> DEFINE n == Cardinality(S)
           Below(k) == {j \in S : j =< k}
           rank == [k \in S |-> Cardinality(Below(k))]
<1>1. n \in Nat
    BY FS_CardinalityType
<1>2. \A k \in S : IsFiniteSet(Below(k)) /\ Cardinality(Below(k)) \in 1..n
    <2> TAKE k \in S
    <2>1. Below(k) \in SUBSET S /\ k \in Below(k)
        OBVIOUS
    <2>2. IsFiniteSet(Below(k)) /\ Cardinality(Below(k)) =< n
        BY <2>1, FS_Subset
    <2>3. Cardinality(Below(k)) \in Nat /\ Cardinality(Below(k)) # 0
        BY <2>1, <2>2, FS_CardinalityType, FS_EmptySet
    <2> QED
        BY <2>2, <2>3, <1>1
<1>3. \A k, m \in S : k < m => Cardinality(Below(k)) # Cardinality(Below(m))
    <2> SUFFICES ASSUME NEW k \in S, NEW m \in S, k < m,
                        Cardinality(Below(k)) = Cardinality(Below(m))
                 PROVE  FALSE
        OBVIOUS
    <2>1. k \in Nat /\ m \in Nat /\ \A j \in S : j \in Nat
        OBVIOUS
    <2>2. m =< m /\ ~(m =< k) /\ \A j \in S : j =< k => j =< m
        BY <2>1
    <2>3. Below(k) \in SUBSET Below(m) /\ m \in Below(m) /\ m \notin Below(k)
        BY <2>2
    <2> QED
        BY <1>2, <2>3, FS_Subset
<1>4. rank \in Injection(S, 1..n)
    <2>1. rank \in [S -> 1..n]
        BY <1>2
    <2>2. \A k, m \in S : rank[k] = rank[m] => k = m
        <3> SUFFICES ASSUME NEW k \in S, NEW m \in S, rank[k] = rank[m] PROVE k = m
            OBVIOUS
        <3>1. k \in Nat /\ m \in Nat /\ (k < m \/ m < k \/ k = m)
            OBVIOUS
        <3> QED
            BY <3>1, <1>3
    <2> QED
        BY <2>1, <2>2 DEF Injection, IsInjective
<1>5. rank \in Surjection(S, 1..n)
    <2>1. IsFiniteSet(1..n) /\ Cardinality(1..n) = n
        BY <1>1, FS_Interval
    <2> QED
        BY <1>4, <2>1, FS_Injection
<1>6. \A i \in 1..n : \E k \in S : Cardinality(Below(k)) = i
    BY <1>5 DEF Surjection
<1>7. \A i \in 1..n : Nth(S, i) \in S /\ Cardinality(Below(Nth(S, i))) = i
    BY <1>6 DEF Nth
<1>8. ASSUME NEW k \in S PROVE \E i \in 1..n : Nth(S, i) = k
    <2> DEFINE i == Cardinality(Below(k))
    <2>1. i \in 1..n
        BY <1>2
    <2>2. Nth(S, i) \in S /\ rank[Nth(S, i)] = rank[k]
        BY <1>7, <2>1
    <2>3. Nth(S, i) = k
        BY <2>2, <1>4 DEF Injection, IsInjective
    <2> QED
        BY <2>1, <2>3
<1> QED
    BY <1>7, <1>8

\* Distinct drops nothing but repetitions.
LEMMA DistinctKeeps ==
    ASSUME NEW s \in Seq(Nat)
    PROVE  Distinct(s) \in Seq(Nat) /\ ToSet(Distinct(s)) = ToSet(s)
<1> DEFINE F == FirstAt(s)
           n == Cardinality(F)
<1>1. F \subseteq 1..Len(s) /\ IsFiniteSet(F) /\ n \in Nat
    <2>1. F \in SUBSET (1..Len(s))
        BY DEF FirstAt
    <2>2. IsFiniteSet(1..Len(s))
        BY FS_Interval
    <2> QED
        BY <2>1, <2>2, FS_Subset, FS_CardinalityType
<1>2. /\ \A i \in 1..n : Nth(F, i) \in F
      /\ \A k \in F : \E i \in 1..n : Nth(F, i) = k
    BY <1>1, NthNumbers
<1>3. Distinct(s) = [i \in 1..n |-> s[Nth(F, i)]]
    BY DEF Distinct
<1> HIDE DEF n
<1>4. \A i \in 1..n : Nth(F, i) \in 1..Len(s) /\ s[Nth(F, i)] \in Nat
    BY <1>1, <1>2
<1>5. Distinct(s) \in Seq(Nat) /\ Len(Distinct(s)) = n
    BY <1>1, <1>3, <1>4
<1>6. \A k \in 1..Len(s) : \E m \in F : s[m] = s[k]
    <2> TAKE k \in 1..Len(s)
    <2> DEFINE Same == {j \in 1..Len(s) : s[j] = s[k]}
    <2>1. PICK m \in Same : \A j \in Same : m =< j
        <3>1. Same \subseteq Nat /\ k \in Same
            OBVIOUS
        <3> QED
            BY <3>1, LeastNatural
    <2>2. m \in F
        BY <2>1 DEF FirstAt
    <2> QED
        BY <2>1, <2>2
<1>7. ToSet(Distinct(s)) \subseteq ToSet(s)
    BY <1>3, <1>4, <1>5 DEF ToSet
<1>8. ToSet(s) \subseteq ToSet(Distinct(s))
    <2> SUFFICES ASSUME NEW k \in 1..Len(s) PROVE s[k] \in ToSet(Distinct(s))
        BY DEF ToSet
    <2>1. PICK m \in F : s[m] = s[k]
        BY <1>6
    <2>2. PICK i \in 1..n : Nth(F, i) = m
        BY <1>2
    <2> QED
        BY <2>1, <2>2, <1>3, <1>5 DEF ToSet
<1> QED
    BY <1>5, <1>7, <1>8

\* What can be queued is a sequence of addresses, with all the ways on in it.
LEMMA BranchesType ==
    ASSUME prog \in Programs, NEW va \in Mapped, prog[va] # Bad
    PROVE  Branches(va) \in Seq(Nat)
<1>1. /\ va \in Nat /\ prog[va].len \in Nat
      /\ prog[va].kind \in {"jcc", "jmp", "table", "call"} => prog[va].to \in Nat
      /\ prog[va].kind = "table" => prog[va].entries \in Seq(Nat)
    BY ProgramAssumption DEF Mapped
<1>2. \A ts \in Seq(Nat) : TableRun(ts) \in Seq(Nat)
    <2> TAKE ts \in Seq(Nat)
    <2> DEFINE bad == {k \in DOMAIN ts : ts[k] \notin Mapped}
    <2>1. CASE bad = {}
        BY <2>1 DEF TableRun
    <2>2. CASE bad # {}
        <3>0. bad \subseteq Nat
            OBVIOUS
        <3>1. \E x \in bad : \A y \in bad : x =< y
            BY <3>0, <2>2, LeastNatural
        <3>2. Min(bad) \in bad
            BY <3>1 DEF Min
        <3>3. Min(bad) \in 1..Len(ts)
            BY <3>2
        <3>4. TableRun(ts) = SubSeq(ts, 1, Min(bad) - 1)
            BY <2>2 DEF TableRun
        <3> HIDE DEF bad
        <3> QED
            BY <3>3, <3>4
    <2> QED
        BY <2>1, <2>2
<1>3. Next1(va) \in Nat
    BY <1>1 DEF Next1
<1> QED
    BY <1>1, <1>2, <1>3 DEF Branches

LEMMA CheckBranchesType ==
    ASSUME prog \in Programs, NEW va \in Mapped, prog[va] # Bad
    PROVE  /\ CheckBranches(va) \in Seq(Nat)
           /\ CheckBranches(va) # <<>> <=> Len(Branches(va)) >= 2
           /\ CheckBranches(va) # <<>> => ToSet(CheckBranches(va)) = ToSet(Branches(va))
<1>1. Branches(va) \in Seq(Nat)
    BY BranchesType
<1>2. Distinct(Branches(va)) \in Seq(Nat) /\ ToSet(Distinct(Branches(va))) = ToSet(Branches(va))
    BY <1>1, DistinctKeeps
<1>3. Len(Branches(va)) >= 2 => Distinct(Branches(va)) # <<>>
    <2> SUFFICES ASSUME Len(Branches(va)) >= 2, Distinct(Branches(va)) = <<>> PROVE FALSE
        OBVIOUS
    <2>1. Branches(va)[1] \in ToSet(Branches(va))
        BY <1>1 DEF ToSet
    <2>2. ToSet(Distinct(Branches(va))) = {}
        BY DEF ToSet
    <2> QED
        BY <1>2, <2>1, <2>2
<1> QED
    BY <1>1, <1>2, <1>3 DEF CheckBranches

LEMMA Concatenation ==
    ASSUME NEW S, NEW q \in Seq(S), NEW a \in Seq(S)
    PROVE  /\ q \o a \in Seq(S) /\ Len(q \o a) = Len(q) + Len(a)
           /\ \A k \in 1..Len(q) : (q \o a)[k] = q[k]
           /\ \A k \in 1..Len(a) : (q \o a)[Len(q) + k] = a[k]
OBVIOUS

LEMMA UpTo ==
    ASSUME NEW n \in Nat
    PROVE  IsFiniteSet(1..n) /\ Cardinality(1..n) = n
BY FS_Interval

\* The paths a fork adds: the first n of the addresses, all with one snapshot.
Paths(vas, o, t, n) == [k \in 1..n |-> [va |-> vas[k], overlay |-> o, trace |-> t]]

\* z is q with paths added, from the addresses only and to each of them if all.
Extends(z, q, vas, o, t, all) ==
    /\ z \in Seq(Path)
    /\ \A k \in DOMAIN q : \E m \in DOMAIN z : z[m] = q[k]
    /\ \A m \in DOMAIN z :
           \/ \E k \in DOMAIN q : z[m] = q[k]
           \/ \E k \in DOMAIN vas : z[m] = [va |-> vas[k], overlay |-> o, trace |-> t]
    /\ all => \A k \in DOMAIN vas : \E m \in DOMAIN z : z[m].va = vas[k]

LEMMA PathsAppended ==
    ASSUME NEW q \in Seq(Path), NEW vas \in Seq(Nat), NEW o \in SUBSET Nat, NEW t \in SUBSET Nat,
           NEW n \in 0..Len(vas)
    PROVE  Extends(q \o Paths(vas, o, t, n), q, vas, o, t, n = Len(vas))
<1>1. \A k \in 1..n : [va |-> vas[k], overlay |-> o, trace |-> t] \in Path
    BY DEF Path
<1>2. /\ Paths(vas, o, t, n) \in Seq(Path) /\ Len(Paths(vas, o, t, n)) = n
      /\ \A k \in 1..n : Paths(vas, o, t, n)[k] = [va |-> vas[k], overlay |-> o, trace |-> t]
    BY <1>1 DEF Paths
<1>3. PICK add \in Seq(Path) :
          /\ add = Paths(vas, o, t, n) /\ Len(add) = n
          /\ \A k \in 1..n : add[k] = [va |-> vas[k], overlay |-> o, trace |-> t]
    BY <1>2
<1>4. PICK z : z = q \o add
    OBVIOUS
<1>5. /\ z \in Seq(Path) /\ Len(z) = Len(q) + n
      /\ \A k \in 1..Len(q) : z[k] = q[k]
      /\ \A k \in 1..n : z[Len(q) + k] = add[k]
    <2>1. /\ q \o add \in Seq(Path) /\ Len(q \o add) = Len(q) + Len(add)
          /\ \A k \in 1..Len(q) : (q \o add)[k] = q[k]
          /\ \A k \in 1..Len(add) : (q \o add)[Len(q) + k] = add[k]
        BY SMT
    <2>2. Len(add) = n
        BY <1>3
    <2> QED
        BY <2>1, <2>2, <1>4
<1>6. /\ DOMAIN z = 1..(Len(q) + n) /\ DOMAIN q = 1..Len(q) /\ DOMAIN vas = 1..Len(vas)
      /\ Len(q) \in Nat /\ Len(vas) \in Nat /\ n \in Nat /\ n =< Len(vas)
    BY <1>5
<1>7. \A m \in DOMAIN z : m \in 1..Len(q) \/ \E k \in 1..n : m = Len(q) + k
    <2> TAKE m \in DOMAIN z
    <2>1. CASE m =< Len(q)
        BY <2>1, <1>6
    <2>2. CASE ~(m =< Len(q))
        <3>1. m - Len(q) \in 1..n /\ m = Len(q) + (m - Len(q))
            BY <2>2, <1>6
        <3> QED
            BY <3>1
    <2> QED
        BY <2>1, <2>2
<1>8. \A k \in DOMAIN q : k \in DOMAIN z /\ z[k] = q[k]
    BY <1>5, <1>6
<1>9. \A k \in 1..n : k \in DOMAIN vas /\ Len(q) + k \in DOMAIN z
    BY <1>6
<1>10. \A k \in 1..n : z[Len(q) + k] = [va |-> vas[k], overlay |-> o, trace |-> t]
    BY <1>3, <1>5
<1>11. \A m \in DOMAIN z :
          \/ \E k \in DOMAIN q : z[m] = q[k]
          \/ \E k \in DOMAIN vas : z[m] = [va |-> vas[k], overlay |-> o, trace |-> t]
    BY <1>6, <1>7, <1>8, <1>9, <1>10
<1>12. n = Len(vas) => \A k \in DOMAIN vas : \E m \in DOMAIN z : z[m].va = vas[k]
    <2> SUFFICES ASSUME n = Len(vas), NEW k \in DOMAIN vas
                 PROVE  \E m \in DOMAIN z : z[m].va = vas[k]
        OBVIOUS
    <2>1. k \in 1..n
        BY <1>6
    <2>2. Len(q) + k \in DOMAIN z
        BY <2>1, <1>9
    <2>3. z[Len(q) + k] = [va |-> vas[k], overlay |-> o, trace |-> t]
        BY <2>1, <1>10
    <2>4. z[Len(q) + k].va = vas[k]
        BY <2>3
    <2> QED
        BY <2>2, <2>4
<1> QED
    BY <1>3, <1>4, <1>5, <1>8, <1>11, <1>12 DEF Extends

\* Queueing keeps what is queued, adds paths with the given snapshot to the given
\* addresses only, and to all of them unless it says that one was refused.
LEMMA PushPathsAdds ==
    ASSUME NEW q \in Seq(Path), NEW cost, NEW vas \in Seq(Nat),
           NEW o \in SUBSET Nat, NEW t \in SUBSET Nat,
           NEW r, r = PushPaths(q, cost, vas, [overlay |-> o, trace |-> t])
    PROVE  r.full \in BOOLEAN /\ Extends(r.todo, q, vas, o, t, ~r.full)
<1> DEFINE Adm == {k \in DOMAIN vas : Admits(q, cost, [overlay |-> o, trace |-> t], k)}
<1>1. Cardinality(Adm) \in 0..Len(vas)
    <2>1. Len(vas) \in Nat /\ DOMAIN vas = 1..Len(vas)
        OBVIOUS
    <2>2. IsFiniteSet(DOMAIN vas) /\ Cardinality(DOMAIN vas) = Len(vas)
        BY <2>1, UpTo
    <2>3. Adm \in SUBSET DOMAIN vas
        OBVIOUS
    <2>4. IsFiniteSet(Adm) /\ Cardinality(Adm) =< Len(vas)
        BY <2>2, <2>3, FS_Subset
    <2> QED
        BY <2>1, <2>4, FS_CardinalityType
<1>2. PICK n \in 0..Len(vas) : r.todo = q \o Paths(vas, o, t, n) /\ r.full = (n # Len(vas))
    BY <1>1 DEF PushPaths, Paths
<1>3. Extends(q \o Paths(vas, o, t, n), q, vas, o, t, n = Len(vas))
    BY PathsAppended
<1>4. (n = Len(vas)) = ~r.full /\ r.full \in BOOLEAN
    BY <1>2
<1> QED
    BY <1>2, <1>3, <1>4

-----------------------------------------------------------------------------
(* The parts of the state and of the steps.                                *)

\* The reference does not change: the program does not.
LEMMA ReferenceFixed ==
    ASSUME prog' = prog
    PROVE  /\ Mapped' = Mapped /\ Reach' = Reach
           /\ \A va : Steps(va)' = Steps(va)
           /\ \A va : Next1(va)' = Next1(va)
<1>1. \A va : Next1(va)' = Next1(va)
    BY DEF Next1
<1>2. \A va : Branches(va)' = Branches(va)
    BY DEF Branches, Next1, TableRun, Mapped
<1>3. \A va : Steps(va)' = Steps(va)
    BY <1>1, <1>2 DEF Steps
<1>4. Mapped' = Mapped
    BY DEF Mapped
<1>5. \A S : Closed(S)' = Closed(S)
    BY <1>3, <1>4 DEF Closed
<1>6. Reach' = Reach
    BY <1>4, <1>5 DEF Reach
<1> QED
    BY <1>1, <1>3, <1>4, <1>6

\* Reach is closed, and within every closed set.
LEMMA ReachClosed ==
    /\ Reach \subseteq Mapped /\ Closed(Reach)
    /\ \A S \in SUBSET Mapped : Closed(S) => Reach \subseteq S
BY DEF Reach, Closed

\* A visit adds the address to the visited ones.
LEMMA VisitAdds ==
    ASSUME TypeInv, CountHit
    PROVE  /\ DOMAIN hits' = DOMAIN hits \cup {pc} /\ IsFiniteSet(DOMAIN hits')
           /\ hits' \in [DOMAIN hits' -> Nat \ {0}]
<1>1. DOMAIN hits' = DOMAIN hits \cup {pc}
    BY DEF CountHit
<1>2. \A va \in DOMAIN hits : hits[va] \in Nat \ {0}
    BY DEF TypeInv
<1>3. \A va \in DOMAIN hits' : hits'[va] \in Nat \ {0}
    BY <1>1, <1>2 DEF CountHit, Hits
<1>4. hits' = [va \in DOMAIN hits' |-> hits'[va]]
    BY DEF CountHit
<1>5. IsFiniteSet(DOMAIN hits')
    BY <1>1, FS_AddElement DEF TypeInv
<1> QED
    BY <1>1, <1>3, <1>4, <1>5

\* Recording an opcode touches the counts only.
LEMMA RecordFields ==
    ASSUME NEW w, IsWatch(w), NEW mn
    PROVE  /\ IsWatch(Record(w, mn))
           /\ Record(w, mn).hasret = w.hasret /\ Record(w, mn).badcode = w.badcode
           /\ Record(w, mn).count = w.count + 1
           /\ Record(w, mn).dist = Tally(w.dist, mn)
<1>1. w \in [hasret : BOOLEAN, badcode : BOOLEAN, count : Nat, dist : {w.dist}]
    BY DEF IsWatch
<1>2. /\ Record(w, mn).hasret = w.hasret /\ Record(w, mn).badcode = w.badcode
      /\ Record(w, mn).count = w.count + 1 /\ Record(w, mn).dist = Tally(w.dist, mn)
    BY <1>1 DEF Record
<1>3. Record(w, mn) \in [hasret : BOOLEAN, badcode : BOOLEAN, count : Nat,
                         dist : {Tally(w.dist, mn)}]
    <2>1. w.count + 1 \in Nat
        BY <1>1
    <2>2. \A n \in Nat : \A d : [w EXCEPT !.count = n, !.dist = d] \in
              [hasret : BOOLEAN, badcode : BOOLEAN, count : Nat, dist : {d}]
        BY <1>1
    <2> QED
        BY <2>1, <2>2 DEF Record
<1> QED
    BY <1>2, <1>3 DEF IsWatch

LEMMA HookType ==
    ASSUME TypeInv, Insn # Bad
    PROVE  IsWatch(Hook.w) /\ Hook.stop \in BOOLEAN
<1>1. IsWatch(Record(watch, Insn.mn)) /\ Record(watch, Insn.mn).badcode \in BOOLEAN
    <2>1. IsWatch(watch)
        BY DEF TypeInv
    <2>2. IsWatch(Record(watch, Insn.mn))
        BY <2>1, RecordFields
    <2> QED
        BY <2>2 DEF IsWatch
<1>2. IsWatch([Record(watch, Insn.mn) EXCEPT !.hasret = TRUE])
    <2>1. \A w : IsWatch(w) => IsWatch([w EXCEPT !.hasret = TRUE])
        BY DEF IsWatch
    <2> QED
        BY <1>1, <2>1
<1>3. IsWatch(Prehook(watch, Insn).w) /\ Prehook(watch, Insn).stop \in BOOLEAN
    BY <1>1, <1>2 DEF Prehook, TypeInv
<1> QED
    BY <1>3 DEF Hook, TypeInv

LEMMA InsnType ==
    ASSUME TypeInv, Decoded
    PROVE  /\ pc \in Mapped /\ prog[pc] # Bad /\ Insn = prog[pc] /\ Next1(pc) \in Nat
           /\ prog[pc].kind \in {"jcc", "jmp", "table", "call"} => prog[pc].to \in Nat
BY ProgramAssumption DEF TypeInv, Decoded, Running, Insn, Mapped, Next1

\* The run starts with the entry queued, on an empty overlay.
LEMMA EntryQueued ==
    ASSUME Init
    PROVE  /\ todo \in Seq(Path) /\ DOMAIN todo = {1}
           /\ todo[1] = [va |-> Entry, overlay |-> {}, trace |-> {}]
<1> DEFINE snap == [overlay |-> {}, trace |-> {}]
           first == [va |-> Entry, overlay |-> {}, trace |-> {}]
<1>1. Cardinality({}) = 0 /\ Len(<<>>) = 0 /\ DOMAIN <<Entry>> = {1} /\ snap.overlay = {}
    BY FS_EmptySet
<1>2. Admits(<<>>, 0, snap, 1)
    BY <1>1, EmuAssumption DEF Admits
<1>3. {k \in DOMAIN <<Entry>> : Admits(<<>>, 0, snap, k)} = {1}
    BY <1>1, <1>2
<1>4. Cardinality({k \in DOMAIN <<Entry>> : Admits(<<>>, 0, snap, k)}) = 1
    BY <1>3, FS_Singleton
<1>5. todo = <<>> \o [k \in 1..1 |-> [va |-> <<Entry>>[k], overlay |-> {}, trace |-> {}]]
    BY <1>4 DEF Init, PushPaths
<1>6. [k \in 1..1 |-> [va |-> <<Entry>>[k], overlay |-> {}, trace |-> {}]] = <<first>>
    OBVIOUS
<1>7. first \in Path
    BY ProgramAssumption DEF Path
<1>8. todo = <<first>>
    BY <1>5, <1>6, <1>7
<1> HIDE DEF first
<1>9. todo \in Seq(Path) /\ DOMAIN todo = {1} /\ todo[1] = first
    BY <1>7, <1>8
<1> QED
    BY <1>9 DEF first

LEMMA TypeInit == Init => TypeInv
<1> SUFFICES ASSUME Init PROVE TypeInv
    OBVIOUS
<1>1. IsFiniteSet(DOMAIN hits) /\ hits \in [DOMAIN hits -> Nat \ {0}]
    BY FS_EmptySet DEF Init
<1>2. IsWatch(watch)
    BY DEF Init, NoWatch, IsWatch
<1> QED
    BY <1>1, <1>2, EntryQueued, ProgramAssumption DEF Init, TypeInv

\* A fork leaves the queue as PushPathsAdds says.
LEMMA ForkAdds ==
    ASSUME TypeInv, ExecFork
    PROVE  /\ dropped' \in BOOLEAN /\ CheckBranches(pc) \in Seq(Nat)
           /\ Extends(todo', todo, CheckBranches(pc), overlay, trace, ~dropped')
           /\ ToSet(CheckBranches(pc)) = ToSet(Branches(pc)) /\ Len(Branches(pc)) >= 2
<1>1. pc \in Mapped /\ prog[pc] # Bad /\ CheckBranches(pc) # <<>>
    BY InsnType DEF ExecFork, Executes
<1>2. /\ CheckBranches(pc) \in Seq(Nat) /\ Len(Branches(pc)) >= 2
      /\ ToSet(CheckBranches(pc)) = ToSet(Branches(pc))
    BY <1>1, CheckBranchesType DEF TypeInv
<1>3. PICK r : r = PushPaths(todo, queued, CheckBranches(pc), Snap)
    OBVIOUS
<1>4. r.full \in BOOLEAN /\ Extends(r.todo, todo, CheckBranches(pc), overlay, trace, ~r.full)
    <2>1. r = PushPaths(todo, queued, CheckBranches(pc), [overlay |-> overlay, trace |-> trace])
        BY <1>3 DEF Snap
    <2> QED
        BY <2>1, <1>2, PushPathsAdds DEF TypeInv
<1>5. todo' = r.todo /\ dropped' = (dropped \/ r.full)
    BY <1>3 DEF ExecFork
<1>6. ~dropped' => ~r.full
    BY <1>4, <1>5
<1>7. Extends(todo', todo, CheckBranches(pc), overlay, trace, ~dropped')
    BY <1>4, <1>5, <1>6 DEF Extends
<1> QED
    BY <1>2, <1>4, <1>5, <1>7 DEF TypeInv

LEMMA TypeStep == TypeInv /\ [Next]_vars => TypeInv'
<1> SUFFICES ASSUME TypeInv, [Next]_vars PROVE TypeInv'
    OBVIOUS
<1>0. Decoded => IsWatch(Hook.w) /\ Hook.stop \in BOOLEAN
    BY HookType DEF Decoded
<1>1. CASE PopPath
    <2>1. /\ todo # <<>> /\ Last(todo) \in Path /\ Front(todo) \in Seq(Path)
        BY <1>1 DEF PopPath, TypeInv, Last, Front
    <2>2. Last(todo).va \in Nat /\ Last(todo).overlay \subseteq Nat /\ Last(todo).trace \subseteq Nat
        BY <2>1 DEF Path
    <2> QED
        BY <1>1, <2>1, <2>2 DEF PopPath, TypeInv
<1>2. CASE Finish
    BY <1>2 DEF Finish, TypeInv
<1>3. CASE EndPath
    BY <1>3, VisitAdds DEF EndPath, TypeInv
<1>4. CASE StopAtPrehook
    BY <1>4, <1>0, VisitAdds DEF StopAtPrehook, TypeInv
<1>5. CASE ExecTrap
    BY <1>5, <1>0, VisitAdds DEF ExecTrap, Executes, TypeInv
<1>6. CASE ExecDivideByZero
    <2>1. \A w : IsWatch(w) => IsWatch([w EXCEPT !.badcode = TRUE])
        BY DEF IsWatch
    <2>2. IsWatch(watch')
        BY <1>6, <1>0, <2>1 DEF ExecDivideByZero
    <2>3. stop' \in BOOLEAN /\ phase' \in {"pop", "done"} /\ steps' \in Nat
        <3>1. steps' \in Nat
            BY <1>6 DEF ExecDivideByZero, TypeInv
        <3>2. \/ stop' = TRUE /\ phase' = "done"
              \/ stop' = stop /\ phase' = "pop"
            BY <1>6, Zenon DEF ExecDivideByZero
        <3> QED
            BY <3>1, <3>2 DEF TypeInv
    <2> QED
        BY <1>6, <2>2, <2>3, VisitAdds DEF ExecDivideByZero, TypeInv
<1>7. CASE ExecCall
    BY <1>7, <1>0, VisitAdds, InsnType DEF ExecCall, Executes, TypeInv
<1>8. CASE ExecFork
    <2>1. todo' \in Seq(Path) /\ dropped' \in BOOLEAN
        BY <1>8, ForkAdds DEF Extends
    <2> QED
        BY <1>8, <2>1, <1>0, VisitAdds DEF ExecFork, Executes, TypeInv
<1>9. CASE ExecJump
    BY <1>9, <1>0, VisitAdds, InsnType DEF ExecJump, Executes, TypeInv
<1>10. CASE ExecReturn
    BY <1>10, <1>0, VisitAdds DEF ExecReturn, Executes, TypeInv
<1>11. CASE ExecPlain
    BY <1>11, <1>0, VisitAdds, InsnType DEF ExecPlain, Executes, TypeInv
<1>12. CASE UNCHANGED vars
    BY <1>12 DEF vars, TypeInv
<1> QED
    BY <1>1, <1>2, <1>3, <1>4, <1>5, <1>6, <1>7, <1>8, <1>9, <1>10, <1>11, <1>12 DEF Next

-----------------------------------------------------------------------------
(* Isolation of the paths.                                                 *)

\* What popping leaves was queued, and nothing queued is lost but the path taken.
LEMMA PopTakesLast ==
    ASSUME TypeInv, PopPath
    PROVE  /\ \E k \in DOMAIN todo : pc' = todo[k].va /\ overlay' = todo[k].overlay
                                     /\ trace' = todo[k].trace
           /\ \A m \in DOMAIN todo' : m \in DOMAIN todo /\ todo'[m] = todo[m]
           /\ \A k \in DOMAIN todo : todo[k].va = pc' \/ \E m \in DOMAIN todo' : todo'[m] = todo[k]
<1>1. PICK q \in Seq(Path) : q = todo /\ q # <<>> /\ todo' = Front(q)
    BY DEF PopPath, TypeInv
<1>2. Len(q) \in Nat /\ Len(q) >= 1 /\ Len(q) \in DOMAIN q /\ DOMAIN q = 1..Len(q)
    BY <1>1
<1>3. pc' = q[Len(q)].va /\ overlay' = q[Len(q)].overlay /\ trace' = q[Len(q)].trace
    BY <1>1 DEF PopPath, Last
<1>4. DOMAIN Front(q) = 1..(Len(q) - 1) /\ \A m \in 1..(Len(q) - 1) : Front(q)[m] = q[m]
    BY <1>1, <1>2 DEF Front
<1>5. \A k \in DOMAIN q : k = Len(q) \/ k \in 1..(Len(q) - 1)
    BY <1>2
<1>6. \A m \in 1..(Len(q) - 1) : m \in DOMAIN q
    BY <1>2
<1> QED
    BY <1>1, <1>2, <1>3, <1>4, <1>5, <1>6

LEMMA SnapStep == TypeInv /\ SnapInv /\ [Next]_vars => SnapInv'
<1> SUFFICES ASSUME TypeInv, SnapInv, [Next]_vars PROVE SnapInv'
    OBVIOUS
<1>1. CASE PopPath
    BY <1>1, PopTakesLast DEF PopPath, SnapInv
<1>2. CASE Finish \/ EndPath \/ StopAtPrehook \/ ExecTrap \/ ExecDivideByZero \/ ExecReturn
    BY <1>2 DEF Finish, EndPath, StopAtPrehook, ExecTrap, ExecDivideByZero, ExecReturn, SnapInv
<1>3. CASE ExecCall \/ ExecJump
    BY <1>3 DEF ExecCall, ExecJump, SnapInv
<1>4. CASE ExecFork
    <2>1. overlay = trace
        BY <1>4 DEF ExecFork, Executes, Decoded, Running, SnapInv
    <2>2. \A k \in DOMAIN todo' : todo'[k].overlay = todo'[k].trace
        <3> TAKE k \in DOMAIN todo'
        <3>1. \/ \E j \in DOMAIN todo : todo'[k] = todo[j]
              \/ \E j \in DOMAIN CheckBranches(pc) :
                    todo'[k] = [va |-> CheckBranches(pc)[j], overlay |-> overlay, trace |-> trace]
            BY <1>4, ForkAdds DEF Extends
        <3> QED
            BY <2>1, <3>1 DEF SnapInv
    <2> QED
        BY <1>4, <2>2 DEF ExecFork, SnapInv
<1>5. CASE ExecPlain
    BY <1>5 DEF ExecPlain, Executes, Decoded, Running, SnapInv
<1>6. CASE UNCHANGED vars
    BY <1>6 DEF vars, SnapInv
<1> QED
    BY <1>1, <1>2, <1>3, <1>4, <1>5, <1>6 DEF Next

LEMMA SnapInit == Init => SnapInv
<1> SUFFICES ASSUME Init PROVE SnapInv
    OBVIOUS
<1>1. \A k \in DOMAIN todo : todo[k].overlay = {} /\ todo[k].trace = {}
    BY EntryQueued
<1> QED
    BY <1>1 DEF Init, SnapInv

\* A path of run_function runs with exactly the stores made on its own way from the
\* entry, whatever was queued and run between.
THEOREM PathsAreIsolated == Spec => []PathIsolated
<1>1. TypeInv /\ SnapInv /\ [Next]_vars => (TypeInv /\ SnapInv)'
    BY TypeStep, SnapStep
<1>2. SnapInv => PathIsolated
    BY DEF SnapInv, PathIsolated
<1> QED
    BY <1>1, <1>2, TypeInit, SnapInit, PTL DEF Spec

-----------------------------------------------------------------------------
(* Exhaustiveness.                                                         *)

\* Where control goes from the instruction about to be executed.
LEMMA StepsFromHere ==
    ASSUME TypeInv, Decoded
    PROVE  /\ Insn.kind \in {"trap", "out", "exit", "div0", "ret"} => Steps(pc) = {}
           /\ Insn.kind = "call" => Steps(pc) = {Next1(pc)}
           /\ Insn.kind \in {"plain", "store", "badop"} => Steps(pc) = {Next1(pc)}
           /\ Insn.kind \in {"jmp", "table"} /\ CheckBranches(pc) = <<>> => Steps(pc) = {Insn.to}
           /\ Insn.kind \in {"jcc", "table"} /\ CheckBranches(pc) # <<>> =>
                  Steps(pc) = ToSet(CheckBranches(pc))
<1>1. pc \in Mapped /\ prog[pc] # Bad /\ Insn = prog[pc]
    BY InsnType
<1>2. /\ CheckBranches(pc) # <<>> <=> Len(Branches(pc)) >= 2
      /\ CheckBranches(pc) # <<>> => ToSet(CheckBranches(pc)) = ToSet(Branches(pc))
      /\ Len(Branches(pc)) \in Nat
    BY <1>1, CheckBranchesType, BranchesType DEF TypeInv
<1>3. \A x : ToSet(<<x>>) = {x}
    BY DEF ToSet
<1>4. Insn.kind \in {"trap", "out", "exit", "div0", "ret"} => Steps(pc) = {}
    BY <1>1 DEF Steps
<1>5. Insn.kind = "call" => Steps(pc) = {Next1(pc)}
    BY <1>1 DEF Steps
<1>6. Insn.kind \in {"plain", "store", "badop"} => Steps(pc) = {Next1(pc)}
    <2>1. Insn.kind \in {"plain", "store", "badop"} => Branches(pc) = <<Next1(pc)>>
        BY <1>1 DEF Branches
    <2> QED
        BY <1>1, <1>3, <2>1 DEF Steps
<1>7. Insn.kind = "jmp" => Steps(pc) = {Insn.to}
    <2>1. Insn.kind = "jmp" => Branches(pc) = <<Insn.to>>
        BY <1>1 DEF Branches
    <2> QED
        BY <1>1, <1>3, <2>1 DEF Steps
<1>8. Insn.kind = "table" /\ CheckBranches(pc) = <<>> => Steps(pc) = {Insn.to}
    BY <1>1, <1>2 DEF Steps
<1>9. Insn.kind \in {"jcc", "table"} /\ CheckBranches(pc) # <<>> =>
          Steps(pc) = ToSet(CheckBranches(pc))
    BY <1>1, <1>2 DEF Steps
<1> QED
    BY <1>4, <1>5, <1>6, <1>7, <1>8, <1>9

QueuedVas == {todo[k].va : k \in DOMAIN todo}

\* What a step does to the visited and the pending addresses, in four shapes.
Visit == DOMAIN hits' = DOMAIN hits \cup {pc} /\ pc \in Mapped
Take == /\ phase # "run" /\ phase' = "run" /\ hits' = hits
        /\ pc' \in QueuedVas /\ QueuedVas' \subseteq QueuedVas /\ QueuedVas \subseteq QueuedVas' \cup {pc'}
Leave == /\ phase = "run" /\ phase' # "run" /\ QueuedVas' = QueuedVas
         /\ \/ Visit /\ (Steps(pc) = {} \/ pc \in DOMAIN hits)
            \/ hits' = hits /\ (pc \notin Mapped \/ dropped')
            \/ Visit /\ stop'
Follow == /\ phase = "run" /\ phase' = "run" /\ Visit /\ Steps(pc) = {pc'}
          /\ QueuedVas' = QueuedVas
Fork == /\ phase = "run" /\ phase' # "run" /\ Visit
        /\ QueuedVas \subseteq QueuedVas' /\ QueuedVas' \subseteq QueuedVas \cup Steps(pc)
        /\ ~dropped' => Steps(pc) \subseteq QueuedVas'
Rest == phase # "run" /\ phase' # "run" /\ hits' = hits /\ QueuedVas' = QueuedVas

LEMMA StepShapes ==
    ASSUME TypeInv, Next
    PROVE  /\ prog' = prog /\ monitor' = monitor /\ (dropped => dropped')
           /\ phase # "done" /\ (phase' # "done" => stop' = stop)
           /\ phase' = "done" /\ stop' = stop => todo' = <<>> \/ stop
           /\ Take \/ Leave \/ Follow \/ Fork \/ Rest
<1>0. /\ CountHit => DOMAIN hits' = DOMAIN hits \cup {pc}
      /\ Decoded => pc \in Mapped /\ phase = "run"
    BY VisitAdds DEF Decoded, Running
<1>1. CASE PopPath
    <2>1. phase = "pop" /\ phase' = "run" /\ hits' = hits /\ UNCHANGED <<prog, monitor, stop, dropped>>
        BY <1>1 DEF PopPath
    <2>2. /\ pc' \in QueuedVas /\ QueuedVas' \subseteq QueuedVas
          /\ QueuedVas \subseteq QueuedVas' \cup {pc'}
        BY <1>1, PopTakesLast DEF QueuedVas
    <2> QED
        BY <2>1, <2>2 DEF Take
<1>2. CASE Finish
    BY <1>2 DEF Finish, Rest, QueuedVas
<1>3. CASE EndPath
    <2>1. phase = "run" /\ phase' = "pop" /\ UNCHANGED <<prog, monitor, stop, todo>>
        BY <1>3 DEF EndPath
    <2>2. (dropped => dropped') /\ (steps >= MaxEmuSteps => dropped')
        BY <1>3 DEF EndPath
    <2>3. CASE Running
        <3>1. Visit
            BY <1>3, <2>3, <1>0 DEF EndPath, Visit, Running
        <3>2. ~(Hits(pc) < MaxHit) \/ Insn = Bad
            BY <1>3, <2>3 DEF EndPath, Decoded
        <3>3. ~(Hits(pc) < MaxHit) => pc \in DOMAIN hits
            BY EmuAssumption DEF Hits
        <3>4. Insn = Bad => Steps(pc) = {}
            BY DEF Insn, Steps
        <3> QED
            BY <2>1, <2>2, <3>1, <3>2, <3>3, <3>4 DEF Leave, QueuedVas
    <2>4. CASE ~Running
        <3>1. hits' = hits
            BY <1>3, <2>4 DEF EndPath
        <3>2. pc \notin Mapped \/ dropped'
            <4>1. ~(steps < MaxEmuSteps) \/ pc \notin Mapped
                BY <2>1, <2>4 DEF Running
            <4>2. ~(steps < MaxEmuSteps) => steps >= MaxEmuSteps
                BY EmuAssumption DEF TypeInv
            <4> QED
                BY <4>1, <4>2, <2>2
        <3> QED
            BY <2>1, <2>2, <3>1, <3>2 DEF Leave, QueuedVas
    <2> QED
        BY <2>3, <2>4
<1>4. CASE StopAtPrehook
    BY <1>4, <1>0 DEF StopAtPrehook, Leave, Visit, QueuedVas
<1>5. CASE ExecTrap \/ ExecReturn
    <2>1. Decoded /\ Steps(pc) = {}
        BY <1>5, StepsFromHere DEF ExecTrap, ExecReturn, Executes
    <2> QED
        BY <1>5, <1>0, <2>1 DEF ExecTrap, ExecReturn, Executes, Leave, Visit, QueuedVas
<1>6. CASE ExecDivideByZero
    <2>1. Decoded /\ Steps(pc) = {}
        BY <1>6, StepsFromHere DEF ExecDivideByZero
    <2> QED
        BY <1>6, <1>0, <2>1 DEF ExecDivideByZero, Leave, Visit, QueuedVas
<1>7. CASE ExecCall \/ ExecJump \/ ExecPlain
    <2>1. Decoded /\ Steps(pc) = {pc'}
        BY <1>7, StepsFromHere DEF ExecCall, ExecJump, ExecPlain, Executes
    <2> QED
        BY <1>7, <1>0, <2>1 DEF ExecCall, ExecJump, ExecPlain, Executes, Follow, Visit, QueuedVas
<1>8. CASE ExecFork
    <2>1. Decoded /\ Steps(pc) = ToSet(CheckBranches(pc))
        BY <1>8, StepsFromHere DEF ExecFork, Executes
    <2>2. /\ CheckBranches(pc) \in Seq(Nat)
          /\ Extends(todo', todo, CheckBranches(pc), overlay, trace, ~dropped')
        BY <1>8, ForkAdds
    <2>3. \A k \in DOMAIN CheckBranches(pc) : CheckBranches(pc)[k] \in Steps(pc)
        BY <2>1, <2>2 DEF ToSet
    <2>4. QueuedVas' \subseteq QueuedVas \cup Steps(pc)
        <3> SUFFICES ASSUME NEW m \in DOMAIN todo' PROVE todo'[m].va \in QueuedVas \cup Steps(pc)
            BY DEF QueuedVas
        <3>1. \/ \E k \in DOMAIN todo : todo'[m] = todo[k]
              \/ \E k \in DOMAIN CheckBranches(pc) :
                    todo'[m] = [va |-> CheckBranches(pc)[k], overlay |-> overlay, trace |-> trace]
            BY <2>2 DEF Extends
        <3> QED
            BY <3>1, <2>3 DEF QueuedVas
    <2>5. QueuedVas \subseteq QueuedVas'
        BY <2>2 DEF QueuedVas, Extends
    <2>6. ~dropped' => Steps(pc) \subseteq QueuedVas'
        <3> SUFFICES ASSUME ~dropped', NEW x \in ToSet(CheckBranches(pc)) PROVE x \in QueuedVas'
            BY <2>1
        <3>1. PICK k \in DOMAIN CheckBranches(pc) : x = CheckBranches(pc)[k]
            BY DEF ToSet
        <3>2. \E m \in DOMAIN todo' : todo'[m].va = CheckBranches(pc)[k]
            BY <2>2 DEF Extends
        <3> QED
            BY <3>1, <3>2 DEF QueuedVas
    <2> QED
        BY <1>8, <1>0, <2>1, <2>4, <2>5, <2>6 DEF ExecFork, Executes, Fork, Visit
<1> QED
    BY <1>1, <1>2, <1>3, <1>4, <1>5, <1>6, <1>7, <1>8 DEF Next

LEMMA ReachStep == TypeInv /\ ReachInv /\ [Next]_vars => ReachInv'
<1> SUFFICES ASSUME TypeInv, ReachInv, [Next]_vars PROVE ReachInv'
    OBVIOUS
<1>1. CASE Next
    <2>1. prog' = prog /\ (Take \/ Leave \/ Follow \/ Fork \/ Rest)
        BY <1>1, StepShapes
    <2>2. Mapped' = Mapped /\ Reach' = Reach
        BY <2>1, ReferenceFixed
    <2>3. \A va \in Reach : Steps(va) \cap Mapped \subseteq Reach
        BY ReachClosed DEF Closed
    <2>4. /\ DOMAIN hits \subseteq Reach /\ QueuedVas \cap Mapped \subseteq Reach
          /\ phase = "run" /\ pc \in Mapped => pc \in Reach
        BY DEF ReachInv, Pending, QueuedVas
    <2>5. /\ DOMAIN hits' \subseteq Reach /\ QueuedVas' \cap Mapped \subseteq Reach
          /\ phase' = "run" /\ pc' \in Mapped => pc' \in Reach
        BY <2>1, <2>3, <2>4 DEF Take, Leave, Follow, Fork, Rest, Visit
    <2> QED
        BY <2>2, <2>5 DEF ReachInv, Pending, QueuedVas
<1>2. CASE UNCHANGED vars
    <2>1. Mapped' = Mapped /\ Reach' = Reach /\ UNCHANGED <<hits, todo, phase, pc>>
        BY <1>2, ReferenceFixed DEF vars
    <2> QED
        BY <2>1 DEF ReachInv, Pending
<1> QED
    BY <1>1, <1>2

LEMMA CoverStep == TypeInv /\ CoverInv /\ [Next]_vars => CoverInv'
<1> SUFFICES ASSUME TypeInv, CoverInv, [Next]_vars PROVE CoverInv'
    OBVIOUS
<1>1. CASE Next
    <2>1. /\ prog' = prog /\ (dropped => dropped') /\ phase # "done"
          /\ (phase' # "done" => stop' = stop)
          /\ phase' = "done" /\ stop' = stop => todo' = <<>> \/ stop
          /\ Take \/ Leave \/ Follow \/ Fork \/ Rest
        BY <1>1, StepShapes
    <2>2. Mapped' = Mapped /\ \A va : Steps(va)' = Steps(va)
        BY <2>1, ReferenceFixed
    <2>3. stop = FALSE /\ stop' \in BOOLEAN
        BY <2>1, TypeStep DEF CoverInv, TypeInv
    <2>4. (stop' => phase' = "done") /\ (phase' = "done" /\ ~stop' => todo' = <<>>)
        BY <2>1, <2>3
    <2> DEFINE D == DOMAIN hits
               P == QueuedVas \cup (IF phase = "run" THEN {pc} ELSE {})
               P1 == QueuedVas' \cup (IF phase' = "run" THEN {pc'} ELSE {})
    <2>5. ASSUME ~stop', ~dropped'
          PROVE  /\ {Entry} \cap Mapped \subseteq DOMAIN hits' \cup P1
                 /\ \A va \in DOMAIN hits' : Steps(va) \cap Mapped \subseteq DOMAIN hits' \cup P1
        <3>1. /\ {Entry} \cap Mapped \subseteq D \cup P
              /\ \A va \in D : Steps(va) \cap Mapped \subseteq D \cup P
            BY <2>1, <2>3, <2>5 DEF CoverInv, Pending, QueuedVas
        <3>2. (D \cup P) \cap Mapped \subseteq DOMAIN hits' \cup P1
            BY <2>1, <2>5 DEF Take, Leave, Follow, Fork, Rest, Visit
        <3>3. \A va \in DOMAIN hits' : va \in D \/ Steps(va) \cap Mapped \subseteq P1
            BY <2>1, <2>5 DEF Take, Leave, Follow, Fork, Rest, Visit
        <3> QED
            BY <3>1, <3>2, <3>3
    <2> QED
        BY <2>2, <2>4, <2>5 DEF CoverInv, Pending, QueuedVas
<1>2. CASE UNCHANGED vars
    <2>1. /\ Mapped' = Mapped /\ (\A va : Steps(va)' = Steps(va))
          /\ UNCHANGED <<hits, todo, phase, pc, stop, dropped>>
        BY <1>2, ReferenceFixed DEF vars
    <2> QED
        BY <2>1 DEF CoverInv, Pending
<1> QED
    BY <1>1, <1>2

LEMMA CoverInit == Init => ReachInv /\ CoverInv
<1> SUFFICES ASSUME Init PROVE ReachInv /\ CoverInv
    OBVIOUS
<1>1. Pending = {Entry} /\ DOMAIN hits = {} /\ stop = FALSE /\ phase = "pop"
    <2>1. DOMAIN todo = {1} /\ todo[1].va = Entry
        BY EntryQueued
    <2>2. phase = "pop" /\ stop = FALSE /\ DOMAIN hits = {}
        BY DEF Init
    <2> QED
        BY <2>1, <2>2 DEF Pending
<1>2. {Entry} \cap Mapped \subseteq Reach
    BY ReachClosed DEF Closed
<1> QED
    BY <1>1, <1>2 DEF ReachInv, CoverInv

\* A path that ends without executing leaves no new instruction visited.
LEMMA EndVisitsNothingNew ==
    ASSUME TypeInv, EndPath
    PROVE  \/ hits' = hits
           \/ DOMAIN hits' = DOMAIN hits \cup {pc} /\ (pc \in DOMAIN hits \/ prog[pc] = Bad)
<1>1. CASE ~Running
    BY <1>1 DEF EndPath
<1>2. CASE Running
    <2>1. DOMAIN hits' = DOMAIN hits \cup {pc}
        BY <1>2, VisitAdds DEF EndPath
    <2>2. ~(Hits(pc) < MaxHit) \/ prog[pc] = Bad
        BY <1>2 DEF EndPath, Decoded, Insn
    <2>3. ~(Hits(pc) < MaxHit) => pc \in DOMAIN hits
        BY EmuAssumption DEF Hits
    <2> QED
        BY <2>1, <2>2, <2>3
<1> QED
    BY <1>1, <1>2

LEMMA MonitorStep == TypeInv /\ CoverInv /\ MonitorInv /\ [Next]_vars => MonitorInv'
<1> SUFFICES ASSUME TypeInv, CoverInv, MonitorInv, [Next]_vars PROVE MonitorInv'
    OBVIOUS
<1>1. CASE PopPath \/ Finish
    <2>1. /\ UNCHANGED <<prog, monitor, hits, seeds, stop>> /\ phase = "pop"
        BY <1>1 DEF PopPath, Finish
    <2>2. stop = FALSE
        BY <2>1 DEF CoverInv, TypeInv
    <2> QED
        BY <2>1, <2>2 DEF MonitorInv, SeedCalls, Next1
<1>2. CASE EndPath
    <2>1. UNCHANGED <<prog, monitor, seeds, stop>> /\ phase = "run"
        BY <1>2 DEF EndPath
    <2>2. stop = FALSE
        BY <2>1 DEF CoverInv, TypeInv
    <2>3. \/ hits' = hits
          \/ DOMAIN hits' = DOMAIN hits \cup {pc} /\ (pc \in DOMAIN hits \/ prog[pc] = Bad)
        BY <1>2, EndVisitsNothingNew
    <2>4. SeedCalls(DOMAIN hits)' = SeedCalls(DOMAIN hits)
        BY <2>1, <2>3 DEF SeedCalls, Next1
    <2>5. Target \in DOMAIN hits' => Target \in DOMAIN hits \/ prog[Target] = Bad
        BY <2>3
    <2> QED
        BY <2>1, <2>2, <2>4, <2>5 DEF MonitorInv
<1>3. CASE StopAtPrehook
    <2>1. UNCHANGED <<prog, monitor, pc>> /\ Decoded /\ Hook.stop /\ stop' = TRUE
        BY <1>3 DEF StopAtPrehook
    <2>2. pc \in DOMAIN hits' /\ prog[pc] # Bad
        BY <1>3, <2>1, VisitAdds, InsnType DEF StopAtPrehook
    <2>3. monitor # "analysis" /\ (monitor = "target" => pc = Target)
        BY <2>1 DEF Hook
    <2> QED
        BY <2>1, <2>2, <2>3 DEF MonitorInv
<1>4. ASSUME Decoded, ~Hook.stop, CountHit, prog' = prog, monitor' = monitor,
             monitor # "watcher" => stop' = stop,
             seeds' = IF Insn.kind = "call" /\ monitor = "analysis"
                      THEN Apicall(seeds, pc, Insn.to) ELSE seeds
      PROVE  MonitorInv'
    <2>1. /\ DOMAIN hits' = DOMAIN hits \cup {pc} /\ Insn = prog[pc] /\ prog[pc] # Bad
        BY <1>4, VisitAdds, InsnType
    <2>2. stop = FALSE
        BY <1>4 DEF CoverInv, TypeInv, Decoded, Running
    <2>3. monitor = "target" => pc # Target
        BY <1>4 DEF Hook
    <2>4. monitor = "target" => (Target \in DOMAIN hits' => prog'[Target] = Bad) /\ stop' = FALSE
        BY <1>4, <2>1, <2>2, <2>3 DEF MonitorInv
    <2>5. ASSUME monitor = "analysis"
          PROVE  seeds' = {prog[va].to : va \in SeedCalls(DOMAIN hits \cup {pc})}
        <3>1. seeds = {prog[va].to : va \in SeedCalls(DOMAIN hits)}
            BY <2>5 DEF MonitorInv
        <3>2. CASE pc \in SeedCalls(DOMAIN hits \cup {pc})
            <4>1. seeds' = seeds \cup {prog[pc].to}
                BY <1>4, <2>1, <2>5, <3>2 DEF SeedCalls, Apicall
            <4>2. SeedCalls(DOMAIN hits \cup {pc}) = SeedCalls(DOMAIN hits) \cup {pc}
                BY <3>2 DEF SeedCalls
            <4> QED
                BY <3>1, <4>1, <4>2
        <3>3. CASE pc \notin SeedCalls(DOMAIN hits \cup {pc})
            <4>1. seeds' = seeds
                BY <1>4, <2>1, <2>5, <3>3 DEF SeedCalls, Apicall
            <4>2. SeedCalls(DOMAIN hits \cup {pc}) = SeedCalls(DOMAIN hits)
                BY <3>3 DEF SeedCalls
            <4> QED
                BY <3>1, <4>1, <4>2
        <3> QED
            BY <3>2, <3>3
    <2>6. SeedCalls(DOMAIN hits)' = SeedCalls(DOMAIN hits \cup {pc})
        BY <1>4, <2>1 DEF SeedCalls, Next1
    <2> QED
        BY <1>4, <2>2, <2>4, <2>5, <2>6 DEF MonitorInv
<1>5. CASE ExecTrap
    BY <1>4, <1>5 DEF ExecTrap, Executes
<1>6. CASE ExecDivideByZero
    <2>1. monitor # "watcher" => stop' = stop
        BY <1>6, Zenon DEF ExecDivideByZero
    <2> QED
        BY <1>4, <1>6, <2>1 DEF ExecDivideByZero
<1>7. CASE ExecCall
    BY <1>4, <1>7 DEF ExecCall, Executes
<1>8. CASE ExecFork
    BY <1>4, <1>8 DEF ExecFork, Executes
<1>9. CASE ExecJump
    BY <1>4, <1>9 DEF ExecJump, Executes
<1>10. CASE ExecReturn
    BY <1>4, <1>10 DEF ExecReturn, Executes
<1>11. CASE ExecPlain
    BY <1>4, <1>11 DEF ExecPlain, Executes
<1>12. CASE UNCHANGED vars
    BY <1>12 DEF vars, MonitorInv, SeedCalls, Next1
<1> QED
    BY <1>1, <1>2, <1>3, <1>5, <1>6, <1>7, <1>8, <1>9, <1>10, <1>11, <1>12 DEF Next

LEMMA MonitorInit == Init => MonitorInv
<1> SUFFICES ASSUME Init PROVE MonitorInv
    OBVIOUS
<1>1. DOMAIN hits = {} /\ seeds = {} /\ stop = FALSE
    BY DEF Init
<1>2. SeedCalls(DOMAIN hits) = {}
    BY <1>1 DEF SeedCalls
<1> QED
    BY <1>1, <1>2 DEF MonitorInv

\* Nothing pending and every way on covered: all that can be reached was visited.
LEMMA CoveredIsReach ==
    ASSUME ReachInv, CoverInv, phase = "done", ~stop, ~dropped
    PROVE  DOMAIN hits = Reach
<1>1. Pending = {}
    BY DEF CoverInv, Pending
<1>2. Closed(DOMAIN hits) /\ DOMAIN hits \in SUBSET Mapped
    BY <1>1, ReachClosed DEF CoverInv, Closed, ReachInv
<1> QED
    BY <1>2, ReachClosed DEF ReachInv

\* A run of run_function that no cap and no monitor cut short has visited exactly
\* what control can reach from the entry, whatever the program, the caps and the
\* number of visits allowed; AnalysisMonitor then has exactly the call targets that
\* are to become functions, and the search for an address finds it exactly when
\* control can reach it.
THEOREM RunIsExhaustive == Spec => []Exhaustive
<1> DEFINE I == TypeInv /\ ReachInv /\ CoverInv /\ MonitorInv
<1>1. Init => I
    BY TypeInit, CoverInit, MonitorInit
<1>2. I /\ [Next]_vars => I'
    BY TypeStep, ReachStep, CoverStep, MonitorStep
<1>3. I => Exhaustive
    <2> SUFFICES ASSUME I, phase = "done", ~stop \/ monitor = "target", ~dropped
                 PROVE  /\ ~stop => DOMAIN hits = Reach
                        /\ monitor = "target" => (stop <=> Target \in Reach /\ prog[Target] # Bad)
                        /\ monitor = "analysis" =>
                               seeds = {prog[va].to : va \in SeedCalls(Reach)}
        BY DEF Exhaustive, SeedCalls
    <2>1. ~stop => DOMAIN hits = Reach
        BY CoveredIsReach
    <2>2. monitor = "target" /\ stop => Target \in Reach /\ prog[Target] # Bad
        BY DEF MonitorInv, ReachInv
    <2>3. monitor = "target" /\ ~stop => ~(Target \in Reach /\ prog[Target] # Bad)
        BY <2>1 DEF MonitorInv
    <2>4. monitor = "analysis" => seeds = {prog[va].to : va \in SeedCalls(Reach)}
        BY <2>1 DEF MonitorInv
    <2> QED
        BY <2>1, <2>2, <2>3, <2>4
<1> QED
    BY <1>1, <1>2, <1>3, PTL DEF Spec

-----------------------------------------------------------------------------
(* The Watcher's verdict.                                                  *)

\* What the Watcher has and does after a hook on an instruction that decodes.
LEMMA PrehookCases ==
    ASSUME TypeInv, Decoded, monitor = "watcher"
    PROVE  /\ Hook.stop <=> Insn.kind \in {"out", "badop", "exit", "ret"}
           /\ Hook.w.badcode = watch.badcode
           /\ Hook.w.hasret = (watch.hasret \/ Insn.kind = "ret")
           /\ Insn.kind \in {"out", "badop"} => Hook.w = watch
           /\ Insn.kind \notin {"out", "badop"} =>
                  Hook.w.count = watch.count + 1 /\ Hook.w.dist = Tally(watch.dist, Insn.mn)
<1>1. PICK r : r = Record(watch, Insn.mn)
    OBVIOUS
<1>2. /\ IsWatch(r) /\ r.hasret = watch.hasret /\ r.badcode = watch.badcode
      /\ r.count = watch.count + 1 /\ r.dist = Tally(watch.dist, Insn.mn)
      /\ watch.hasret \in BOOLEAN
    BY <1>1, RecordFields DEF TypeInv, IsWatch
<1>3. PICK e : e = [r EXCEPT !.hasret = TRUE]
    OBVIOUS
<1>4. e.hasret = TRUE /\ e.badcode = r.badcode /\ e.count = r.count /\ e.dist = r.dist
    BY <1>2, <1>3 DEF IsWatch
<1>5. Hook = CASE Insn.kind \in {"out", "badop"} -> [w |-> watch, stop |-> TRUE]
               [] Insn.kind = "exit" -> [w |-> r, stop |-> TRUE]
               [] Insn.kind = "ret" -> [w |-> e, stop |-> TRUE]
               [] OTHER -> [w |-> r, stop |-> FALSE]
    BY <1>1, <1>3 DEF Hook, Prehook
<1>6. CASE Insn.kind \in {"out", "badop"}
    <2>1. Hook = [w |-> watch, stop |-> TRUE]
        BY <1>5, <1>6
    <2> QED
        BY <2>1, <1>2, <1>6
<1>7. CASE Insn.kind = "exit"
    <2>1. Hook = [w |-> r, stop |-> TRUE]
        BY <1>5, <1>7
    <2> QED
        BY <2>1, <1>2, <1>7
<1>8. CASE Insn.kind = "ret"
    <2>1. Hook = [w |-> e, stop |-> TRUE]
        BY <1>5, <1>8
    <2> QED
        BY <2>1, <1>2, <1>4, <1>8
<1>9. CASE Insn.kind \notin {"out", "badop", "exit", "ret"}
    <2>1. Hook = [w |-> r, stop |-> FALSE]
        BY <1>5, <1>9
    <2> QED
        BY <2>1, <1>2, <1>9
<1> QED
    BY <1>6, <1>7, <1>8, <1>9

\* How a step changes what the Watcher has seen: not at all, by the instruction at pc
\* as the hook left it, or by that and a division by zero.
Heard(w) == \/ watch' = w /\ prog[pc].kind # "div0"
            \/ watch' = [w EXCEPT !.badcode = TRUE]

LEMMA WatcherSteps ==
    ASSUME TypeInv, CoverInv, Next, monitor = "watcher"
    PROVE  /\ prog' = prog /\ monitor' = monitor /\ stop = FALSE
           /\ \/ watch' = watch /\ stop' = FALSE /\ Seen' = Seen
              \/ /\ Decoded /\ Heard(Hook.w) /\ (Hook.stop => stop' = TRUE /\ pc' = pc)
                 /\ Seen' = Seen \cup {pc}
<1>1. prog' = prog /\ monitor' = monitor /\ stop = FALSE
    BY StepShapes DEF CoverInv, TypeInv
<1>2. CASE PopPath \/ Finish
    BY <1>1, <1>2 DEF PopPath, Finish, Seen
<1>3. CASE EndPath
    <2>1. watch' = watch /\ stop' = stop
        BY <1>3 DEF EndPath
    <2>2. Seen' = Seen
        BY <1>1, <1>3, EndVisitsNothingNew DEF Seen
    <2> QED
        BY <1>1, <2>1, <2>2
<1>4. ASSUME Decoded, CountHit PROVE Seen' = Seen \cup {pc}
    BY <1>1, <1>4, VisitAdds, InsnType DEF Seen
<1>5. CASE StopAtPrehook
    <2>1. Decoded /\ CountHit /\ watch' = Hook.w /\ stop' = TRUE /\ pc' = pc /\ Hook.stop
        BY <1>5 DEF StopAtPrehook
    <2>2. prog[pc].kind # "div0"
        BY <2>1, PrehookCases, InsnType
    <2> QED
        BY <1>1, <1>4, <2>1, <2>2 DEF Heard
<1>6. ASSUME NEW kinds, Executes(kinds), "div0" \notin kinds
      PROVE  Decoded /\ Heard(Hook.w) /\ ~Hook.stop /\ Seen' = Seen \cup {pc}
    BY <1>4, <1>6, InsnType DEF Executes, Heard
<1>7. CASE ExecTrap
    BY <1>1, <1>6, <1>7 DEF ExecTrap
<1>8. CASE ExecCall
    BY <1>1, <1>6, <1>8 DEF ExecCall
<1>9. CASE ExecFork
    BY <1>1, <1>6, <1>9 DEF ExecFork
<1>10. CASE ExecJump
    BY <1>1, <1>6, <1>10 DEF ExecJump
<1>11. CASE ExecReturn
    BY <1>1, <1>6, <1>11 DEF ExecReturn
<1>12. CASE ExecPlain
    BY <1>1, <1>6, <1>12 DEF ExecPlain
<1>13. CASE ExecDivideByZero
    <2>1. Decoded /\ CountHit /\ ~Hook.stop
        BY <1>13 DEF ExecDivideByZero
    <2>2. watch' = [Hook.w EXCEPT !.badcode = TRUE]
        BY <1>13, Zenon DEF ExecDivideByZero
    <2> QED
        BY <1>1, <1>4, <2>1, <2>2 DEF Heard
<1> QED
    BY <1>2, <1>3, <1>5, <1>7, <1>8, <1>9, <1>10, <1>11, <1>12, <1>13 DEF Next

\* What is heard keeps the counts and the return, and a division by zero is noted.
LEMMA HeardFields ==
    ASSUME NEW w, IsWatch(w), Heard(w)
    PROVE  /\ watch'.count = w.count /\ watch'.dist = w.dist /\ watch'.hasret = w.hasret
           /\ w.badcode \/ prog[pc].kind = "div0" => watch'.badcode
BY DEF IsWatch, Heard

LEMMA WatchStep == TypeInv /\ CoverInv /\ WatchInv /\ [Next]_vars => WatchInv'
<1> SUFFICES ASSUME TypeInv, CoverInv, WatchInv, [Next]_vars PROVE WatchInv'
    OBVIOUS
<1>1. CASE UNCHANGED vars
    BY <1>1 DEF vars, WatchInv, Counted, Seen
<1>2. CASE Next /\ monitor # "watcher"
    BY <1>2, StepShapes DEF WatchInv
<1>3. ASSUME Next, monitor = "watcher" PROVE WatchInv'
    <2>1. prog' = prog /\ monitor' = monitor /\ stop = FALSE
        BY <1>3, WatcherSteps
    <2>2. /\ ~watch.hasret /\ Counted = Seen
          /\ ~watch.badcode => \A va \in Seen : prog[va].kind # "div0"
        BY <1>3, <2>1 DEF WatchInv
    <2>3. CASE watch' = watch /\ stop' = FALSE /\ Seen' = Seen
        <3>1. Counted' = Seen'
            BY <2>1, <2>2, <2>3 DEF Counted
        <3> QED
            BY <2>1, <2>2, <2>3, <3>1 DEF WatchInv
    <2>4. ASSUME Decoded, Heard(Hook.w), Hook.stop => stop' = TRUE /\ pc' = pc,
                 Seen' = Seen \cup {pc}
          PROVE  WatchInv'
        <3>1. /\ Hook.stop <=> Insn.kind \in {"out", "badop", "exit", "ret"}
              /\ Hook.w.badcode = watch.badcode
              /\ Hook.w.hasret = (watch.hasret \/ Insn.kind = "ret")
            BY <1>3, <2>4, PrehookCases
        <3>2. IsWatch(Hook.w)
            BY <2>4, HookType DEF Decoded
        <3>3. /\ watch'.hasret = Hook.w.hasret
              /\ Hook.w.badcode \/ prog[pc].kind = "div0" => watch'.badcode
            BY <2>4, <3>2, HeardFields
        <3>4. Insn = prog[pc]
            BY DEF Insn
        <3>5. watch'.hasret => Insn.kind = "ret"
            BY <2>2, <3>1, <3>3
        <3>6. watch'.hasret => stop' /\ pc' \in Seen' /\ prog'[pc'].kind = "ret"
            BY <2>1, <2>4, <3>1, <3>4, <3>5
        <3>7. ~stop' \/ watch'.hasret => Insn.kind \notin {"out", "badop"}
            BY <2>4, <3>1, <3>5
        <3>8. ~stop' \/ watch'.hasret => Counted' = Seen'
            BY <2>1, <2>2, <2>4, <3>4, <3>7 DEF Counted
        <3>9. ~watch'.badcode => \A va \in Seen' : prog'[va].kind # "div0"
            BY <2>1, <2>2, <2>4, <3>1, <3>3
        <3> QED
            BY <3>6, <3>8, <3>9 DEF WatchInv
    <2> QED
        BY <1>3, <2>3, <2>4, WatcherSteps
<1> QED
    BY <1>1, <1>2, <1>3

\* One more address under its opcode.
LEMMA TallyCounts ==
    ASSUME NEW C, IsFiniteSet(C), NEW x, x \notin C
    PROVE  /\ Cardinality(C \cup {x}) = Cardinality(C) + 1
           /\ Tally(ByName(C), prog[x].mn) = ByName(C \cup {x})
<1> DEFINE Of(S, mn) == {va \in S : prog[va].mn = mn}
           mx == prog[x].mn
           N == {prog[va].mn : va \in C}
<1>1. {prog[va].mn : va \in C \cup {x}} = N \cup {mx}
    OBVIOUS
<1>2. \A mn : IsFiniteSet(Of(C, mn)) /\ Cardinality(Of(C, mn)) \in Nat
    <2> TAKE mn
    <2>1. Of(C, mn) \in SUBSET C
        OBVIOUS
    <2> QED
        BY <2>1, FS_Subset, FS_CardinalityType
<1>3. \A mn : mn # mx => Of(C \cup {x}, mn) = Of(C, mn)
    OBVIOUS
<1>4. Of(C \cup {x}, mx) = Of(C, mx) \cup {x} /\ x \notin Of(C, mx)
    OBVIOUS
<1>5. Cardinality(Of(C \cup {x}, mx)) = Cardinality(Of(C, mx)) + 1
    <2>1. PICK T : T = Of(C, mx)
        OBVIOUS
    <2>2. IsFiniteSet(T) /\ x \notin T /\ Of(C \cup {x}, mx) = T \cup {x}
        BY <1>2, <1>4, <2>1
    <2>3. Cardinality(T \cup {x}) = Cardinality(T) + 1
        BY <2>2, FS_AddElement
    <2> QED
        BY <2>1, <2>2, <2>3
<1>6. mx \notin N => Cardinality(Of(C, mx)) = 0
    <2>1. mx \notin N => Of(C, mx) = {}
        OBVIOUS
    <2> QED
        BY <2>1, FS_EmptySet
<1>7. \A S : ByName(S) = [mn \in {prog[va].mn : va \in S} |-> Cardinality(Of(S, mn))]
    BY DEF ByName
<1>8. Cardinality(C \cup {x}) = Cardinality(C) + 1
    BY FS_AddElement
<1> HIDE DEF Of, mx, N
<1>9. \A mn \in N \cup {mx} :
          (IF mn \in N THEN Cardinality(Of(C, mn)) ELSE 0) + (IF mn = mx THEN 1 ELSE 0)
              = Cardinality(Of(C \cup {x}, mn))
    BY <1>2, <1>3, <1>5, <1>6
<1>10. ByName(C) = [mn \in N |-> Cardinality(Of(C, mn))]
    BY <1>7 DEF N
<1>11. ByName(C \cup {x}) = [mn \in N \cup {mx} |-> Cardinality(Of(C \cup {x}, mn))]
    BY <1>1, <1>7
<1>12. Tally(ByName(C), mx) = [mn \in N \cup {mx} |->
            (IF mn \in N THEN Cardinality(Of(C, mn)) ELSE 0) + (IF mn = mx THEN 1 ELSE 0)]
    BY <1>10 DEF Tally
<1> QED
    BY <1>8, <1>9, <1>11, <1>12 DEF mx

LEMMA CountStep ==
    ASSUME MaxHit = 1
    PROVE  TypeInv /\ CoverInv /\ CountInv /\ [Next]_vars => CountInv'
<1> SUFFICES ASSUME TypeInv, CoverInv, CountInv, [Next]_vars PROVE CountInv'
    OBVIOUS
<1>1. CASE UNCHANGED vars
    BY <1>1 DEF vars, CountInv, ByName, Counted, Seen
<1>2. CASE Next /\ monitor # "watcher"
    BY <1>2, StepShapes DEF CountInv
<1>3. ASSUME Next, monitor = "watcher" PROVE CountInv'
    <2>1. prog' = prog /\ monitor' = monitor
        BY <1>3, WatcherSteps
    <2>2. watch.count = Cardinality(Counted) /\ watch.dist = ByName(Counted)
        BY <1>3 DEF CountInv
    <2>3. \A S : ByName(S)' = ByName(S)
        BY <2>1 DEF ByName
    <2>4. ASSUME watch'.count = Cardinality(Counted'), watch'.dist = ByName(Counted') PROVE CountInv'
        BY <2>4, <2>1 DEF CountInv, ByName
    <2>5. CASE watch' = watch /\ Seen' = Seen
        <3>1. Counted' = Counted
            BY <2>1, <2>5 DEF Counted
        <3> QED
            BY <2>2, <2>4, <2>5, <3>1
    <2>6. ASSUME Decoded, Heard(Hook.w), Seen' = Seen \cup {pc}
          PROVE  CountInv'
        <3>1. /\ Insn.kind \in {"out", "badop"} => Hook.w = watch
              /\ Insn.kind \notin {"out", "badop"} =>
                     Hook.w.count = watch.count + 1 /\ Hook.w.dist = Tally(watch.dist, Insn.mn)
            BY <1>3, <2>6, PrehookCases
        <3>2. IsWatch(Hook.w)
            BY <2>6, HookType DEF Decoded
        <3>3. watch'.count = Hook.w.count /\ watch'.dist = Hook.w.dist
            BY <2>6, <3>2, HeardFields
        <3>4. Insn = prog[pc] /\ prog[pc] # Bad
            BY <2>6, InsnType
        <3>5. pc \notin DOMAIN hits
            BY <2>6 DEF Decoded, Hits, TypeInv
        <3>6. pc \notin Counted /\ IsFiniteSet(Counted)
            <4>1. Counted \in SUBSET DOMAIN hits
                BY DEF Counted, Seen
            <4> QED
                BY <3>5, <4>1, FS_Subset DEF TypeInv
        <3>7. CASE Insn.kind \in {"out", "badop"}
            <4>1. Counted' = Counted
                BY <2>1, <2>6, <3>4, <3>7 DEF Counted
            <4> QED
                BY <2>2, <2>4, <3>1, <3>3, <3>7, <4>1
        <3>8. CASE Insn.kind \notin {"out", "badop"}
            <4>1. Counted' = Counted \cup {pc}
                BY <2>1, <2>6, <3>4, <3>8 DEF Counted
            <4>2. /\ Cardinality(Counted \cup {pc}) = Cardinality(Counted) + 1
                  /\ Tally(ByName(Counted), prog[pc].mn) = ByName(Counted \cup {pc})
                BY <3>6, TallyCounts
            <4> QED
                BY <2>2, <2>4, <3>1, <3>3, <3>4, <3>8, <4>1, <4>2
        <3> QED
            BY <3>7, <3>8
    <2> QED
        BY <1>3, <2>5, <2>6, WatcherSteps
<1> QED
    BY <1>1, <1>2, <1>3

LEMMA WatchInit == Init => WatchInv /\ CountInv
<1> SUFFICES ASSUME Init PROVE WatchInv /\ CountInv
    OBVIOUS
<1>1. Seen = {} /\ Counted = {} /\ stop = FALSE
    BY DEF Init, Seen, Counted
<1>2. watch.hasret = FALSE /\ watch.count = 0 /\ watch.dist = <<>>
    BY DEF Init, NoWatch
<1>3. Cardinality({}) = 0 /\ ByName({}) = <<>>
    BY FS_EmptySet DEF ByName
<1> QED
    BY <1>1, <1>2, <1>3 DEF WatchInv, CountInv

LEMMA Quotient ==
    ASSUME NEW a \in Nat, NEW b \in Nat \ {0}
    PROVE  a \div b \in Nat /\ a < ((a \div b) + 1) * b
OBVIOUS

\* The rounded ratio the Watcher compares: below 0.67 means below 7 in 10.
LEMMA BelowRatio ==
    ASSUME NEW c \in Nat, NEW t \in Nat \ {0}, ~RatioAtLeast(c, t, 670)
    PROVE  10 * c < 7 * t
<1>1. PICK a \in Nat, b \in Nat \ {0} : a = 2000 * c + t /\ b = 2 * t
    OBVIOUS
<1>2. PICK q \in Nat : q = a \div b /\ a < (q + 1) * b
    BY Quotient
<1>3. q =< 669
    BY <1>1, <1>2 DEF RatioAtLeast
<1>4. (q + 1) * b =< 670 * b
    BY <1>3
<1> QED
    BY <1>1, <1>2, <1>4

\* A candidate the Watcher passes has a return that control can reach and no
\* division by zero on the way, and when more than four instructions were visited no
\* opcode makes up 70% of them; MaxHit is 1 in every caller of run_function.
THEOREM GoodCandidates ==
    ASSUME MaxHit = 1
    PROVE  Spec => []GoodHasReturn
<1> DEFINE I == TypeInv /\ ReachInv /\ CoverInv /\ WatchInv /\ CountInv
<1>1. Init => I
    BY TypeInit, CoverInit, WatchInit
<1>2. I /\ [Next]_vars => I'
    BY TypeStep, ReachStep, CoverStep, WatchStep, CountStep
<1>3. I => GoodHasReturn
    <2> SUFFICES ASSUME I, monitor = "watcher", LooksGood
                 PROVE  /\ prog[pc].kind = "ret" /\ pc \in Reach
                        /\ \A va \in Seen : prog[va].kind # "div0"
                        /\ Cardinality(Seen) > 4 =>
                               \A va \in Seen : 10 * Cardinality({v \in Seen : prog[v].mn = prog[va].mn})
                                                  < 7 * Cardinality(Seen)
        BY DEF GoodHasReturn, Seen
    <2>1. watch.hasret /\ ~watch.badcode
        BY DEF LooksGood
    <2>2. pc \in Seen /\ prog[pc].kind = "ret" /\ Counted = Seen
        BY <2>1 DEF WatchInv
    <2>3. pc \in Reach
        BY <2>2 DEF Seen, ReachInv
    <2>4. \A va \in Seen : prog[va].kind # "div0"
        BY <2>1 DEF WatchInv
    <2>5. ASSUME Cardinality(Seen) > 4, NEW va \in Seen
          PROVE  10 * Cardinality({v \in Seen : prog[v].mn = prog[va].mn}) < 7 * Cardinality(Seen)
        <3>1. watch.count = Cardinality(Seen) /\ watch.dist = ByName(Seen)
            BY <2>2 DEF CountInv
        <3>2. PICK mn : mn = prog[va].mn
            OBVIOUS
        <3>3. mn \in DOMAIN watch.dist /\ watch.dist[mn] = Cardinality({v \in Seen : prog[v].mn = mn})
            BY <3>1, <3>2 DEF ByName
        <3>4. ~RatioAtLeast(watch.dist[mn], watch.count, 670)
            BY <2>5, <3>1, <3>3 DEF LooksGood
        <3>5. IsFiniteSet(Seen) /\ IsFiniteSet({v \in Seen : prog[v].mn = mn})
            <4>1. Seen \in SUBSET DOMAIN hits /\ {v \in Seen : prog[v].mn = mn} \in SUBSET Seen
                BY DEF Seen
            <4> QED
                BY <4>1, FS_Subset DEF TypeInv
        <3>6. watch.dist[mn] \in Nat /\ watch.count \in Nat \ {0}
            BY <2>5, <3>1, <3>3, <3>5, FS_CardinalityType
        <3>7. 10 * watch.dist[mn] < 7 * watch.count
            BY <3>4, <3>6, BelowRatio
        <3> QED
            BY <3>1, <3>2, <3>3, <3>7
    <2> QED
        BY <2>2, <2>3, <2>4, <2>5
<1> QED
    BY <1>1, <1>2, <1>3, PTL DEF Spec
=============================================================================
