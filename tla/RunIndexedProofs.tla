-------------------------- MODULE RunIndexedProofs --------------------------
(***************************************************************************)
(* For any number of functions, any worker count and any set of throwing   *)
(* bodies, the worker pool of static_.cpp is type correct, gives each      *)
(* index one owner, and implements the loop over the indices.              *)
(***************************************************************************)
EXTENDS RunIndexed, TLAPS

(***************************************************************************)
(* The inductive invariant.  CompleteOrError is not inductive: that every  *)
(* slot is filled when the workers have exited follows from where each     *)
(* claimed and still empty index is, in the hands of a worker or behind an *)
(* error.                                                                  *)
(***************************************************************************)

\* What each main state says about the workers.
MainInv ==
    /\ main = "spawning" =>
         \A w \in Worker : w = 0 \/ w >= spawned => pc[w] = "unborn"
    /\ main = "propagated" => \A w \in Worker : pc[w] = "unborn"
    /\ main = "returned" => \A w \in Worker : pc[w] = "exited"

\* An index is held by one worker at a time, and only while its slot is empty.
ClaimInv ==
    /\ OneOwnerPerIndex
    /\ \A w \in Worker : Holding(w) => idx[w] \in Index
    /\ \A w \in Worker : pc[w] \in {"catch", "locked"} => idx[w] \in MayThrow

\* An unclaimed slot is empty; a claimed one is filled, held or lost to an error.
SlotInv ==
    /\ \A i \in Index : slots[i] \in {Empty, Result[i]}
    /\ \A i \in Index : i >= next => slots[i] = Empty
    /\ \A i \in Index : i < next /\ slots[i] = Empty =>
         \/ first_error # NoError
         \/ \E w \in Worker : Holding(w) /\ idx[w] = i

\* The error kept belongs to an empty slot nobody will fill any more.
ErrorInv ==
    /\ first_error # NoError =>
         /\ first_error < next
         /\ slots[first_error] = Empty
         /\ \A w \in Worker : Holding(w) => idx[w] # first_error
    /\ \A w \in Worker : pc[w] = "exited" => next >= N \/ first_error # NoError

IInv == TypeOK /\ MainInv /\ ClaimInv /\ SlotInv /\ ErrorInv

-----------------------------------------------------------------------------
\* A request resolves to at least one worker and never to more than there is
\* work for (resolve_worker_count).
LEMMA WorkerCountPositive == WorkerCount \in Nat /\ WorkerCount >= 1
<1>1. N \div MinFunctionsPerWorker \in Nat
  BY NAssumption, CountAssumption
<1> QED
  BY <1>1, CountAssumption DEF WorkerCount, ResolveWorkerCount, AtLeastOne, Smaller

\* The initial state of run_indexed satisfies the inductive invariant.
LEMMA InitIInv == Init => IInv
<1> SUFFICES ASSUME Init PROVE IInv
  OBVIOUS
<1> USE DEF Init
<1>1. TypeOK
  BY WorkerCountPositive, NAssumption DEF TypeOK, MainState, WorkerState, Worker
<1>2. MainInv /\ ClaimInv /\ SlotInv /\ ErrorInv
  BY NAssumption DEF MainInv, ClaimInv, SlotInv, ErrorInv, OneOwnerPerIndex, Holding, Index
<1> QED
  BY <1>1, <1>2 DEF IInv

\* Every step of the pool keeps the program's variables in their types.
LEMMA TypeStep == IInv /\ [Next]_vars => TypeOK'
<1> SUFFICES ASSUME IInv, [Next]_vars PROVE TypeOK'
  OBVIOUS
<1> USE WorkerCountPositive, NAssumption, ErrorAssumption
    DEF IInv, TypeOK, MainState, WorkerState, Index
<1>1. CASE MainStep
  <2>1. CASE Spawn
    BY <2>1 DEF Spawn, Worker
  <2>2. CASE SpawnFails
    BY <2>2 DEF SpawnFails, poolVars
  <2>3. CASE StartOwnWorker
    BY <2>3 DEF StartOwnWorker
  <2>4. CASE JoinAll
    BY <2>4 DEF JoinAll, poolVars
  <2> QED
    BY <1>1, <2>1, <2>2, <2>3, <2>4 DEF MainStep
<1>2. ASSUME NEW w \in Worker, WorkerStep(w)
      PROVE  TypeOK'
  <2>1. CASE Claim(w)
    BY <2>1 DEF Claim
  <2>2. CASE Body(w)
    BY <2>2 DEF Body, ClaimInv, Holding
  <2>3. CASE BodyThrows(w)
    BY <2>3 DEF BodyThrows
  <2>4. CASE LockError(w)
    BY <2>4 DEF LockError
  <2>5. CASE RecordError(w)
    BY <2>5 DEF RecordError, ClaimInv
  <2> QED
    BY <1>2, <2>1, <2>2, <2>3, <2>4, <2>5 DEF WorkerStep
<1>3. CASE UNCHANGED vars
  BY <1>3 DEF vars, poolVars
<1> QED
  BY <1>1, <1>2, <1>3 DEF Next

-----------------------------------------------------------------------------
\* A step of the calling thread preserves the invariant: it moves no index
\* and returns only when every worker has exited.
LEMMA MainStepIInv == IInv /\ MainStep => (MainInv /\ ClaimInv /\ SlotInv /\ ErrorInv)'
<1> SUFFICES ASSUME IInv, MainStep
             PROVE  (MainInv /\ ClaimInv /\ SlotInv /\ ErrorInv)'
  OBVIOUS
<1> USE WorkerCountPositive
    DEF IInv, MainInv, ClaimInv, SlotInv, ErrorInv, OneOwnerPerIndex, Holding
<1>1. CASE Spawn
  <2>1. spawned \in Worker /\ pc[spawned] = "unborn"
    BY <1>1 DEF Spawn, Worker, TypeOK
  <2>2. \A w \in Worker : /\ pc'[w] = IF w = spawned THEN "claim" ELSE pc[w]
                          /\ Holding(w)' <=> Holding(w)
    BY <1>1, <2>1 DEF Spawn, TypeOK
  <2>3. MainInv'
    BY <1>1, <2>2 DEF Spawn, TypeOK, Worker
  <2>4. ClaimInv'
    BY <1>1, <2>2 DEF Spawn
  <2>5. SlotInv'
    BY <1>1, <2>2 DEF Spawn
  <2>6. ErrorInv'
    BY <1>1, <2>2 DEF Spawn
  <2> QED
    BY <2>3, <2>4, <2>5, <2>6
<1>2. CASE SpawnFails
  BY <1>2 DEF SpawnFails, poolVars, TypeOK, Worker
<1>3. CASE StartOwnWorker
  <2>1. 0 \in Worker /\ pc[0] = "unborn"
    BY <1>3 DEF StartOwnWorker, Worker
  <2> QED
    BY <1>3, <2>1 DEF StartOwnWorker, TypeOK
<1>4. CASE JoinAll
  BY <1>4 DEF JoinAll, poolVars
<1> QED
  BY <1>1, <1>2, <1>3, <1>4 DEF MainStep

\* A step of a worker preserves the invariant.
LEMMA WorkerStepIInv ==
  ASSUME NEW w \in Worker, IInv, WorkerStep(w)
  PROVE  (MainInv /\ ClaimInv /\ SlotInv /\ ErrorInv)'
<1>0. /\ TypeOK /\ MainInv /\ ClaimInv /\ SlotInv /\ ErrorInv
      /\ \A v \in Worker : v \in Int
  BY WorkerCountPositive DEF IInv, Worker
<1>1. CASE Claim(w)
  <2>1. MainInv'
    BY <1>0, <1>1 DEF Claim, MainInv, Running, TypeOK
  <2>2. ClaimInv'
    BY <1>0, <1>1, NAssumption DEF Claim, ClaimInv, OneOwnerPerIndex, Holding, SlotInv, TypeOK, Index
  <2>3. SlotInv'
    <3>1. \A i \in Index : i < next' /\ slots[i] = Empty =>
            first_error # NoError \/ \E v \in Worker : Holding(v)' /\ idx'[v] = i
      <4> SUFFICES ASSUME NEW i \in Index, i < next', slots[i] = Empty, first_error = NoError
                   PROVE  \E v \in Worker : Holding(v)' /\ idx'[v] = i
        OBVIOUS
      <4>1. CASE i = next
        BY <1>0, <1>1, <4>1, NAssumption DEF Claim, Holding, TypeOK, Index
      <4>2. CASE i # next
        <5>1. PICK v \in Worker : Holding(v) /\ idx[v] = i
          BY <1>0, <1>1, <4>2 DEF Claim, SlotInv, TypeOK, Index
        <5>2. v # w
          BY <1>1, <5>1 DEF Claim, Holding
        <5> QED
          BY <1>0, <1>1, <5>1, <5>2 DEF Claim, Holding, TypeOK
      <4> QED
        BY <4>1, <4>2
    <3> QED
      BY <1>0, <1>1, <3>1 DEF Claim, SlotInv, TypeOK, Index, Holding
  <2>4. ErrorInv'
    BY <1>0, <1>1, NAssumption, ErrorAssumption
    DEF Claim, ErrorInv, Holding, TypeOK, Index
  <2> QED
    BY <2>1, <2>2, <2>3, <2>4
<1>2. CASE Body(w)
  <2>1. /\ idx[w] \in Index /\ idx[w] < next
        /\ slots[idx[w]] = Empty
        /\ \A v \in Worker \ {w} : Holding(v) => idx[v] # idx[w]
        /\ first_error # idx[w]
    BY <1>0, <1>2, ErrorAssumption DEF Body, ClaimInv, OneOwnerPerIndex, Holding, ErrorInv, Index
  <2>2. MainInv'
    BY <1>0, <1>2 DEF Body, MainInv, Running, TypeOK
  <2>3. ClaimInv'
    BY <1>0, <1>2, <2>1 DEF Body, ClaimInv, OneOwnerPerIndex, Holding, TypeOK
  <2>4. SlotInv'
    <3>1. \A i \in Index : slots'[i] = IF i = idx[w] THEN Result[i] ELSE slots[i]
      BY <1>0, <1>2, <2>1 DEF Body, TypeOK
    <3>2. \A i \in Index : i < next /\ slots'[i] = Empty =>
            first_error # NoError \/ \E v \in Worker : Holding(v)' /\ idx[v] = i
      <4> SUFFICES ASSUME NEW i \in Index, i < next, slots'[i] = Empty, first_error = NoError
                   PROVE  \E v \in Worker : Holding(v)' /\ idx[v] = i
        OBVIOUS
      <4>1. i # idx[w] /\ slots[i] = Empty
        BY <3>1, ResultAssumption
      <4>2. PICK v \in Worker : Holding(v) /\ idx[v] = i
        BY <1>0, <4>1 DEF SlotInv
      <4> QED
        BY <1>0, <1>2, <4>1, <4>2 DEF Body, Holding, TypeOK
    <3>3. \A i \in Index : slots'[i] \in {Empty, Result[i]}
      BY <1>0, <3>1 DEF SlotInv
    <3>4. \A i \in Index : i >= next => slots'[i] = Empty
      BY <1>0, <2>1, <3>1 DEF SlotInv, TypeOK, Index
    <3> QED
      BY <1>2, <3>2, <3>3, <3>4 DEF Body, SlotInv
  <2>5. ErrorInv'
    BY <1>0, <1>2, <2>1, ErrorAssumption DEF Body, ErrorInv, Holding, TypeOK, Index
  <2> QED
    BY <2>2, <2>3, <2>4, <2>5
<1>3. CASE BodyThrows(w)
  <2>1. \A v \in Worker : Holding(v)' <=> Holding(v)
    BY <1>0, <1>3 DEF BodyThrows, Holding, TypeOK
  <2> QED
    BY <1>0, <1>3, <2>1
    DEF BodyThrows, MainInv, ClaimInv, SlotInv, ErrorInv, OneOwnerPerIndex, Running, TypeOK
<1>4. CASE LockError(w)
  <2>1. \A v \in Worker : Holding(v)' <=> Holding(v)
    BY <1>0, <1>4 DEF LockError, Holding, TypeOK
  <2> QED
    BY <1>0, <1>4, <2>1
    DEF LockError, MainInv, ClaimInv, SlotInv, ErrorInv, OneOwnerPerIndex, Running, TypeOK
<1>5. CASE RecordError(w)
  <2>1. /\ idx[w] \in MayThrow /\ idx[w] \in Index /\ idx[w] < next
        /\ slots[idx[w]] = Empty
        /\ \A v \in Worker \ {w} : Holding(v) => idx[v] # idx[w]
    BY <1>0, <1>5 DEF RecordError, ClaimInv, OneOwnerPerIndex, Holding
  <2>2. \A v \in Worker : Holding(v)' <=> (Holding(v) /\ v # w)
    BY <1>0, <1>5 DEF RecordError, Holding, TypeOK
  <2>3. first_error' # NoError
    BY <1>5, <2>1, ErrorAssumption DEF RecordError, Index
  <2>4. MainInv'
    BY <1>0, <1>5 DEF RecordError, MainInv, Running, TypeOK
  <2>5. ClaimInv'
    BY <1>0, <1>5, <2>2 DEF RecordError, ClaimInv, OneOwnerPerIndex, TypeOK
  <2>6. SlotInv'
    BY <1>0, <1>5, <2>3 DEF RecordError, SlotInv
  <2>7. ErrorInv'
    BY <1>0, <1>5, <2>1, <2>2, <2>3 DEF RecordError, ErrorInv, TypeOK
  <2> QED
    BY <2>4, <2>5, <2>6, <2>7
<1> QED
  BY <1>1, <1>2, <1>3, <1>4, <1>5 DEF WorkerStep

\* The invariant is inductive.
LEMMA NextIInv == IInv /\ [Next]_vars => IInv'
<1> SUFFICES ASSUME IInv, [Next]_vars PROVE IInv'
  OBVIOUS
<1>1. TypeOK'
  BY TypeStep
<1>2. CASE UNCHANGED vars
  BY <1>2 DEF IInv, vars, poolVars, TypeOK, MainInv, ClaimInv, SlotInv, ErrorInv,
              OneOwnerPerIndex, Holding
<1>3. CASE Next
  BY <1>1, <1>3, MainStepIInv, WorkerStepIInv DEF Next, IInv
<1> QED
  BY <1>2, <1>3

\* run_indexed keeps the inductive invariant in every reachable state.
THEOREM InvariantHolds == Spec => []IInv
  BY InitIInv, NextIInv, PTL DEF Spec

\* Type correctness of the worker pool of run_indexed.
THEOREM TypeCorrect == Spec => []TypeOK
<1>1. IInv => TypeOK
  BY DEF IInv
<1> QED
  BY <1>1, InvariantHolds, PTL

\* No two workers of run_indexed ever own the same index, and nobody owns
\* an index whose slot is already filled.
THEOREM OwnersDistinct == Spec => []OneOwnerPerIndex
<1>1. IInv => OneOwnerPerIndex
  BY DEF IInv, ClaimInv
<1> QED
  BY <1>1, InvariantHolds, PTL

\* When the pool has returned, an empty slot means an error and conversely.
LEMMA ReturnedIsComplete == IInv => CompleteOrError
<1> SUFFICES ASSUME IInv, main = "returned"
             PROVE  first_error = NoError <=> \A i \in Index : slots[i] = Result[i]
  BY DEF CompleteOrError
<1>1. CASE first_error = NoError
  <2>1. 0 \in Worker /\ \A w \in Worker : pc[w] = "exited"
    BY WorkerCountPositive DEF IInv, MainInv, Worker
  <2>2. next >= N
    BY <1>1, <2>1 DEF IInv, ErrorInv
  <2>3. \A i \in Index : slots[i] # Empty
    BY <1>1, <2>1, <2>2, NAssumption DEF IInv, SlotInv, Holding, Index, TypeOK
  <2> QED
    BY <1>1, <2>3 DEF IInv, SlotInv
<1>2. CASE first_error # NoError
  BY <1>2, ErrorAssumption, ResultAssumption DEF IInv, ErrorInv, TypeOK
<1> QED
  BY <1>1, <1>2

\* run_indexed returns no error exactly when every function has its result.
THEOREM CompleteOrErrorHolds == Spec => []CompleteOrError
  BY ReturnedIsComplete, InvariantHolds, PTL

\* The frame of run_indexed is not left while a worker can still touch it.
THEOREM NoDanglingWorkerHolds == Spec => []NoDanglingWorker
<1>1. IInv => NoDanglingWorker
  BY DEF IInv, MainInv, NoDanglingWorker
<1> QED
  BY <1>1, InvariantHolds, PTL

-----------------------------------------------------------------------------
\* Every step of the pool is a step of the loop it replaces, or is invisible
\* to the caller.
LEMMA StepImplementsLoop ==
  ASSUME IInv, IInv', [Next]_vars
  PROVE  [Loop!Next]_(Loop!vars)
<1> USE DEF Loop!Next, Loop!vars, shownStatus, shownError
<1>1. CASE MainStep
  <2>1. CASE Spawn
    BY <2>1 DEF Spawn
  <2>2. CASE SpawnFails
    BY <2>2 DEF SpawnFails, poolVars, Loop!Abort
  <2>3. CASE StartOwnWorker
    BY <2>3 DEF StartOwnWorker
  <2>4. CASE JoinAll
    <3>1. CompleteOrError'
      BY ReturnedIsComplete, PTL
    <3>2. /\ main = "working" /\ main' = "returned"
          /\ slots' = slots /\ first_error' = first_error
      BY <2>4 DEF JoinAll, poolVars
    <3>3. CASE first_error = NoError
      BY <3>1, <3>2, <3>3 DEF Loop!Finish, CompleteOrError, Index
    <3>4. CASE first_error # NoError
      <4>1. first_error \in MayThrow /\ first_error \in 0 .. N - 1 /\ slots[first_error] = Empty
        BY <3>4, ErrorAssumption DEF IInv, TypeOK, ErrorInv, Index
      <4>2. Loop!Fail(first_error)
        BY <3>2, <3>4, <4>1 DEF Loop!Fail
      <4> QED
        BY <4>1, <4>2
    <3> QED
      BY <3>3, <3>4
  <2> QED
    BY <1>1, <2>1, <2>2, <2>3, <2>4 DEF MainStep
<1>2. ASSUME NEW w \in Worker, WorkerStep(w)
      PROVE  [Loop!Next]_(Loop!vars)
  <2>1. CASE Body(w)
    <3>1. idx[w] \in 0 .. N - 1 /\ slots[idx[w]] = Empty
      BY <2>1 DEF Body, IInv, ClaimInv, OneOwnerPerIndex, Holding, Index
    <3>2. Loop!Fill(idx[w])
      BY <2>1, <3>1 DEF Body, Running, Loop!Fill
    <3> QED
      BY <3>1, <3>2
  <2>2. CASE Claim(w) \/ BodyThrows(w) \/ LockError(w)
    BY <2>2 DEF Claim, BodyThrows, LockError
  <2>3. CASE RecordError(w)
    BY <2>3 DEF RecordError, Running
  <2> QED
    BY <1>2, <2>1, <2>2, <2>3 DEF WorkerStep
<1>3. CASE UNCHANGED vars
  BY <1>3 DEF vars, poolVars
<1> QED
  BY <1>1, <1>2, <1>3 DEF Next

\* run_indexed implements the loop over the indices it stands for.
THEOREM PoolImplementsLoop == Spec => ImplementsLoop
<1>1. Init => Loop!Init
  BY DEF Init, Loop!Init, Index, shownStatus, shownError
<1>2. IInv /\ IInv' /\ [Next]_vars => [Loop!Next]_(Loop!vars)
  BY StepImplementsLoop
<1> QED
  BY <1>1, <1>2, InvariantHolds, PTL DEF Spec, ImplementsLoop, Loop!Spec
=============================================================================
