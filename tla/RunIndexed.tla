----------------------------- MODULE RunIndexed -----------------------------
(***************************************************************************)
(* The worker pool that analyses the recovered functions of one image,     *)
(* run_indexed of src/capabilities/static_.cpp: every worker claims one    *)
(* index at a time from a shared atomic counter, runs the body on it and   *)
(* stores what the body returns in that index's own slot.  The first       *)
(* exception a worker catches is kept under a mutex; the worker that       *)
(* caught it stops and the others go on.  The calling thread is worker 0,  *)
(* the others are std::threads it spawns before it starts working and      *)
(* joins before it returns.                                                *)
(*                                                                         *)
(* What the body computes for an index does not depend on the other        *)
(* indices (the extractor and the rules are const while the pool runs), so *)
(* it is the constant function Result; that a body may throw is the        *)
(* constant set MayThrow.                                                  *)
(***************************************************************************)
EXTENDS Integers

CONSTANTS
    N,                      \* functions recovered from the image, slots.size()
    Requested,              \* the `threads` argument, 0 means automatic
    Hardware,               \* std::thread::hardware_concurrency(), may be 0
    MinFunctionsPerWorker,  \* kMinFunctionsPerWorker
    Result,                 \* Result[i] is what body(i) stores in slot i
    MayThrow,               \* the indices whose body may throw
    Empty,                  \* a slot nobody has filled
    NoError                 \* a null std::exception_ptr

Index == 0 .. N - 1

ASSUME NAssumption == N \in Nat
ASSUME CountAssumption ==
    /\ Requested \in Nat
    /\ Hardware \in Nat
    /\ MinFunctionsPerWorker \in Nat \ {0}
ASSUME ResultAssumption ==
    /\ DOMAIN Result = Index
    /\ \A i \in Index : Result[i] # Empty
ASSUME ErrorAssumption ==
    /\ MayThrow \subseteq Index
    /\ NoError \notin Int

(***************************************************************************)
(* How many workers a request is worth: one when there is little work or   *)
(* one was asked for, otherwise at most one per MinFunctionsPerWorker      *)
(* functions.                                                              *)
(***************************************************************************)
Smaller(a, b) == IF a < b THEN a ELSE b

AtLeastOne(k) == IF k = 0 THEN 1 ELSE k

ResolveWorkerCount(requested, work) ==
    IF requested = 1 \/ work <= MinFunctionsPerWorker
    THEN 1
    ELSE LET want == IF requested = 0 THEN AtLeastOne(Hardware) ELSE requested
         IN  AtLeastOne(Smaller(want, work \div MinFunctionsPerWorker))

WorkerCount == ResolveWorkerCount(Requested, N)
Worker      == 0 .. WorkerCount - 1

VARIABLES
    main,         \* where the calling thread is in run_indexed
    spawned,      \* workers that have been started, the caller included
    pc,           \* pc[w]: where worker w is in its loop
    idx,          \* idx[w]: the index worker w claimed last
    next,         \* the shared counter
    slots,        \* slots[i]: the output of function i
    first_error,  \* the exception kept, named by the index that threw it
    error_mutex   \* the worker that holds the mutex, or NoError

poolVars == <<spawned, pc, idx, next, slots, first_error, error_mutex>>
vars     == <<main, poolVars>>

MainState   == {"spawning", "working", "returned", "propagated", "terminated"}
WorkerState == {"unborn", "claim", "body", "catch", "locked", "exited"}

TypeOK ==
    /\ main \in MainState
    /\ spawned \in 1 .. WorkerCount
    /\ pc \in [Worker -> WorkerState]
    /\ idx \in [Worker -> Nat]
    /\ next \in Nat
    /\ slots \in [Index -> {Result[i] : i \in Index} \cup {Empty}]
    /\ first_error \in MayThrow \cup {NoError}
    /\ error_mutex \in Worker \cup {NoError}

Init ==
    /\ main = "spawning"
    /\ spawned = 1
    /\ pc = [w \in Worker |-> "unborn"]
    /\ idx = [w \in Worker |-> 0]
    /\ next = 0
    /\ slots = [i \in Index |-> Empty]
    /\ first_error = NoError
    /\ error_mutex = NoError

-----------------------------------------------------------------------------
(***************************************************************************)
(* The calling thread                                                      *)
(***************************************************************************)

\* pool.emplace_back(worker): the new thread starts at the top of its loop.
Spawn ==
    /\ main = "spawning"
    /\ spawned < WorkerCount
    /\ pc' = [pc EXCEPT ![spawned] = "claim"]
    /\ spawned' = spawned + 1
    /\ UNCHANGED <<main, idx, next, slots, first_error, error_mutex>>

\* The std::thread constructor throws.  With no thread in the pool yet the
\* exception leaves run_indexed; otherwise the pool is destroyed while its
\* threads are joinable, which is std::terminate.
SpawnFails ==
    /\ main = "spawning"
    /\ spawned < WorkerCount
    /\ main' = IF spawned = 1 THEN "propagated" ELSE "terminated"
    /\ UNCHANGED poolVars

\* worker() on the calling thread, once every other worker is started.
StartOwnWorker ==
    /\ main = "spawning"
    /\ spawned = WorkerCount
    /\ main' = "working"
    /\ pc' = [pc EXCEPT ![0] = "claim"]
    /\ UNCHANGED <<spawned, idx, next, slots, first_error, error_mutex>>

\* Mutant of JoinAll: return as soon as the caller's own worker is done.
JoinOwnOnly ==
    /\ main = "working"
    /\ pc[0] = "exited"
    /\ main' = "returned"
    /\ UNCHANGED poolVars

\* t.join() for every thread of the pool, then return first_error.
JoinAll ==
    /\ main = "working"
    /\ \A w \in Worker : pc[w] = "exited"
    /\ main' = "returned"
    /\ UNCHANGED poolVars

-----------------------------------------------------------------------------
(***************************************************************************)
(* A worker.  A terminated process takes no further step.                  *)
(***************************************************************************)

Running == main \in {"spawning", "working"}

\* i = next.fetch_add(1), and leave the loop when i is past the end.
Claim(w) ==
    /\ Running
    /\ pc[w] = "claim"
    /\ idx' = [idx EXCEPT ![w] = next]
    /\ next' = next + 1
    /\ pc' = [pc EXCEPT ![w] = IF next >= N THEN "exited" ELSE "body"]
    /\ UNCHANGED <<main, spawned, slots, first_error, error_mutex>>

\* body(i) returns: slot i holds its result.
Body(w) ==
    /\ Running
    /\ pc[w] = "body"
    /\ slots' = [slots EXCEPT ![idx[w]] = Result[idx[w]]]
    /\ pc' = [pc EXCEPT ![w] = "claim"]
    /\ UNCHANGED <<main, spawned, idx, next, first_error, error_mutex>>

\* Mutant of BodyThrows: the body throws after it stored its result.
ThrowAfterStore(w) ==
    /\ Running
    /\ pc[w] = "body"
    /\ idx[w] \in MayThrow
    /\ slots' = [slots EXCEPT ![idx[w]] = Result[idx[w]]]
    /\ pc' = [pc EXCEPT ![w] = "catch"]
    /\ UNCHANGED <<main, spawned, idx, next, first_error, error_mutex>>

\* body(i) throws before it assigned the slot.
BodyThrows(w) ==
    /\ Running
    /\ pc[w] = "body"
    /\ idx[w] \in MayThrow
    /\ pc' = [pc EXCEPT ![w] = "catch"]
    /\ UNCHANGED <<main, spawned, idx, next, slots, first_error, error_mutex>>

\* catch (...): take the mutex.
LockError(w) ==
    /\ Running
    /\ pc[w] = "catch"
    /\ error_mutex = NoError
    /\ error_mutex' = w
    /\ pc' = [pc EXCEPT ![w] = "locked"]
    /\ UNCHANGED <<main, spawned, idx, next, slots, first_error>>

\* Mutant of RecordError: the caught exception is swallowed.
SwallowError(w) ==
    /\ Running
    /\ pc[w] = "locked"
    /\ error_mutex' = NoError
    /\ pc' = [pc EXCEPT ![w] = "exited"]
    /\ UNCHANGED <<main, spawned, idx, next, slots, first_error>>

\* Mutant of RecordError: the mutex is not released on the way out.
RecordWithoutUnlock(w) ==
    /\ Running
    /\ pc[w] = "locked"
    /\ first_error' = IF first_error = NoError THEN idx[w] ELSE first_error
    /\ pc' = [pc EXCEPT ![w] = "exited"]
    /\ UNCHANGED <<main, spawned, idx, next, slots, error_mutex>>

\* Keep the exception if it is the first one, release the mutex, exit.
RecordError(w) ==
    /\ Running
    /\ pc[w] = "locked"
    /\ first_error' = IF first_error = NoError THEN idx[w] ELSE first_error
    /\ error_mutex' = NoError
    /\ pc' = [pc EXCEPT ![w] = "exited"]
    /\ UNCHANGED <<main, spawned, idx, next, slots>>

WorkerStep(w) ==
    \/ Claim(w)
    \/ Body(w)
    \/ BodyThrows(w)
    \/ LockError(w)
    \/ RecordError(w)

MainStep ==
    \/ Spawn
    \/ SpawnFails
    \/ StartOwnWorker
    \/ JoinAll

Next == MainStep \/ \E w \in Worker : WorkerStep(w)

Spec == Init /\ [][Next]_vars

\* The operating system schedules every thread eventually.  The mutex can be
\* taken over at most once per worker (RecordError exits), so weak fairness is
\* enough for LockError.  Nothing forces a body to throw or a spawn to fail.
Fairness ==
    /\ WF_vars(Spawn \/ StartOwnWorker \/ JoinAll)
    /\ \A w \in Worker :
         /\ WF_vars(Claim(w) \/ Body(w))
         /\ WF_vars(LockError(w))
         /\ WF_vars(RecordError(w))

FairSpec == Spec /\ Fairness

-----------------------------------------------------------------------------
(***************************************************************************)
(* Properties                                                              *)
(***************************************************************************)

Holding(w) == pc[w] \in {"body", "catch", "locked"}

\* When run_indexed returns, it returns an exception exactly when some
\* function was left without its result: a caller that sees no error may
\* read every slot, and an error is never reported for a complete run.
CompleteOrError ==
    main = "returned" =>
        (first_error = NoError <=> \A i \in Index : slots[i] = Result[i])

\* No two workers hold the same index, and an index somebody holds has not
\* been analysed yet: each slot has one writer, so the unsynchronised writes
\* to the slots vector never race.
OneOwnerPerIndex ==
    \A w \in Worker : Holding(w) =>
        /\ idx[w] < next
        /\ slots[idx[w]] = Empty
        /\ \A v \in Worker \ {w} : Holding(v) => idx[v] # idx[w]

\* The frame that owns the counter, the slots and the mutex is left, by a
\* return or by a failed spawn's exception, only when no started worker can
\* still touch them.
NoDanglingWorker ==
    main \in {"returned", "propagated"} =>
        \A w \in Worker : pc[w] \in {"unborn", "exited"}

\* The pool always comes to an end, whichever bodies throw: no worker waits
\* for ever on the mutex and no join waits for ever on a worker.
Terminates == <>(main \in {"returned", "propagated", "terminated"})

(***************************************************************************)
(* The pool implements the loop it replaces: the run it shows its caller   *)
(* is a run of IndexedFor.                                                 *)
(***************************************************************************)
shownStatus == CASE main \in {"spawning", "working"}      -> "running"
                 [] main = "returned"                     -> IF first_error = NoError
                                                             THEN "ok" ELSE "failed"
                 [] main \in {"propagated", "terminated"} -> "aborted"

shownError == IF main = "returned" THEN first_error ELSE NoError

Loop == INSTANCE IndexedFor
            WITH out <- slots, status <- shownStatus, error <- shownError

\* What run_indexed does is what a loop over the indices may do: every slot
\* goes from empty to its result at most once, the loop ends well only when
\* all are filled, and it fails only with an exception some body threw.
ImplementsLoop == Loop!Spec
=============================================================================
