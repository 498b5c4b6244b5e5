----------------------------- MODULE IndexedFor -----------------------------
(***************************************************************************)
(* What run_indexed promises find_static_capabilities: a loop that runs    *)
(* the body once for every index, in no particular order, and either ends  *)
(* with every output in place or with the exception of a body that left    *)
(* its output empty.  The environment may abort it (no thread available).  *)
(***************************************************************************)
EXTENDS Integers

CONSTANTS N, Result, MayThrow, Empty, NoError

VARIABLES out, status, error

vars == <<out, status, error>>

Init ==
    /\ out = [i \in 0 .. N - 1 |-> Empty]
    /\ status = "running"
    /\ error = NoError

Fill(i) ==
    /\ status = "running"
    /\ out[i] = Empty
    /\ out' = [out EXCEPT ![i] = Result[i]]
    /\ UNCHANGED <<status, error>>

Finish ==
    /\ status = "running"
    /\ \A i \in 0 .. N - 1 : out[i] = Result[i]
    /\ status' = "ok"
    /\ UNCHANGED <<out, error>>

Fail(i) ==
    /\ status = "running"
    /\ i \in MayThrow
    /\ out[i] = Empty
    /\ status' = "failed"
    /\ error' = i
    /\ UNCHANGED out

Abort ==
    /\ status = "running"
    /\ status' = "aborted"
    /\ UNCHANGED <<out, error>>

Next == Finish \/ Abort \/ \E i \in 0 .. N - 1 : Fill(i) \/ Fail(i)

Spec == Init /\ [][Next]_vars
=============================================================================
