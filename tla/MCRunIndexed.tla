---------------------------- MODULE MCRunIndexed ----------------------------
(***************************************************************************)
(* Instances of the worker pool for TLC.  The results are distinct numbers *)
(* so that a result stored in the wrong slot is seen.                      *)
(***************************************************************************)
EXTENDS RunIndexed

MCResult == [i \in Index |-> 100 + i]
=============================================================================
