------------------------------ MODULE MCDriver ------------------------------
(***************************************************************************)
(* Instances of the driver for TLC.                                        *)
(***************************************************************************)
EXTENDS Driver

MCPaths == {"a", "b"}
=============================================================================
