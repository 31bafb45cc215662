---------------------------- MODULE MCTestingOps ----------------------------
(***************************************************************************)
(* TestingOps with two operations and two requests at a time, and with one *)
(* operation, a restart and jobs without a clean recap.                    *)
(***************************************************************************)
EXTENDS TestingOps
=============================================================================
