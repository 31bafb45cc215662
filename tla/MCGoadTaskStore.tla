--------------------------- MODULE MCGoadTaskStore ---------------------------
(***************************************************************************)
(* GoadTaskStore on small instances.                                       *)
(***************************************************************************)
EXTENDS GoadTaskStore

CONSTANTS i1, s1

OneInstance == {i1}
NoInstances == {}
NoReaders   == {}
OneReader   == {s1}
NoFaults    == {TRUE}
Faults      == {TRUE, FALSE}
=============================================================================
