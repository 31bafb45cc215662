--------------------------- MODULE MCGoadExecute ---------------------------
(***************************************************************************)
(* GoadExecute with up to two stop requests.                               *)
(***************************************************************************)
EXTENDS GoadExecute
=============================================================================
