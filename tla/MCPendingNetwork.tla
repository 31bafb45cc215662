-------------------------- MODULE MCPendingNetwork --------------------------
(***************************************************************************)
(* PendingNetwork with two operators and one tab.                          *)
(***************************************************************************)
EXTENDS PendingNetwork

CONSTANTS alice, bob, p1

TwoOperators == {alice, bob}
OnePage      == {p1}
=============================================================================
