------------------------------- MODULE MCNode -------------------------------
(***************************************************************************)
(* Small instances of Node for TLC.  Names have at most two components    *)
(* a, b; the probe name is a component k of its own.  Times are in units   *)
(* of the timer period (100 ms), with the 4000 ms defaults scaled down to  *)
(* two periods so that they expire within the clock's bound.              *)
(***************************************************************************)
EXTENDS Node

CONSTANTS a, b, k, NoId, HubId

MCProbeName == <<k>>
(* The empty name matches every Data, the probe's reply included.         *)
MCAppNames == {<<>>, <<a>>}
MCRegNames == {<<a>>, <<a, b>>}
MCDataNames == {<<a>>, <<k>>}
MCInterestNames == {<<b>>}
(* -1: unset, the default deadline; 0: expires at the next sweep.         *)
MCLifetimes == {-1, 0}
=============================================================================
