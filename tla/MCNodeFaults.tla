---------------------------- MODULE MCNodeFaults ----------------------------
(***************************************************************************)
(* The instance of MCNode for the faulty transport.                        *)
(***************************************************************************)
EXTENDS NodeFaults

CONSTANTS a, b, k, NoId, HubId

MCProbeName == <<k>>
MCAppNames == {<<>>, <<a>>}
MCRegNames == {<<a>>}
MCDataNames == {<<a>>, <<k>>}
MCInterestNames == {<<b>>}
MCLifetimes == {-1, 0}
=============================================================================
