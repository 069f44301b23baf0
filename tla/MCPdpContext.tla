--------------------------- MODULE MCPdpContext ---------------------------
(***************************************************************************)
(* Bounds for model checking PdpContext.                                   *)
(***************************************************************************)
EXTENDS PdpContext

MCMaxRequests == [p \in BOOLEAN |-> IF p THEN 1 ELSE 2]
MCMaxFaults == [p \in BOOLEAN |-> 1]
=============================================================================
