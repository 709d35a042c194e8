--------------------------- MODULE MCDelegations ---------------------------
(***************************************************************************)
(* Two nodes, which are interchangeable: an edge between them points from  *)
(* the first to the second.  Nobody has to call the workflow tool, so this *)
(* bounds the environment, and half of it only.                            *)
(***************************************************************************)
EXTENDS Delegations
CONSTANTS n1, n2

MCOriented == flow.edges \subseteq {<<n1, n2>>}
=============================================================================
