--------------------------- MODULE MC_LSResources ---------------------------
(* Model-checking instance of LSResources: two request pools' names, two   *)
(* request channels and one PMI launch channel.                            *)
EXTENDS LSResources

CONSTANTS m1, m2, c1, c2, k1
=============================================================================
