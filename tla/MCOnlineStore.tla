--------------------------- MODULE MCOnlineStore ---------------------------
(***************************************************************************)
(* Three plans over two generations of one feature set: pA and pC claim    *)
(* the same generation, and pC also claims the operation of pB, so every   *)
(* identity conflict happens.  pB plans only one of the two keys.          *)
(***************************************************************************)
EXTENDS OnlineStore, TLC

CONSTANTS
  f1, g1, g2, k1, k2, a1, a2, b1, c1, o1, o2, o3, o4, o5, pA, pB, pC

MCPlanFs   == [p \in Plan |-> f1]
MCPlanGen  == [p \in Plan |-> IF p = pB THEN g2 ELSE g1]
MCPlanOp   == [p \in Plan |-> IF p = pA THEN o1 ELSE o2]
MCPlanRows == [p \in Plan |-> [k \in Key |->
  CASE p = pA -> IF k = k1 THEN a1 ELSE a2
    [] p = pB -> IF k = k1 THEN b1 ELSE Absent
    [] p = pC -> IF k = k1 THEN c1 ELSE a2]]

(* Clients differ in nothing but their names.                              *)
ClientSymmetry == Permutations(Client)

=============================================================================
