--------------------------- MODULE MCCloudOnline ---------------------------
(***************************************************************************)
(* Three plans: pA and pB are successive generations of one feature set,   *)
(* pC claims the generation of pA for another feature set, with one record *)
(* of the same identity and other content.  A page holds one of the three  *)
(* items the table may have, so scans have several pages, and the table    *)
(* can hold as many items as the page budget of pB evaluates.              *)
(***************************************************************************)
EXTENDS CloudOnline, TLC

CONSTANTS f1, f2, g1, g2, k1, k2, a1, a2, b1, c1, pA, pB, pC, w1, w2

MCPlanFs   == [p \in Plan |-> IF p = pC THEN f2 ELSE f1]
MCPlanGen  == [p \in Plan |-> IF p = pB THEN g2 ELSE g1]
MCPlanRows == [p \in Plan |-> [k \in Key |->
  CASE p = pA -> IF k = k1 THEN a1 ELSE a2
    [] p = pB -> IF k = k1 THEN b1 ELSE Absent
    [] p = pC -> IF k = k1 THEN c1 ELSE Absent]]
MCSlot == [g \in Generation |-> [k \in Key |->
  IF g = g2 THEN (IF k = k1 THEN 2 ELSE 4) ELSE IF k = k1 THEN 1 ELSE 3]]

(* pB may be asked to follow g1 or, like pA, to be the first.              *)
Nothing == [gen |-> NoGeneration, version |-> 0]
MCExpects ==
  [p \in Plan |-> CASE p = pA -> {Nothing}
                    [] p = pB -> {Nothing, [gen |-> g1, version |-> 1]}
                    [] p = pC -> {}]

(* Workers differ in nothing but their names.                              *)
WorkerSymmetry == Permutations(Worker)

=============================================================================
