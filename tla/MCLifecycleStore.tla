-------------------------- MODULE MCLifecycleStore --------------------------
(***************************************************************************)
(* Two generations race for the first place, or the second replaces the    *)
(* first.  The authority eA agrees with the manifest of gA, eB with that   *)
(* of gB.  A builder may also offer the stray value x.  s1 and s2 claim    *)
(* one artifact identity, and both manifests link s1.                      *)
(***************************************************************************)
EXTENDS LifecycleStore, TLC

CONSTANTS gA, gB, k1, k2, a1, a2, b1, x, eA, eB, s1, s2, iA, iB, iS

RowsA == [k \in Key |-> IF k = k1 THEN a1 ELSE a2]
RowsB == [k \in Key |-> IF k = k1 THEN b1 ELSE Absent]

MCIdOf == [a \in Artifact |-> CASE a = eA -> iA [] a = eB -> iB [] OTHER -> iS]
MCArtifactRows == [a \in Artifact |-> IF a = eA THEN RowsA ELSE RowsB]
MCManifestRows == [g \in Generation |-> IF g = gA THEN RowsA ELSE RowsB]
MCLinks == [g \in Generation |-> Artifact \intersect {s1}]
MCOffered == [g \in Generation |-> [k \in Key |->
  CASE g = gA -> IF k = k1 THEN {a1, x} ELSE {a2}
    [] OTHER  -> {IF k = k1 THEN b1 ELSE x}]]
MCPredecessors == [g \in Generation |->
  IF g = gA THEN {NoGeneration} ELSE {NoGeneration, gA}]

(* Operations differ in nothing but their names.                           *)
OpSymmetry == Permutations(OpId)

=============================================================================
