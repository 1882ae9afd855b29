------------------------- MODULE MCCandidateRecords -------------------------
(***************************************************************************)
(* Identities over an ASCII alphabet: the space (32), which sorts before   *)
(* the separator # (35), and A and B (65, 66), which sort after it.        *)
(***************************************************************************)
EXTENDS CandidateRecords

A       == <<65>>
AB      == <<65, 66>>
B       == <<66>>
ASpaceB == <<65, 32, 66>>

MCGenSuffix == <<35, 71, 35, 66>>
MCDefSuffix == <<35, 68, 35, 66>>

PlainIds == {A, AB, B}
SpacedIds == {A, ASpaceB}

(* Two features for every customer but the last.                           *)
PlainPlan  == {A, AB} \X {A, B} \union {<<B, A>>}
SpacedPlan == SpacedIds \X {A}

=============================================================================
