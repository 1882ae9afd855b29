---------------------------- MODULE MCControlPlane ----------------------------
(***************************************************************************)
(* Two executions of one run over two concurrent invocations, which is one *)
(* more than compute.tf reserves: the ledger must not depend on it.        *)
(***************************************************************************)
EXTENDS ControlPlane, TLC

(* Executions, invocations and readings differ in nothing but their names. *)
Symmetry == Permutations(Exec) \union Permutations(Invocation) \union Permutations(Reading)

=============================================================================
