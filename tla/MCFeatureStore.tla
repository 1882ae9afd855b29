--------------------------- MODULE MCFeatureStore ---------------------------
(***************************************************************************)
(* One feature key, whose values lie at two times and have two contents.   *)
(***************************************************************************)
EXTENDS FeatureStore, TLC

(* Clients, generations and contents differ in nothing but their names.    *)
Symmetry ==
  Permutations(Client) \union Permutations(Generation) \union Permutations(Content)

=============================================================================
