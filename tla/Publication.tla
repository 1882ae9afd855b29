---------------------------- MODULE Publication ----------------------------
(***************************************************************************)
(* What a FeatureForge store promises about publishing generations, and    *)
(* nothing else: each feature set has a head that moves one version at a   *)
(* time, every move is logged, and a generation becomes visible in one     *)
(* step, complete, with content that never changes afterwards.             *)
(*                                                                         *)
(* LocalOnlineStore (online.py) and LifecycleStore (lifecycle.py) both     *)
(* implement this; only the second may publish a generation again.         *)
(***************************************************************************)
EXTENDS Naturals

CONSTANTS
  FeatureSet,    \* the independently published feature sets
  Generation,    \* generation identities
  Promised,      \* [FeatureSet -> [Generation -> set of complete contents]]
  NoGeneration,  \* the head of a feature set nothing was published for
  Hidden,        \* the content of a generation that was never published
  Rollback       \* whether a published generation may be published again

VARIABLES
  head,     \* [FeatureSet -> [gen, version]]: the pointer readers pin
  log,      \* the set of all moves made: [fs, version, gen]
  visible   \* [Generation -> content of the generation, or Hidden]

vars == <<head, log, visible>>

Init ==
  /\ head = [f \in FeatureSet |-> [gen |-> NoGeneration, version |-> 0]]
  /\ log = {}
  /\ visible = [g \in Generation |-> Hidden]

(* The head of f moves to another generation g under the next version.     *)
MoveHead(f, g) ==
  LET next == head[f].version + 1
  IN  /\ head[f].gen # g
      /\ head' = [head EXCEPT ![f] = [gen |-> g, version |-> next]]
      /\ log' = log \union {[fs |-> f, version |-> next, gen |-> g]}

(* A generation no reader has seen becomes visible, complete at once.      *)
PublishFirst(f, g) ==
  /\ MoveHead(f, g)
  /\ visible[g] = Hidden
  /\ \E content \in Promised[f][g] : visible' = [visible EXCEPT ![g] = content]

(* A generation published for f earlier is published again, unchanged.     *)
PublishAgain(f, g) ==
  /\ Rollback
  /\ MoveHead(f, g)
  /\ \E entry \in log : entry.fs = f /\ entry.gen = g
  /\ UNCHANGED visible

Next ==
  \E f \in FeatureSet, g \in Generation : PublishFirst(f, g) \/ PublishAgain(f, g)

Spec == Init /\ [][Next]_vars

=============================================================================
