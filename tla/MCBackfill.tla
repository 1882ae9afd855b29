----------------------------- MODULE MCBackfill -----------------------------
(* Two customers and three payments: e1 moves by correction from outside a  *)
(* window into the cutoff's window and back out, e2 is retracted, and a     *)
(* rival revision of e1 makes the history ambiguous.                        *)
EXTENDS Backfill, TLC

CONSTANTS g1, g2, w1, w2

Upsert(id, event, customer, at, known, status) ==
    [id |-> id, event |-> event, customer |-> customer, at |-> at, known |-> known,
     op |-> "upsert", status |-> status, amount |-> id, risk |-> 5 - id]

MCOffered ==
    {Upsert(1, "e1", "c1", 3, 3, "succeeded"),
     Upsert(2, "e1", "c1", 1, 4, "failed"),
     Upsert(3, "e2", "c2", 2, 3, "succeeded"),
     [id |-> 4, event |-> "e2", customer |-> "c2", at |-> 2, known |-> 5,
      op |-> "retract", status |-> "none", amount |-> 0, risk |-> 0],
     Upsert(5, "e1", "c1", 5, 4, "succeeded")}

MCDefinitions ==
    {[computation |-> "transaction_count", window |-> 2, empty |-> 0],
     [computation |-> "successful_spend_cents", window |-> 3, empty |-> 0],
     [computation |-> "failed_payment_ratio", window |-> 3, empty |-> 0],
     [computation |-> "hours_since_success", window |-> Nil, empty |-> Nil],
     [computation |-> "max_merchant_risk", window |-> 2, empty |-> Nil]}

MCCustomers == {"c1", "c2"}
MCKnowledge == {3, 5}
MCAsOf == {3}
MCFraction == <<3, 4>>
MCLabels == {[customer |-> "c1", time |-> 4, prediction |-> 4],
             [customer |-> "c2", time |-> 3, prediction |-> 3]}
MCGens == {g1, g2}
MCWriters == {w1, w2}
Symmetry == Permutations(MCWriters) \cup Permutations(MCGens)
=============================================================================
