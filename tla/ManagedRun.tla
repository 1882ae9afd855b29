------------------------------ MODULE ManagedRun ------------------------------
(***************************************************************************)
(* What a managed run promises, whoever retries, dies or competes: every   *)
(* task has at most one result, the tasks obtain theirs in their order,    *)
(* what is recorded of a job is the job that was recorded as launched, and *)
(* the generation is published once, by a run whose parity is eligible.    *)
(***************************************************************************)
EXTENDS Naturals, Sequences

CONSTANTS
  Results,   \* [task -> the results it may have]
  None       \* no result

Order == <<"VALIDATE", "START_GLUE", "RECORD_GLUE", "MATERIALIZE_ONLINE",
           "PARITY", "ACTIVATE", "COMPLETE">>
Task == {Order[i] : i \in 1..Len(Order)}

VARIABLES
  result,    \* [Task -> its result or None]
  published  \* whether the online pointer was moved to this run's generation

Init == result = [t \in Task |-> None] /\ published = FALSE

Done(t) == result[t] # None

(* The task at position i obtains its result, after all those before it.   *)
Record(i) ==
  /\ ~Done(Order[i])
  /\ \A j \in 1..(i - 1) : Done(Order[j])
  /\ Order[i] \in {"ACTIVATE", "COMPLETE"} => published
  /\ \E r \in Results[Order[i]] :
       /\ Order[i] = "RECORD_GLUE" => r = result["START_GLUE"]
       /\ result' = [result EXCEPT ![Order[i]] = r]
  /\ UNCHANGED published

Publish ==
  /\ ~published
  /\ result["PARITY"] = "ELIGIBLE"
  /\ published' = TRUE
  /\ UNCHANGED result

Next == Publish \/ \E i \in 1..Len(Order) : Record(i)

Spec == Init /\ [][Next]_<<result, published>>

=============================================================================
