----------------------------- MODULE ControlPlane -----------------------------
(***************************************************************************)
(* A managed materialization run: the Step Functions machine of            *)
(* infra/terraform/compute.tf, the Lambda control worker behind its tasks  *)
(* (control_worker.py), the task ledger (aws_runtime.py), the Glue         *)
(* launcher (glue_launch.py), immutable outputs (s3_immutable.py) and the  *)
(* Glue job that publishes with them (jobs/glue_point_in_time.py).         *)
(*                                                                         *)
(* The machine hears of an invocation only by its answer.  An invocation   *)
(* it gave up goes on: it still holds the function's concurrency, and what *)
(* it still writes meets what its own retry writes.                        *)
(***************************************************************************)
EXTENDS Naturals, FiniteSets, Sequences

CONSTANTS
  Exec,        \* executions of the machine for one run (one run_id)
  Invocation,  \* concurrent invocations (reserved_concurrent_executions)
  Reading,     \* what a live reading of quota, budget and lease may say
  MaxRetries,  \* MaxAttempts of the retrier (3 in compute.tf)
  MaxLaunches, \* MAX_GLUE_LAUNCHES (3 in the code)
  MaxAttempts, \* MAX_PUBLISH_ATTEMPTS (3 in the code)
  MaxFaults,   \* bound: crashes, lost answers, failures and outside changes
  None

ASSUME BoundAssumption ==
  /\ MaxRetries \in Nat /\ MaxFaults \in Nat
  /\ MaxLaunches \in Nat \ {0} /\ MaxAttempts \in Nat \ {0}

VARIABLES
  sf,       \* [Exec -> the execution: state, retries, invocation awaited, job]
  inv,      \* [Invocation -> the invocation that occupies it]
  ledger,   \* TASK# items of the run: [Task -> [state, owner, result]]
  binding,  \* the GLUE#AUTHORITY item: the execution it is bound to
  attempt,  \* GLUE#ATTEMPT# items: [slot -> NONE, RESERVED or COMPLETED]
  calls,    \* StartJobRun calls made under each slot (history)
  job,      \* the Glue job run each slot has started
  object,   \* the run's S3 prefix: [Key -> [body, version]]
  flying,   \* [Key -> bodies whose put was given up but may still arrive]
  online,   \* the candidate generation: its owner's state, and whole or not
  ptr,      \* the online pointer of the feature set
  op,       \* whether the operation item of this run's activation is there
  input,    \* what computation and comparison will find: [agree, passes]
  admitted, \* whether the admission the manifest names still holds
  harmed,   \* whether a fault happened that retries do not make good (history)
  faults    \* how many faults and outside changes there were (history)

durable == <<ledger, binding, attempt, object, online, ptr, op>>
world   == <<calls, job, flying, input, admitted, harmed, faults>>
vars    == <<sf, inv, durable, world>>

----------------------------------------------------------------------------
Order == <<"VALIDATE", "START_GLUE", "RECORD_GLUE", "MATERIALIZE_ONLINE",
           "PARITY", "ACTIVATE", "COMPLETE">>
Task  == {Order[i] : i \in 1..Len(Order)}
Slot  == 1..MaxLaunches
Key   == {"expected-state", "rows", "manifest", "output-authority", "parity-report"}
Ended == {"COMPLETED", "QUARANTINED", "TIMED_OUT"}

Results ==
  [VALIDATE |-> Exec \X Reading, START_GLUE |-> Slot, RECORD_GLUE |-> Slot,
   MATERIALIZE_ONLINE |-> {"VALIDATED"}, PARITY |-> {"ELIGIBLE", "QUARANTINED"},
   ACTIVATE |-> {"ACTIVATED"}, COMPLETE |-> {"RECEIPT"}]

Phase ==
  {"precheck", "verify", "freeze", "refreeze", "prior", "begin", "execute",
   "slot", "reserve", "launch", "note", "fill", "report", "rereport",
   "move", "complete"}

(* None is nothing that the run records, answers or stores.                *)
ASSUME NoneAssumption ==
  /\ None \notin Exec \union Invocation
  /\ \A t \in Task : None \notin Results[t]
  /\ \A n \in Slot : None # <<n>>
  /\ \A e \in Exec : None # <<e>>
  /\ None # <<"ELIGIBLE">>

Idle == [exec |-> None, task |-> None, pc |-> "idle", reading |-> None,
         slot |-> 1, try |-> 1, out |-> None]
Free == [state |-> "ABSENT", owner |-> None, result |-> None]
Missing == [body |-> None, version |-> 0]
NoJob == [state |-> "NONE", at |-> 1, pc |-> "put", try |-> 1]

TypeOK ==
  /\ \A e \in Exec : /\ sf[e].at \in {"ABSENT", "WAIT"} \union Task \union Ended
                     /\ sf[e].tries \in 0..MaxRetries
                     /\ sf[e].inv \in Invocation \union {None}
                     /\ sf[e].job \in Slot \union {None}
  /\ \A i \in Invocation :
       inv[i] # Idle => /\ inv[i].exec \in Exec /\ inv[i].task \in Task
                        /\ inv[i].pc \in Phase
                        /\ inv[i].slot \in Slot /\ inv[i].try \in 1..MaxAttempts
                        /\ inv[i].pc = "complete" => inv[i].out \in Results[inv[i].task]
  /\ \A t \in Task :
       /\ ledger[t].state \in {"ABSENT", "STARTED", "COMPLETED"}
       /\ ledger[t].state # "ABSENT" => ledger[t].owner \in Exec
       /\ ledger[t].state = "COMPLETED" => ledger[t].result \in Results[t]
  /\ binding \in Exec \union {None}
  /\ attempt \in [Slot -> {"NONE", "RESERVED", "COMPLETED"}]
  /\ \A n \in Slot : job[n].state \in {"NONE", "RUNNING", "SUCCEEDED", "FAILED"}
  /\ DOMAIN object = Key
  /\ online.state \in {"ABSENT", "WRITING", "VALIDATED"} /\ online.whole \in BOOLEAN
  /\ ptr \in [gen: {"none", "ours", "other"}, version: 0..2]
  /\ {op, admitted, input.agree, input.passes} \subseteq BOOLEAN
  /\ faults \in 0..MaxFaults

Init ==
  /\ sf = [e \in Exec |-> [at |-> "ABSENT", tries |-> 0, inv |-> None, job |-> None]]
  /\ inv = [i \in Invocation |-> Idle]
  /\ ledger = [t \in Task |-> Free]
  /\ binding = None
  /\ attempt = [n \in Slot |-> "NONE"]
  /\ calls = [n \in Slot |-> 0]
  /\ job = [n \in Slot |-> NoJob]
  /\ object = [k \in Key |-> Missing]
  /\ flying = [k \in Key |-> {}]
  /\ online = [state |-> "ABSENT", whole |-> TRUE]
  /\ ptr = [gen |-> "none", version |-> 0]
  /\ op = FALSE
  /\ input \in [agree: BOOLEAN, passes: BOOLEAN] /\ (input.passes => input.agree)
  /\ admitted = TRUE
  /\ harmed = FALSE /\ faults = 0

Fault(harm) ==
  /\ faults < MaxFaults
  /\ faults' = faults + 1
  /\ harmed' = (harmed \/ harm)

----------------------------------------------------------------------------
(* The machine's side of an invocation.                                    *)

Heard(i) == sf[inv[i].exec].inv = i

Succ == [VALIDATE |-> "START_GLUE", START_GLUE |-> "WAIT",
         RECORD_GLUE |-> "MATERIALIZE_ONLINE", MATERIALIZE_ONLINE |-> "PARITY",
         PARITY |-> "ACTIVATE", ACTIVATE |-> "COMPLETE", COMPLETE |-> "COMPLETED"]

(* The state after a task that answered r; ParityDecision is part of it.   *)
After(t, r) == IF t = "PARITY" /\ r # "ELIGIBLE" THEN "QUARANTINED" ELSE Succ[t]

Advance(e, t, r) ==
  sf' = [sf EXCEPT ![e].at = After(t, r), ![e].tries = 0, ![e].inv = None,
                   ![e].job = IF t = "START_GLUE" THEN r ELSE @]
Quarantine(e) == sf' = [sf EXCEPT ![e].at = "QUARANTINED", ![e].inv = None]
(* Retry: MaxAttempts times, then Catch.                                   *)
Retry(e) ==
  IF sf[e].tries < MaxRetries
    THEN sf' = [sf EXCEPT ![e].tries = @ + 1, ![e].inv = None]
    ELSE Quarantine(e)

Return(i, r) ==
  /\ inv' = [inv EXCEPT ![i] = Idle]
  /\ IF Heard(i) THEN Advance(inv[i].exec, inv[i].task, r) ELSE UNCHANGED sf
Raise(i) ==
  /\ inv' = [inv EXCEPT ![i] = Idle]
  /\ IF Heard(i) THEN Quarantine(inv[i].exec) ELSE UNCHANGED sf
RaiseRetryable(i) ==
  /\ inv' = [inv EXCEPT ![i] = Idle]
  /\ IF Heard(i) THEN Retry(inv[i].exec) ELSE UNCHANGED sf

At(i, t, pc) == inv[i].task = t /\ inv[i].pc = pc
Step(i, changes) == inv' = [inv EXCEPT ![i] = changes] /\ UNCHANGED sf
Goto(i, pc) == Step(i, [inv[i] EXCEPT !.pc = pc])
Finish(i, r) == Step(i, [inv[i] EXCEPT !.pc = "complete", !.out = r])

----------------------------------------------------------------------------
(* put_immutable_output: If-None-Match puts, and after an ambiguous answer *)
(* a read that recovers an identical object or fails.                      *)

(* Mutant: the put is not conditional on the key being free.               *)
CreateOrReplace(k, body) ==
  object' = [object EXCEPT ![k] = [body |-> body, version |-> @.version + 1]]
Create(k, body) ==
  /\ object[k] = Missing
  /\ object' = [object EXCEPT ![k] = [body |-> body, version |-> 1]]

(* One put: answered, refused because the key is taken, or lost.           *)
Put(k, body, ok, again) ==
  \/ Create(k, body) /\ ok /\ UNCHANGED <<flying, faults, harmed>>
  \/ object[k] # Missing /\ again /\ UNCHANGED <<object, flying, faults, harmed>>
  \/ /\ Fault(FALSE) /\ again
     /\ flying' = [flying EXCEPT ![k] = @ \union {body}]
     /\ UNCHANGED object

(* _reconcile_existing and the attempts around it.                         *)
Reconcile(k, body, try, ok, again, exc) ==
  /\ \/ object[k] = Missing /\ IF try = MaxAttempts THEN exc ELSE again
     \/ object[k] # Missing /\ IF object[k].body = body THEN ok ELSE exc
  /\ UNCHANGED <<object, flying, faults, harmed>>

(* The bound on attempts, in an invocation: its pc moves between put and   *)
(* reconcile, and the next attempt begins with the put.                    *)
Again(i, pc) == Step(i, [inv[i] EXCEPT !.pc = pc, !.try = @ + 1])

(* A put whose answer was lost arrives now, under the same condition.      *)
Land(k, body) ==
  /\ flying' = [flying EXCEPT ![k] = @ \ {body}]
  /\ IF object[k] = Missing THEN Create(k, body) ELSE UNCHANGED object
  /\ UNCHANGED <<sf, inv, ledger, binding, attempt, online, ptr, op, calls, job,
                 input, admitted, harmed, faults>>

----------------------------------------------------------------------------
(* DynamoTaskLedger.  begin and complete read, write under a condition and *)
(* read again if it failed; items only move forward and the write decides, *)
(* so each is one step.                                                    *)

Done(t) == ledger[t].state = "COMPLETED"
ResultOf(t) == ledger[t].result

Begin(t, e, started, replay, exc) ==
  \/ /\ ledger[t].state = "ABSENT" /\ started
     /\ ledger' = [ledger EXCEPT ![t] = [Free EXCEPT !.state = "STARTED", !.owner = e]]
  \/ /\ ledger[t].state # "ABSENT" /\ UNCHANGED ledger
     /\ CASE ledger[t].owner # e -> exc
          [] ledger[t].owner = e /\ Done(t) -> replay
          [] ledger[t].owner = e /\ ~Done(t) -> started

(* Mutant: a later completion replaces the result.                         *)
CompleteAgain(t, r, ok, exc) ==
  ok /\ ledger' = [ledger EXCEPT ![t].state = "COMPLETED", ![t].result = r]
(* Mutant: a completed task is answered without comparing the results.     *)
CompleteUncompared(t, r, ok, exc) ==
  \/ ~Done(t) /\ ok /\ ledger' = [ledger EXCEPT ![t].state = "COMPLETED", ![t].result = r]
  \/ Done(t) /\ ok /\ UNCHANGED ledger
Complete(t, r, ok, exc) ==
  \/ /\ ~Done(t) /\ ok
     /\ ledger' = [ledger EXCEPT ![t].state = "COMPLETED", ![t].result = r]
  \/ Done(t) /\ UNCHANGED ledger /\ IF ResultOf(t) = r THEN ok ELSE exc

LedgerOnly == UNCHANGED <<binding, attempt, object, online, ptr, op, world>>
NothingWritten == UNCHANGED <<durable, world>>

----------------------------------------------------------------------------
(* dispatch(): what precedes the task's own work.                          *)

(* VALIDATE looks at the ledger, verifies the admission and freezes the    *)
(* expected state before it begins the task.                               *)
Precheck(i) ==
  /\ At(i, "VALIDATE", "precheck")
  /\ IF ledger["VALIDATE"].owner \in {None, inv[i].exec}
       THEN Goto(i, "verify") ELSE Raise(i)
  /\ NothingWritten

Verify(i) ==
  /\ At(i, "VALIDATE", "verify")
  /\ \/ admitted /\ \E r \in Reading : Step(i, [inv[i] EXCEPT !.pc = "freeze", !.reading = r])
     \/ ~admitted /\ Raise(i)
  /\ NothingWritten

(* Mutant: the frozen state names the reading as well as the execution.    *)
FrozenWithReading(i) == <<inv[i].exec, inv[i].reading>>
Frozen(i) == <<inv[i].exec>>

Freeze(i) ==
  /\ inv[i].task = "VALIDATE"
  /\ \/ /\ inv[i].pc = "freeze"
        /\ Put("expected-state", Frozen(i), Goto(i, "begin"), Goto(i, "refreeze"))
     \/ /\ inv[i].pc = "refreeze"
        /\ Reconcile("expected-state", Frozen(i), inv[i].try,
                     Goto(i, "begin"), Again(i, "freeze"), Raise(i))
  /\ UNCHANGED <<ledger, binding, attempt, online, ptr, op, calls, job, input, admitted>>

(* Every other task first needs VALIDATE's receipt and a current admission.*)
Prior(i) ==
  /\ inv[i].pc = "prior"
  /\ IF Done("VALIDATE") /\ admitted THEN Goto(i, "begin") ELSE Raise(i)
  /\ NothingWritten

BeginTask(i) ==
  /\ inv[i].pc = "begin"
  /\ Begin(inv[i].task, inv[i].exec,
           IF inv[i].task = "VALIDATE"
             THEN Finish(i, <<inv[i].exec, inv[i].reading>>) ELSE Goto(i, "execute"),
           Return(i, ResultOf(inv[i].task)),
           Raise(i))
  /\ LedgerOnly

CompleteTask(i) ==
  /\ inv[i].pc = "complete"
  /\ Complete(inv[i].task, inv[i].out, Return(i, inv[i].out), Raise(i))
  /\ LedgerOnly

----------------------------------------------------------------------------
(* START_GLUE: DurableGlueLauncher.start.                                  *)

BindLaunch(i) ==
  /\ At(i, "START_GLUE", "execute")
  /\ \/ /\ ResultOf("VALIDATE")[1] # inv[i].exec /\ Raise(i) /\ UNCHANGED binding
     \/ /\ ResultOf("VALIDATE")[1] = inv[i].exec
        /\ \/ binding = None /\ binding' = inv[i].exec /\ Goto(i, "slot")
           \/ /\ binding # None /\ UNCHANGED binding
              /\ IF binding = inv[i].exec THEN Goto(i, "slot") ELSE Raise(i)
  /\ UNCHANGED <<ledger, attempt, object, online, ptr, op, world>>

NextSlot(i) ==
  IF inv[i].slot = MaxLaunches THEN Raise(i)
  ELSE Step(i, [inv[i] EXCEPT !.pc = "slot", !.slot = @ + 1])

(* Mutant: a reserved slot without a result is used again.                 *)
ReadSlotAgain(i) ==
  /\ inv[i].pc = "slot"
  /\ IF attempt[inv[i].slot] = "COMPLETED" THEN Finish(i, inv[i].slot)
     ELSE Goto(i, IF attempt[inv[i].slot] = "NONE" THEN "reserve" ELSE "launch")
  /\ NothingWritten
ReadSlot(i) ==
  /\ inv[i].pc = "slot"
  /\ CASE attempt[inv[i].slot] = "COMPLETED" -> Finish(i, inv[i].slot)
       [] attempt[inv[i].slot] = "RESERVED"  -> NextSlot(i)
       [] attempt[inv[i].slot] = "NONE"      -> Goto(i, "reserve")
  /\ NothingWritten

Reserve(i) ==
  /\ inv[i].pc = "reserve"
  /\ \/ /\ attempt[inv[i].slot] = "NONE"
        /\ attempt' = [attempt EXCEPT ![inv[i].slot] = "RESERVED"]
        /\ Goto(i, "launch")
     \/ /\ attempt[inv[i].slot] # "NONE"     \* the race is lost; no look at the winner
        /\ NextSlot(i) /\ UNCHANGED attempt
  /\ UNCHANGED <<ledger, binding, object, online, ptr, op, world>>

Running == {n \in Slot : job[n].state = "RUNNING"}

(* StartJobRun: one run at a time; the answer may be lost, with or without *)
(* a run having started.                                                   *)
Launch(i) ==
  LET n == inv[i].slot
      started == job' = [job EXCEPT ![n].state = "RUNNING"]
  IN /\ inv[i].pc = "launch"
     /\ calls' = [calls EXCEPT ![n] = @ + 1]
     /\ \/ /\ Running = {} /\ started /\ Goto(i, "note")
           /\ UNCHANGED <<harmed, faults>>
        \/ /\ Running # {} /\ RaiseRetryable(i)
           /\ UNCHANGED <<job, harmed, faults>>
        \/ /\ Fault(TRUE) /\ RaiseRetryable(i)
           /\ UNCHANGED job \/ (Running = {} /\ started)
     /\ UNCHANGED <<durable, flying, input, admitted>>

NoteLaunch(i) ==
  /\ inv[i].pc = "note"
  /\ attempt' = [attempt EXCEPT ![inv[i].slot] = "COMPLETED"]
  /\ Finish(i, inv[i].slot)
  /\ UNCHANGED <<ledger, binding, object, online, ptr, op, world>>

----------------------------------------------------------------------------
(* The Glue job run of slot n: rows, manifest and, last, the authority     *)
(* that names the launch.                                                  *)

Outputs == <<"rows", "manifest", "output-authority">>
Body(n) == IF Outputs[job[n].at] = "output-authority" THEN <<n>> ELSE <<None>>

Published(n) ==
  job' = [job EXCEPT ![n] =
            IF job[n].at = Len(Outputs) THEN [NoJob EXCEPT !.state = "SUCCEEDED"]
            ELSE [NoJob EXCEPT !.state = "RUNNING", !.at = job[n].at + 1]]
Failed(n) == job' = [job EXCEPT ![n] = [NoJob EXCEPT !.state = "FAILED"]]

JobStep(n) ==
  LET k == Outputs[job[n].at] IN
  /\ job[n].state = "RUNNING"
  /\ \/ /\ job[n].pc = "put"
        /\ Put(k, Body(n), Published(n), job' = [job EXCEPT ![n].pc = "reconcile"])
     \/ /\ job[n].pc = "reconcile"
        /\ Reconcile(k, Body(n), job[n].try, Published(n),
                     job' = [job EXCEPT ![n].pc = "put", ![n].try = @ + 1], Failed(n))
  /\ UNCHANGED <<sf, inv, ledger, binding, attempt, online, ptr, op, calls, input, admitted>>

(* A run fails or is stopped for a reason of its own.                      *)
JobFails(n) ==
  /\ job[n].state = "RUNNING" /\ Fault(TRUE) /\ Failed(n)
  /\ UNCHANGED <<sf, inv, durable, calls, flying, input, admitted>>

(* WaitForGlueCompletion, VerifyGlueCompletion, GlueCompletionDecision.    *)
(* Mutant: a run that is not successful is waited for.                     *)
PollUntilSucceeded(e) ==
  /\ sf[e].at = "WAIT"
  /\ job[sf[e].job].state = "SUCCEEDED"
  /\ sf' = [sf EXCEPT ![e].at = "RECORD_GLUE"]
  /\ NothingWritten /\ UNCHANGED inv
Poll(e) ==
  /\ sf[e].at = "WAIT"
  /\ \/ job[sf[e].job].state = "SUCCEEDED" /\ sf' = [sf EXCEPT ![e].at = "RECORD_GLUE"]
     \/ job[sf[e].job].state \in {"FAILED", "NONE"} /\ Quarantine(e)
  /\ NothingWritten /\ UNCHANGED inv

----------------------------------------------------------------------------
(* The tasks after the job.                                                *)

(* RECORD_GLUE reads the latest output authority and compares its launch.  *)
RecordGlue(i) ==
  /\ At(i, "RECORD_GLUE", "execute")
  /\ IF /\ Done("START_GLUE") /\ sf[inv[i].exec].job = ResultOf("START_GLUE")
        /\ object["output-authority"].body = <<ResultOf("START_GLUE")>>
        /\ object["rows"] # Missing /\ object["manifest"] # Missing
       THEN Finish(i, ResultOf("START_GLUE")) ELSE Raise(i)
  /\ NothingWritten

(* _plan: the outputs are those recorded, the frozen state is the one of   *)
(* the admitted execution, and the two agree.                              *)
PlanHolds ==
  /\ Done("VALIDATE") /\ Done("RECORD_GLUE")
  /\ object["expected-state"].body = <<ResultOf("VALIDATE")[1]>>
  /\ input.agree

(* records(): every record of the sealed generation.                       *)
RecordsWhole == online.state = "VALIDATED" /\ online.whole

(* MATERIALIZE_ONLINE: CloudOnline.tla has this and the activation in full;*)
(* here the generation is claimed, and later written, sealed and validated.*)
ClaimGeneration(i) ==
  /\ At(i, "MATERIALIZE_ONLINE", "execute")
  /\ IF ~PlanHolds THEN Raise(i) /\ UNCHANGED online
     ELSE /\ Goto(i, "fill")
          /\ online' = IF online.state = "ABSENT" THEN [online EXCEPT !.state = "WRITING"]
                                                  ELSE online
  /\ UNCHANGED <<ledger, binding, attempt, object, ptr, op, world>>

FillGeneration(i) ==
  /\ inv[i].pc = "fill"
  /\ IF online.state = "VALIDATED" /\ ~online.whole THEN Raise(i) /\ UNCHANGED online
     ELSE /\ online' = [online EXCEPT !.state = "VALIDATED"]
          /\ Finish(i, "VALIDATED")
  /\ UNCHANGED <<ledger, binding, attempt, object, ptr, op, world>>

(* PARITY: the report is frozen whatever it says.                          *)
(* Mutant: the report is written, but not what it says is decided.         *)
DecisionUnread == "ELIGIBLE"
Decision == IF input.passes THEN "ELIGIBLE" ELSE "QUARANTINED"

CompareRecords(i) ==
  /\ At(i, "PARITY", "execute")
  /\ IF Done("MATERIALIZE_ONLINE") /\ PlanHolds /\ RecordsWhole
       THEN Goto(i, "report") ELSE Raise(i)
  /\ NothingWritten

FreezeReport(i) ==
  /\ \/ /\ inv[i].pc = "report"
        /\ Put("parity-report", <<Decision>>, Finish(i, Decision), Goto(i, "rereport"))
     \/ /\ inv[i].pc = "rereport"
        /\ Reconcile("parity-report", <<Decision>>, inv[i].try,
                     Finish(i, Decision), Again(i, "report"), Raise(i))
  /\ UNCHANGED <<ledger, binding, attempt, online, ptr, op, calls, job, input, admitted>>

(* ACTIVATE: eligible parity, its full report, the plan and the records    *)
(* once more, and then the conditional move of the pointer.                *)
ParityEligible ==
  /\ Done("PARITY") /\ ResultOf("PARITY") = "ELIGIBLE"
  /\ object["parity-report"].body = <<"ELIGIBLE">>

ConfirmParity(i) ==
  /\ At(i, "ACTIVATE", "execute")
  /\ IF ParityEligible /\ Done("MATERIALIZE_ONLINE") /\ PlanHolds /\ RecordsWhole
       THEN Goto(i, "move") ELSE Raise(i)
  /\ NothingWritten

Expected == [gen |-> "none", version |-> 0]

(* Mutant: the operation item of an earlier attempt is not looked for.     *)
MovePointerAfresh(i) ==
  /\ inv[i].pc = "move"
  /\ \/ /\ ptr = Expected /\ ptr' = [gen |-> "ours", version |-> 1] /\ op' = TRUE
        /\ Finish(i, "ACTIVATED")
     \/ ptr # Expected /\ Raise(i) /\ UNCHANGED <<ptr, op>>
  /\ UNCHANGED <<ledger, binding, attempt, object, online, world>>
MovePointer(i) ==
  /\ inv[i].pc = "move"
  /\ \/ op /\ Finish(i, "ACTIVATED") /\ UNCHANGED <<ptr, op>>
     \/ /\ ~op /\ ptr = Expected
        /\ ptr' = [gen |-> "ours", version |-> ptr.version + 1] /\ op' = TRUE
        /\ Finish(i, "ACTIVATED")
     \/ ~op /\ ptr # Expected /\ Raise(i) /\ UNCHANGED <<ptr, op>>
  /\ UNCHANGED <<ledger, binding, attempt, object, online, world>>

(* COMPLETE: every receipt, and every output it binds, is read again.      *)
CompleteRun(i) ==
  /\ At(i, "COMPLETE", "execute")
  /\ IF /\ \A t \in Task \ {"COMPLETE"} : Done(t)
        /\ \A k \in Key : object[k] # Missing
       THEN Finish(i, "RECEIPT") ELSE Raise(i)
  /\ NothingWritten

InvocationStep(i) ==
  \/ Precheck(i) \/ Verify(i) \/ Freeze(i) \/ Prior(i) \/ BeginTask(i) \/ CompleteTask(i)
  \/ BindLaunch(i) \/ ReadSlot(i) \/ Reserve(i) \/ Launch(i) \/ NoteLaunch(i)
  \/ RecordGlue(i) \/ ClaimGeneration(i) \/ FillGeneration(i)
  \/ CompareRecords(i) \/ FreezeReport(i) \/ ConfirmParity(i) \/ MovePointer(i)
  \/ CompleteRun(i)

----------------------------------------------------------------------------
(* The machine.                                                            *)

Submit(e) ==
  /\ sf[e].at = "ABSENT"
  /\ sf' = [sf EXCEPT ![e].at = "VALIDATE"]
  /\ harmed' = (harmed \/ \E d \in Exec \ {e} : sf[d].at # "ABSENT")
  /\ UNCHANGED <<inv, durable, calls, job, flying, input, admitted, faults>>

Waiting(e) == sf[e].at \in Task /\ sf[e].inv = None

Invoke(e) ==
  /\ Waiting(e)
  /\ \E i \in Invocation :
       /\ inv[i] = Idle
       /\ inv' = [inv EXCEPT ![i] =
                    [Idle EXCEPT !.exec = e, !.task = sf[e].at,
                                 !.pc = IF sf[e].at = "VALIDATE" THEN "precheck" ELSE "prior"]]
       /\ sf' = [sf EXCEPT ![e].inv = i]
  /\ NothingWritten

(* Lambda.TooManyRequestsException: the concurrency is taken.              *)
Throttle(e) ==
  /\ Waiting(e) /\ \A i \in Invocation : inv[i] # Idle
  /\ Retry(e)
  /\ NothingWritten /\ UNCHANGED inv

(* Faults.  An invocation dies and the service says so; it fails in a way  *)
(* the retrier does not name (its timeout, an unclassified error); or the  *)
(* machine hears of a service error while the invocation goes on.          *)
Crash(i) ==
  /\ inv[i] # Idle /\ Fault(inv[i].pc \in {"launch", "note"}) /\ RaiseRetryable(i)
  /\ UNCHANGED <<durable, calls, job, flying, input, admitted>>
Abort(i) ==
  /\ inv[i] # Idle /\ Heard(i) /\ Fault(TRUE) /\ Raise(i)
  /\ UNCHANGED <<durable, calls, job, flying, input, admitted>>
Orphan(i) ==
  /\ inv[i] # Idle /\ Heard(i) /\ Fault(TRUE)
  /\ Retry(inv[i].exec)
  /\ UNCHANGED <<inv, durable, calls, job, flying, input, admitted>>

(* TimeoutSeconds of the machine.                                          *)
Timeout(e) ==
  /\ sf[e].at \notin Ended \union {"ABSENT"} /\ Fault(TRUE)
  /\ sf' = [sf EXCEPT ![e].at = "TIMED_OUT", ![e].inv = None]
  /\ UNCHANGED <<inv, durable, calls, job, flying, input, admitted>>

(* Changes from outside: the admission ends, a record grows too old, and   *)
(* another run moves the pointer.                                          *)
Lapse ==
  /\ admitted /\ admitted' = FALSE /\ Fault(TRUE)
  /\ UNCHANGED <<sf, inv, durable, calls, job, flying, input>>
ExpireRecord ==
  /\ online.state = "VALIDATED" /\ online.whole /\ Fault(TRUE)
  /\ online' = [online EXCEPT !.whole = FALSE]
  /\ UNCHANGED <<sf, inv, ledger, binding, attempt, object, ptr, op, calls, job,
                 flying, input, admitted>>
OtherActivation ==
  /\ ptr.gen # "other" /\ Fault(TRUE)
  /\ ptr' = [gen |-> "other", version |-> ptr.version + 1]
  /\ UNCHANGED <<sf, inv, ledger, binding, attempt, object, online, op, calls, job,
                 flying, input, admitted>>

Next ==
  \/ \E e \in Exec : Submit(e) \/ Invoke(e) \/ Throttle(e) \/ Poll(e) \/ Timeout(e)
  \/ \E i \in Invocation : InvocationStep(i) \/ Crash(i) \/ Abort(i) \/ Orphan(i)
  \/ \E n \in Slot : JobStep(n) \/ JobFails(n)
  \/ \E k \in Key : \E body \in flying[k] : Land(k, body)
  \/ Lapse \/ ExpireRecord \/ OtherActivation

(* Step Functions advances what it has, a running invocation goes on (its  *)
(* requests have timeouts), and so does a Glue run (it has one, too).      *)
Fairness ==
  /\ \A e \in Exec : WF_vars(Invoke(e) \/ Throttle(e) \/ Poll(e))
  /\ \A i \in Invocation : WF_vars(InvocationStep(i))
  /\ \A n \in Slot : WF_vars(JobStep(n))

Spec == Init /\ [][Next]_vars /\ Fairness

----------------------------------------------------------------------------
(* Properties.                                                             *)

(* What the machine carries on is durable: an execution that is past a     *)
(* task has that task completed under its own identity, and the job it     *)
(* waits for is the one the ledger names.                                  *)
Place(at) == CASE at \in Task -> CHOOSE n \in 1..Len(Order) : Order[n] = at
               [] at = "WAIT" -> 3
               [] at = "COMPLETED" -> 8
               [] OTHER -> 1
CarriedIsDurable ==
  \A e \in Exec :
    /\ \A n \in 1..(Place(sf[e].at) - 1) :
         Done(Order[n]) /\ ledger[Order[n]].owner = e
    /\ sf[e].at \in {"WAIT", "RECORD_GLUE"} => sf[e].job = ResultOf("START_GLUE")

(* A moved pointer has its whole proof behind it: the outputs in the prefix*)
(* are those of the recorded launch, made by a run that succeeded; they    *)
(* agree with the state frozen before the run by the admitted execution;   *)
(* the records pass the comparison, and the frozen report says so.         *)
ActivatedIsProven ==
  op => /\ Done("RECORD_GLUE") /\ object["output-authority"].body = <<ResultOf("RECORD_GLUE")>>
        /\ job[ResultOf("RECORD_GLUE")].state = "SUCCEEDED"
        /\ object["expected-state"].body = <<ledger["PARITY"].owner>>
        /\ input.agree /\ input.passes /\ ParityEligible

(* The launch budget: a slot stands for at most one call of StartJobRun,   *)
(* and no run exists without its slot.                                     *)
LaunchBound ==
  /\ \A n \in Slot : calls[n] <= 1
  /\ \A n \in Slot : calls[n] = 1 => attempt[n] # "NONE"
  /\ Cardinality(Running) <= 1

(* What retries are for: crashes (but one in the middle of a launch) and   *)
(* lost puts within the retry budget are not seen from outside.  A run is  *)
(* quarantined because of its data, or of something else that happened.    *)
RetriesAreHarmless ==
  \A e \in Exec :
    sf[e].at = "QUARANTINED" =>
      ~input.agree \/ ~input.passes \/ harmed

(* Objects and task records are written once: neither a retry nor a late   *)
(* put nor another job run changes what an authority has named.            *)
WrittenOnce ==
  [][/\ \A k \in Key : object[k] # Missing => object'[k] = object[k]
     /\ \A t \in Task : Done(t) => ledger'[t] = ledger[t]]_vars

(* Every execution that was submitted ends, whatever befell its retries.   *)
EventuallyEnds == \A e \in Exec : sf[e].at # "ABSENT" ~> sf[e].at \in Ended

TaskResults == [t \in Task |-> IF Done(t) THEN ResultOf(t) ELSE None]

Abstract == INSTANCE ManagedRun WITH result <- TaskResults, published <- op

(* The run keeps the promise of ManagedRun.                                *)
ImplementsManagedRun == Abstract!Spec

=============================================================================
