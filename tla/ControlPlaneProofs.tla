------------------------- MODULE ControlPlaneProofs -------------------------
(***************************************************************************)
(* Proofs about ControlPlane, for any executions of the run, concurrent    *)
(* invocations and readings, and any bounds on retries, launches, attempts *)
(* and faults.                                                             *)
(***************************************************************************)
EXTENDS ControlPlane, FiniteSetTheorems, TLAPS

(* What an invocation may be about to record.                              *)
Outcome == UNION {Results[t] : t \in Task}

Execution ==
  [at: {"ABSENT", "WAIT"} \union Task \union Ended, tries: 0..MaxRetries,
   inv: Invocation \union {None}, job: Slot \union {None}]
Call ==
  [exec: Exec \union {None}, task: Task \union {None}, pc: Phase \union {"idle"},
   reading: Reading \union {None}, slot: Slot, try: 1..MaxAttempts,
   out: Outcome \union {None}]
Entry ==
  [state: {"ABSENT", "STARTED", "COMPLETED"}, owner: Exec \union {None},
   result: Outcome \union {None}]
JobRun ==
  [state: {"NONE", "RUNNING", "SUCCEEDED", "FAILED"}, at: 1..3,
   pc: {"put", "reconcile"}, try: 1..MaxAttempts]
Online == [state: {"ABSENT", "WRITING", "VALIDATED"}, whole: BOOLEAN]
Ptr == [gen: {"none", "ours", "other"}, version: 0..2]

----------------------------------------------------------------------------
(* The inductive invariant.                                                *)

TableInv ==
  /\ ledger \in [Task -> Entry]
  /\ binding \in Exec \union {None}
  /\ attempt \in [Slot -> {"NONE", "RESERVED", "COMPLETED"}]
  /\ calls \in [Slot -> Nat]
  /\ job \in [Slot -> JobRun]
  /\ object = [k \in Key |-> object[k]]
  /\ flying = [k \in Key |-> flying[k]]
  /\ online \in Online
  /\ ptr \in Ptr
  /\ ptr.gen = "none" => ptr.version = 0
  /\ ptr.gen = "ours" => ptr.version = 1
  /\ op \in BOOLEAN /\ admitted \in BOOLEAN /\ harmed \in BOOLEAN
  /\ input \in [agree: BOOLEAN, passes: BOOLEAN]
  /\ faults \in 0..MaxFaults

TypeInv ==
  /\ sf \in [Exec -> Execution]
  /\ inv \in [Invocation -> Call]
  /\ TableInv

(* The tasks an execution at this place has behind it.                     *)
Before(at) == {Order[n] : n \in 1..(Place(at) - 1)}

(* Those tasks are completed, by e.                                        *)
Behind(e, at) == \A t \in Before(at) : Done(t) /\ ledger[t].owner = e

(* The execution e has seen its job succeed.                               *)
PastWait(e) ==
  /\ sf[e].at \notin {"ABSENT", "VALIDATE", "START_GLUE", "WAIT"}
  /\ sf[e].job \in Slot /\ job[sf[e].job].state = "SUCCEEDED"

(* What stands behind the result r of the task t of the execution e.       *)
Evidence(t, e, r) ==
  /\ r \in Results[t]
  /\ t = "VALIDATE" => r[1] = e
  /\ t = "RECORD_GLUE" =>
       /\ r = ResultOf("START_GLUE")
       /\ object["output-authority"].body = <<r>>
       /\ job[r].state = "SUCCEEDED"
  /\ t = "PARITY" => r = Decision
  /\ t = "ACTIVATE" => op

(* What the pointer is moved upon.                                         *)
MoveReady ==
  /\ Done("VALIDATE") /\ Done("RECORD_GLUE") /\ ParityEligible
  /\ object["expected-state"].body = <<ResultOf("VALIDATE")[1]>>
  /\ input.agree

Begun ==
  {"execute", "slot", "reserve", "launch", "note", "fill", "report", "rereport",
   "move", "complete"}

(* The task at which an invocation may be at pc.                           *)
Suits(t, pc) ==
  /\ pc \in {"precheck", "verify", "freeze", "refreeze"} => t = "VALIDATE"
  /\ pc = "prior" => t # "VALIDATE"
  /\ pc = "execute" => t # "VALIDATE"
  /\ pc \in {"slot", "reserve", "launch", "note"} => t = "START_GLUE"
  /\ pc = "fill" => t = "MATERIALIZE_ONLINE"
  /\ pc \in {"report", "rereport"} => t = "PARITY"
  /\ pc = "move" => t = "ACTIVATE"

(* What holds of an invocation wherever it is ...                          *)
Called(c) ==
  /\ c.exec \in Exec /\ c.task \in Task
  /\ Behind(c.exec, c.task)
  /\ c.task = "RECORD_GLUE" => PastWait(c.exec)

(* ... and where it is.                                                    *)
Placed(c) ==
  /\ Suits(c.task, c.pc)
  /\ c.task = "VALIDATE" /\ c.pc \in {"freeze", "refreeze", "begin"} => c.reading \in Reading
  /\ c.pc \in Begun => ledger[c.task].state # "ABSENT" /\ ledger[c.task].owner = c.exec
  /\ c.pc = "complete" => Evidence(c.task, c.exec, c.out)
  /\ c.pc = "move" => MoveReady

CallInv ==
  \A i \in Invocation :
    IF inv[i].pc = "idle" THEN inv[i] = Idle ELSE Called(inv[i]) /\ Placed(inv[i])

(* The machine awaits an invocation of the task it is at.                  *)
HeardInv ==
  \A e \in Exec : sf[e].inv # None =>
    /\ inv[sf[e].inv].pc # "idle"
    /\ inv[sf[e].inv].exec = e /\ inv[sf[e].inv].task = sf[e].at

CarriedInv ==
  \A e \in Exec :
    /\ Behind(e, sf[e].at)
    /\ sf[e].at \in {"WAIT", "RECORD_GLUE"} => sf[e].job = ResultOf("START_GLUE")
    /\ sf[e].at \notin {"ABSENT", "VALIDATE", "START_GLUE", "WAIT", "QUARANTINED",
                        "TIMED_OUT"} => PastWait(e)

(* A task is begun by the one who has all before it, and a result has its  *)
(* evidence.                                                               *)
Grounded(t) ==
  /\ ledger[t].state # "ABSENT" =>
       ledger[t].owner \in Exec /\ Behind(ledger[t].owner, t)
  /\ Done(t) => Evidence(t, ledger[t].owner, ledger[t].result)

LedgerInv == \A t \in Task : Grounded(t)

(* Each call of StartJobRun has a slot that it alone has reserved.         *)
LaunchInv ==
  /\ \A n \in Slot :
       /\ calls[n] <= 1
       /\ calls[n] = 1 => attempt[n] # "NONE"
       /\ calls[n] = 0 => job[n].state = "NONE"
  /\ \A m, n \in Running : m = n
  /\ \A i \in Invocation :
       /\ inv[i].pc = "launch" => attempt[inv[i].slot] = "RESERVED" /\ calls[inv[i].slot] = 0
       /\ inv[i].pc = "note" => calls[inv[i].slot] = 1
  /\ \A i, j \in Invocation :
       inv[i].pc = "launch" /\ inv[j].pc = "launch" /\ inv[i].slot = inv[j].slot => i = j

MovedInv == op => MoveReady

IInv ==
  /\ TypeInv /\ CallInv /\ HeardInv /\ CarriedInv /\ LedgerInv /\ LaunchInv /\ MovedInv

----------------------------------------------------------------------------
(* The order of the tasks.                                                 *)

LEMMA TaskSet ==
  Task = {"VALIDATE", "START_GLUE", "RECORD_GLUE", "MATERIALIZE_ONLINE",
          "PARITY", "ACTIVATE", "COMPLETE"}
<1>1. 1..Len(Order) = {1, 2, 3, 4, 5, 6, 7}
  BY DEF Order
<1> QED BY <1>1 DEF Task, Order

LEMMA OrderAt ==
  /\ Order[1] = "VALIDATE" /\ Order[2] = "START_GLUE" /\ Order[3] = "RECORD_GLUE"
  /\ Order[4] = "MATERIALIZE_ONLINE" /\ Order[5] = "PARITY"
  /\ Order[6] = "ACTIVATE" /\ Order[7] = "COMPLETE" /\ Len(Order) = 7
BY DEF Order

LEMMA PlaceOf ==
  ASSUME NEW n \in 1..7
  PROVE  Place(Order[n]) = n
<1>1. Order[n] \in Task
  BY OrderAt DEF Task
<1>2. n \in 1..Len(Order) /\ \A m \in 1..Len(Order) : Order[m] = Order[n] => m = n
  BY OrderAt
<1>3. (CHOOSE m \in 1..Len(Order) : Order[m] = Order[n]) = n
  BY <1>2
<1>4. Order[n] # "WAIT" /\ Order[n] # "COMPLETED"
  BY <1>1, TaskSet
<1>5. Place(Order[n]) = CHOOSE m \in 1..Len(Order) : Order[m] = Order[n]
  BY <1>1, <1>4, Zenon DEF Place
<1> QED BY <1>3, <1>5

(* What lies before each place.                                            *)
LEMMA BeforeIs ==
  /\ Before("VALIDATE") = {}
  /\ Before("START_GLUE") = {"VALIDATE"}
  /\ Before("WAIT") = {"VALIDATE", "START_GLUE"}
  /\ Before("RECORD_GLUE") = {"VALIDATE", "START_GLUE"}
  /\ Before("MATERIALIZE_ONLINE") = {"VALIDATE", "START_GLUE", "RECORD_GLUE"}
  /\ Before("PARITY") = {"VALIDATE", "START_GLUE", "RECORD_GLUE", "MATERIALIZE_ONLINE"}
  /\ Before("ACTIVATE") =
       {"VALIDATE", "START_GLUE", "RECORD_GLUE", "MATERIALIZE_ONLINE", "PARITY"}
  /\ Before("COMPLETE") =
       {"VALIDATE", "START_GLUE", "RECORD_GLUE", "MATERIALIZE_ONLINE", "PARITY", "ACTIVATE"}
  /\ Before("COMPLETED") = Task
  /\ Before("ABSENT") = {} /\ Before("QUARANTINED") = {} /\ Before("TIMED_OUT") = {}
<1>1. /\ Place("VALIDATE") = 1 /\ Place("START_GLUE") = 2 /\ Place("RECORD_GLUE") = 3
      /\ Place("MATERIALIZE_ONLINE") = 4 /\ Place("PARITY") = 5
      /\ Place("ACTIVATE") = 6 /\ Place("COMPLETE") = 7
  <2>1. \A n \in 1..7 : Place(Order[n]) = n
    BY PlaceOf
  <2> QED BY <2>1, OrderAt
<1>2. /\ Place("WAIT") = 3 /\ Place("COMPLETED") = 8
      /\ Place("ABSENT") = 1 /\ Place("QUARANTINED") = 1 /\ Place("TIMED_OUT") = 1
  BY TaskSet DEF Place
<1>3. /\ 1..0 = {} /\ 1..1 = {1} /\ 1..2 = {1, 2} /\ 1..3 = {1, 2, 3}
      /\ 1..4 = {1, 2, 3, 4} /\ 1..5 = {1, 2, 3, 4, 5} /\ 1..6 = {1, 2, 3, 4, 5, 6}
      /\ 1..7 = {1, 2, 3, 4, 5, 6, 7}
  OBVIOUS
<1>4. /\ Before("VALIDATE") = {} /\ Before("ABSENT") = {}
      /\ Before("QUARANTINED") = {} /\ Before("TIMED_OUT") = {}
  BY <1>1, <1>2 DEF Before
<1>5. Before("START_GLUE") = {"VALIDATE"}
  BY <1>1, <1>3, OrderAt DEF Before
<1>6. /\ Before("WAIT") = {"VALIDATE", "START_GLUE"}
      /\ Before("RECORD_GLUE") = {"VALIDATE", "START_GLUE"}
  BY <1>1, <1>2, <1>3, OrderAt DEF Before
<1>7. Before("MATERIALIZE_ONLINE") = {"VALIDATE", "START_GLUE", "RECORD_GLUE"}
  BY <1>1, <1>3, OrderAt DEF Before
<1>8. Before("PARITY") = {"VALIDATE", "START_GLUE", "RECORD_GLUE", "MATERIALIZE_ONLINE"}
  BY <1>1, <1>3, OrderAt DEF Before
<1>9. Before("ACTIVATE") =
        {"VALIDATE", "START_GLUE", "RECORD_GLUE", "MATERIALIZE_ONLINE", "PARITY"}
  BY <1>1, <1>3, OrderAt DEF Before
<1>10. Before("COMPLETE") =
         {"VALIDATE", "START_GLUE", "RECORD_GLUE", "MATERIALIZE_ONLINE", "PARITY", "ACTIVATE"}
  BY <1>1, <1>3, OrderAt DEF Before
<1>11. Before("COMPLETED") = Task
  BY <1>2, OrderAt DEF Before, Task
<1> QED BY <1>4, <1>5, <1>6, <1>7, <1>8, <1>9, <1>10, <1>11

(* One task further, no more is behind than that task.                     *)
LEMMA AfterBefore ==
  ASSUME NEW t \in Task, NEW r
  PROVE  /\ After(t, r) \in {"WAIT"} \union Task \union Ended
         /\ After(t, r) \notin {"ABSENT", "VALIDATE", "RECORD_GLUE"}
         /\ Before(After(t, r)) \subseteq Before(t) \union {t}
         /\ After(t, r) = "START_GLUE" <=> t = "VALIDATE"
         /\ After(t, r) = "WAIT" <=> t = "START_GLUE"
<1>1. CASE t = "PARITY" /\ r # "ELIGIBLE"
  BY <1>1, BeforeIs DEF After, Ended
<1>2. CASE ~ (t = "PARITY" /\ r # "ELIGIBLE")
  <2>1. After(t, r) = Succ[t]
    BY <1>2 DEF After
  <2> QED BY <2>1, TaskSet, BeforeIs DEF Succ, Ended
<1> QED BY <1>1, <1>2

LEMMA BeforeIsTask ==
  ASSUME NEW at \in {"ABSENT", "WAIT"} \union Task \union Ended
  PROVE  Before(at) \subseteq Task
BY TaskSet, BeforeIs DEF Ended

----------------------------------------------------------------------------
(* What no step undoes.                                                    *)

Monotone ==
  /\ \A t \in Task :
       /\ Done(t) => ledger'[t] = ledger[t]
       /\ ledger[t].state # "ABSENT" =>
            ledger'[t].state # "ABSENT" /\ ledger'[t].owner = ledger[t].owner
  /\ \A k \in Key : object[k] # Missing => object'[k] = object[k]
  /\ \A n \in Slot : job[n].state = "SUCCEEDED" => job'[n].state = "SUCCEEDED"
  /\ op => op'
  /\ UNCHANGED input

(* Who saw the job succeed still has.                                      *)
PastKept == \A e \in Exec : PastWait(e) => PastWait(e)'

LEMMA BehindStable ==
  ASSUME Monotone, NEW e, NEW at \in {"ABSENT", "WAIT"} \union Task \union Ended,
         Behind(e, at)
  PROVE  Behind(e, at)'
BY BeforeIsTask DEF Monotone, Behind, Done

LEMMA DecisionStable ==
  ASSUME Monotone
  PROVE  Decision' = Decision
BY DEF Monotone, Decision

LEMMA BodyIsThere ==
  ASSUME NEW k, NEW x, None # <<x>>, object[k].body = <<x>>
  PROVE  object[k] # Missing
<1>1. Missing.body = None
  BY DEF Missing
<1> QED BY <1>1

LEMMA EvidenceStable ==
  ASSUME Monotone, NEW t \in Task, NEW e, NEW r, Behind(e, t), Evidence(t, e, r)
  PROVE  Evidence(t, e, r)'
<1>1. t = "RECORD_GLUE" =>
        /\ ResultOf("START_GLUE")' = ResultOf("START_GLUE")
        /\ object'["output-authority"].body = <<r>>
        /\ job'[r].state = "SUCCEEDED"
  <2> SUFFICES ASSUME t = "RECORD_GLUE"
               PROVE  /\ ResultOf("START_GLUE")' = ResultOf("START_GLUE")
                      /\ object'["output-authority"].body = <<r>>
                      /\ job'[r].state = "SUCCEEDED"
    OBVIOUS
  <2>1. Done("START_GLUE") /\ "START_GLUE" \in Task
    BY BeforeIs, TaskSet DEF Behind
  <2>2. r \in Slot
    BY DEF Evidence, Results
  <2>3. object["output-authority"] # Missing
    BY <2>2, NoneAssumption, BodyIsThere DEF Evidence
  <2>4. object'["output-authority"] = object["output-authority"]
    BY <2>3 DEF Monotone, Key
  <2> QED BY <2>1, <2>2, <2>4 DEF Monotone, Evidence, ResultOf
<1> QED BY <1>1, DecisionStable DEF Evidence, Monotone

LEMMA MoveReadyStable ==
  ASSUME Monotone, LedgerInv, MoveReady
  PROVE  MoveReady'
<1>1. /\ "VALIDATE" \in Task /\ "RECORD_GLUE" \in Task /\ "PARITY" \in Task
      /\ "expected-state" \in Key /\ "parity-report" \in Key
  BY TaskSet DEF Key
<1>2. /\ Done("VALIDATE") /\ Done("RECORD_GLUE") /\ Done("PARITY")
      /\ ResultOf("PARITY") = "ELIGIBLE"
      /\ object["parity-report"].body = <<"ELIGIBLE">>
      /\ object["expected-state"].body = <<ResultOf("VALIDATE")[1]>>
  BY DEF MoveReady, ParityEligible
<1>3. ResultOf("VALIDATE")[1] \in Exec
  <2>1. Evidence("VALIDATE", ledger["VALIDATE"].owner, ledger["VALIDATE"].result)
    BY <1>1, <1>2 DEF LedgerInv, Grounded
  <2> QED BY <2>1 DEF Evidence, Results, ResultOf
<1>4. object["expected-state"] # Missing /\ object["parity-report"] # Missing
  BY <1>2, <1>3, NoneAssumption, BodyIsThere
<1>5. /\ ledger'["VALIDATE"] = ledger["VALIDATE"]
      /\ ledger'["RECORD_GLUE"] = ledger["RECORD_GLUE"]
      /\ ledger'["PARITY"] = ledger["PARITY"]
      /\ object'["expected-state"] = object["expected-state"]
      /\ object'["parity-report"] = object["parity-report"]
      /\ input' = input
  BY <1>1, <1>2, <1>4 DEF Monotone
<1> QED BY <1>5 DEF MoveReady, ParityEligible, Done, ResultOf

LEMMA CalledStable ==
  ASSUME Monotone, PastKept, NEW c, Called(c)
  PROVE  Called(c)'
<1>1. Behind(c.exec, c.task)'
  BY BehindStable DEF Called
<1> QED BY <1>1 DEF Called, PastKept

LEMMA PlacedStable ==
  ASSUME Monotone, LedgerInv, NEW c, Called(c), Placed(c)
  PROVE  Placed(c)'
<1>1. c.pc = "complete" => Evidence(c.task, c.exec, c.out)'
  BY EvidenceStable DEF Called, Placed
<1>2. c.pc = "move" => MoveReady'
  BY MoveReadyStable DEF Placed
<1>3. c.pc \in Begun => ledger'[c.task].state # "ABSENT" /\ ledger'[c.task].owner = c.exec
  BY DEF Called, Placed, Monotone
<1>4. Suits(c.task, c.pc)'
  BY DEF Placed, Suits
<1> QED BY <1>1, <1>2, <1>3, <1>4 DEF Placed

LEMMA LedgerStable ==
  ASSUME Monotone, LedgerInv, NEW t \in Task, ledger'[t] = ledger[t]
  PROVE  Grounded(t)'
<1>1. PICK e : e = ledger[t].owner
  OBVIOUS
<1>2. PICK r : r = ledger[t].result
  OBVIOUS
<1>3. ledger[t].state # "ABSENT" => e \in Exec /\ Behind(e, t) /\ Behind(e, t)'
  BY <1>1, BehindStable DEF LedgerInv, Grounded
<1>4. Done(t) => Evidence(t, e, r)'
  BY <1>1, <1>2, <1>3, EvidenceStable DEF LedgerInv, Grounded, Done
<1>5. e = ledger'[t].owner /\ r = ledger'[t].result
  BY <1>1, <1>2
<1> QED BY <1>3, <1>4, <1>5 DEF Done, Grounded

----------------------------------------------------------------------------
(* The machine's side.                                                     *)

Unstarted == {"ABSENT", "VALIDATE", "START_GLUE", "WAIT"}

(* What must hold of the execution e to be carried on as x.                *)
Carries(e, x) ==
  /\ Behind(e, x.at)
  /\ x.at \in {"WAIT", "RECORD_GLUE"} => x.job = ResultOf("START_GLUE")
  /\ x.at \notin Unstarted \union {"QUARANTINED", "TIMED_OUT"} =>
       x.job \in Slot /\ job[x.job].state = "SUCCEEDED"

LEMMA CarriesIs == CarriedInv <=> \A e \in Exec : Carries(e, sf[e])
BY DEF CarriedInv, Carries, PastWait, Unstarted

LEMMA CarriesIsNext == CarriedInv' <=> (\A e \in Exec : Carries(e, sf[e]))'
BY CarriesIs, PTL

LEMMA CarriesStable ==
  ASSUME Monotone, NEW e, NEW x \in Execution, Carries(e, x)
  PROVE  Carries(e, x)'
<1>1. x.at \in {"ABSENT", "WAIT"} \union Task \union Ended
  BY DEF Execution
<1>2. Behind(e, x.at)'
  BY <1>1, BehindStable DEF Carries
<1>3. ASSUME x.at \in {"WAIT", "RECORD_GLUE"} PROVE x.job = ResultOf("START_GLUE")'
  <2>1. Done("START_GLUE") /\ "START_GLUE" \in Task
    BY <1>3, BeforeIs, TaskSet DEF Carries, Behind
  <2> QED BY <1>3, <2>1 DEF Carries, ResultOf, Monotone
<1> QED BY <1>2, <1>3 DEF Carries, Monotone

LEMMA MachineKept ==
  ASSUME TypeInv, CarriedInv, Monotone, UNCHANGED sf
  PROVE  CarriedInv' /\ PastKept
<1>1. \A e \in Exec : Carries(e, sf[e])
  BY CarriesIs
<1>2. ASSUME NEW e \in Exec PROVE Carries(e, sf[e])'
  <2>1. PICK x \in Execution : x = sf[e]
    BY DEF TypeInv
  <2>2. Carries(e, x)'
    BY <1>1, <2>1, CarriesStable
  <2>3. x = sf'[e]
    BY <2>1
  <2> QED BY <2>2, <2>3 DEF Carries
<1>3. CarriedInv'
  BY <1>2, CarriesIsNext
<1>4. PastKept
  BY DEF PastKept, PastWait, Monotone
<1> QED BY <1>3, <1>4

LEMMA MachineSet ==
  ASSUME TypeInv, CarriedInv, Monotone, NEW e \in Exec, NEW x \in Execution,
         sf' = [sf EXCEPT ![e] = x], Carries(e, x)',
         sf[e].at \notin Unstarted => x.at \notin Unstarted /\ x.job = sf[e].job
  PROVE  sf' \in [Exec -> Execution] /\ CarriedInv' /\ PastKept
<1>1. /\ sf' \in [Exec -> Execution] /\ sf'[e] = x
      /\ \A d \in Exec \ {e} : sf'[d] = sf[d]
  BY DEF TypeInv
<1>2. ASSUME NEW d \in Exec PROVE Carries(d, sf[d])'
  <2>1. CASE d = e
    BY <1>1, <2>1 DEF Carries
  <2>2. CASE d # e
    <3>1. PICK y \in Execution : y = sf[d]
      BY DEF TypeInv
    <3>2. Carries(d, y)'
      BY <3>1, CarriesIs, CarriesStable
    <3>3. y = sf'[d]
      BY <1>1, <2>2, <3>1
    <3> QED BY <3>2, <3>3 DEF Carries
  <2> QED BY <2>1, <2>2
<1>3. CarriedInv'
  BY <1>2, CarriesIsNext
<1>4. PastKept
  BY <1>1 DEF PastKept, PastWait, Monotone, Unstarted
<1> QED BY <1>1, <1>3, <1>4

(* The records that a state of the execution is replaced with.             *)
LEMMA ExecutionSet ==
  ASSUME NEW s \in Execution, NEW at \in {"ABSENT", "WAIT"} \union Task \union Ended
  PROVE  /\ [s EXCEPT !.at = at, !.inv = None] \in Execution
         /\ [s EXCEPT !.at = at, !.inv = None].at = at
         /\ [s EXCEPT !.at = at, !.inv = None].inv = None
         /\ [s EXCEPT !.at = at, !.inv = None].job = s.job
         /\ [s EXCEPT !.at = at] \in Execution
         /\ [s EXCEPT !.at = at].at = at
         /\ [s EXCEPT !.at = at].inv = s.inv
         /\ [s EXCEPT !.at = at].job = s.job
BY DEF Execution

(* Stopped: quarantined or timed out, and awaiting nothing.                *)
LEMMA MachineStops ==
  ASSUME TypeInv, CarriedInv, Monotone, NEW e \in Exec,
         NEW end \in {"QUARANTINED", "TIMED_OUT"},
         sf' = [sf EXCEPT ![e].at = end, ![e].inv = None]
  PROVE  /\ sf' \in [Exec -> Execution] /\ CarriedInv' /\ PastKept
         /\ sf'[e].inv = None
         /\ \A d \in Exec \ {e} : sf'[d] = sf[d]
<1>1. sf[e] \in Execution /\ end \in Ended
  BY DEF TypeInv, Ended
<1> DEFINE x == [sf[e] EXCEPT !.at = end, !.inv = None]
<1>2. x \in Execution /\ x.at = end /\ x.inv = None /\ x.job = sf[e].job
  BY <1>1, ExecutionSet
<1>3. sf' = [sf EXCEPT ![e] = x]
  BY <1>1 DEF TypeInv
<1> HIDE DEF x
<1>4. PICK y \in Execution : y = x
  BY <1>2
<1>5. Carries(e, y)'
  BY <1>2, <1>4, BeforeIs DEF Carries, Behind
<1>6. sf'[e] = x /\ \A d \in Exec \ {e} : sf'[d] = sf[d]
  BY <1>2, <1>3 DEF TypeInv
<1>7. y.at \notin Unstarted /\ y.job = sf[e].job /\ sf' = [sf EXCEPT ![e] = y]
  BY <1>2, <1>3, <1>4 DEF Unstarted
<1>8. sf' \in [Exec -> Execution] /\ CarriedInv' /\ PastKept
  BY <1>5, <1>7, MachineSet
<1> QED BY <1>2, <1>6, <1>8

LEMMA MachineRetries ==
  ASSUME TypeInv, CarriedInv, Monotone, NEW e \in Exec, Retry(e)
  PROVE  /\ sf' \in [Exec -> Execution] /\ CarriedInv' /\ PastKept
         /\ sf'[e].inv = None
         /\ \A d \in Exec \ {e} : sf'[d] = sf[d]
<1>1. CASE sf[e].tries >= MaxRetries
  <2>1. Quarantine(e)
    BY <1>1, BoundAssumption DEF Retry, TypeInv, Execution
  <2> QED BY <2>1, MachineStops DEF Quarantine
<1>2. CASE sf[e].tries < MaxRetries
  <2>1. sf' = [sf EXCEPT ![e].tries = @ + 1, ![e].inv = None]
    BY <1>2 DEF Retry
  <2>2. sf[e] \in Execution
    BY DEF TypeInv
  <2>3. PICK m \in 0..MaxRetries : m = sf[e].tries + 1
    BY <1>2, <2>2, BoundAssumption DEF Execution
  <2> DEFINE x == [sf[e] EXCEPT !.tries = m, !.inv = None]
  <2>4. x \in Execution /\ x.at = sf[e].at /\ x.inv = None /\ x.job = sf[e].job
    BY <2>2 DEF Execution
  <2>5. sf' = [sf EXCEPT ![e] = x]
    BY <2>1, <2>2, <2>3 DEF TypeInv, Execution
  <2> HIDE DEF x
  <2>6. PICK y \in Execution : y = x
    BY <2>4
  <2>7. Carries(e, y)
    BY <2>4, <2>6, CarriesIs DEF Carries
  <2>8. Carries(e, y)'
    BY <2>7, CarriesStable
  <2>9. sf' \in [Exec -> Execution] /\ CarriedInv' /\ PastKept
    BY <2>4, <2>5, <2>6, <2>8, MachineSet
  <2> QED BY <2>4, <2>5, <2>9 DEF TypeInv
<1>3. sf[e].tries \in Nat /\ MaxRetries \in Nat
  BY BoundAssumption DEF TypeInv, Execution
<1> QED BY <1>1, <1>2, <1>3

(* Advanced: over a task completed by this execution with this result.     *)
LEMMA MachineAdvances ==
  ASSUME TypeInv, CarriedInv, Monotone, NEW e \in Exec, NEW t \in Task, NEW r,
         sf[e].at = t, Advance(e, t, r),
         ledger'[t].state = "COMPLETED", ledger'[t].owner = e, ledger'[t].result = r,
         t = "START_GLUE" => r \in Slot
  PROVE  /\ sf' \in [Exec -> Execution] /\ CarriedInv' /\ PastKept
         /\ sf'[e].inv = None
         /\ \A d \in Exec \ {e} : sf'[d] = sf[d]
<1>1. sf[e] \in Execution /\ 0 \in 0..MaxRetries
  BY BoundAssumption DEF TypeInv
<1>2. PICK j \in Slot \union {None} : j = IF t = "START_GLUE" THEN r ELSE sf[e].job
  BY <1>1 DEF Execution
<1>3. PICK a \in {"WAIT"} \union Task \union Ended : a = After(t, r)
  BY AfterBefore
<1> DEFINE x == [sf[e] EXCEPT !.at = a, !.tries = 0, !.inv = None, !.job = j]
<1>4. x \in Execution /\ x.at = a /\ x.inv = None /\ x.job = j
  BY <1>1 DEF Execution
<1>5. sf' = [sf EXCEPT ![e] = x]
  BY <1>1, <1>2, <1>3 DEF TypeInv, Execution, Advance
<1> HIDE DEF x
<1>6. PICK y \in Execution : y = x
  BY <1>4
<1>7. Behind(e, a)'
  <2>1. Behind(e, t)
    BY DEF CarriedInv
  <2>2. Behind(e, t)'
    BY <2>1, BehindStable
  <2>3. Before(a) \subseteq Before(t) \union {t}
    BY <1>3, AfterBefore
  <2> QED BY <2>2, <2>3 DEF Behind, Done
<1>8. /\ a # "RECORD_GLUE" /\ a # "ABSENT" /\ a # "VALIDATE"
      /\ a = "START_GLUE" <=> t = "VALIDATE"
      /\ a = "WAIT" <=> t = "START_GLUE"
  BY <1>3, AfterBefore
<1>9. a \in {"WAIT", "RECORD_GLUE"} => j = ResultOf("START_GLUE")'
  BY <1>2, <1>8 DEF ResultOf
<1>10. t \notin Unstarted => PastWait(e)
  BY TaskSet DEF CarriedInv, Unstarted
<1>11. a \notin Unstarted => t \notin Unstarted
  BY <1>8, TaskSet DEF Unstarted
<1>12. t \notin Unstarted => a \notin Unstarted /\ j = sf[e].job
  BY <1>2, <1>8 DEF Unstarted
<1>13. a \notin Unstarted => j \in Slot /\ job'[j].state = "SUCCEEDED"
  BY <1>10, <1>11, <1>12 DEF PastWait, Monotone
<1>14. Carries(e, y)'
  BY <1>4, <1>6, <1>7, <1>9, <1>13 DEF Carries
<1>15. sf' \in [Exec -> Execution] /\ CarriedInv' /\ PastKept
  BY <1>4, <1>5, <1>6, <1>12, <1>14, MachineSet
<1> QED BY <1>4, <1>5, <1>15 DEF TypeInv

----------------------------------------------------------------------------
(* The invocation's side.                                                  *)

(* What the steps of the machine and of its invocations keep together.     *)
CallsInv == TypeInv /\ CallInv /\ HeardInv /\ CarriedInv /\ LedgerInv
CallsKept ==
  /\ sf' \in [Exec -> Execution] /\ inv' \in [Invocation -> Call]
  /\ CallInv' /\ HeardInv' /\ CarriedInv'

Sound(c) == IF c.pc = "idle" THEN c = Idle ELSE Called(c) /\ Placed(c)

LEMMA IdleIs == Idle \in Call /\ Idle.pc = "idle"
BY BoundAssumption DEF Idle, Call, Slot

LEMMA SoundStable ==
  ASSUME Monotone, LedgerInv, PastKept, NEW c, Sound(c)
  PROVE  Sound(c)'
BY CalledStable, PlacedStable DEF Sound

LEMMA CallInvIs == CallInv <=> \A i \in Invocation : Sound(inv[i])
BY DEF CallInv, Sound

LEMMA CallInvIsNext == CallInv' <=> (\A i \in Invocation : Sound(inv[i]))'
BY CallInvIs, PTL

LEMMA CallSet ==
  ASSUME TypeInv, CallInv, LedgerInv, Monotone, PastKept,
         NEW i \in Invocation, NEW c \in Call, inv' = [inv EXCEPT ![i] = c], Sound(c)'
  PROVE  inv' \in [Invocation -> Call] /\ CallInv'
<1>1. /\ inv' \in [Invocation -> Call] /\ inv'[i] = c
      /\ \A j \in Invocation \ {i} : inv'[j] = inv[j]
  BY DEF TypeInv
<1>2. ASSUME NEW j \in Invocation PROVE Sound(inv[j])'
  <2>1. CASE j = i
    BY <1>1, <2>1 DEF Sound
  <2>2. CASE j # i
    <3>1. PICK d : d = inv[j]
      OBVIOUS
    <3>2. Sound(d)'
      BY <3>1, CallInvIs, SoundStable
    <3>3. d = inv'[j]
      BY <1>1, <2>2, <3>1
    <3> QED BY <3>2, <3>3 DEF Sound
  <2> QED BY <2>1, <2>2
<1> QED BY <1>1, <1>2, CallInvIsNext

(* The invocation goes on as c.                                            *)
Continues(i, c) ==
  /\ c.pc # "idle" /\ c.exec = inv[i].exec /\ c.task = inv[i].task
  /\ inv' = [inv EXCEPT ![i] = c] /\ UNCHANGED sf

LEMMA CallContinues ==
  ASSUME CallsInv, Monotone, NEW i \in Invocation, inv[i].pc # "idle",
         NEW c \in Call, Continues(i, c), Placed(c)'
  PROVE  CallsKept
<1>1. sf' \in [Exec -> Execution] /\ CarriedInv' /\ PastKept
  BY MachineKept DEF CallsInv, Continues, TypeInv
<1>2. Called(c)
  BY DEF CallsInv, CallInv, Continues, Called
<1>3. Sound(c)'
  BY <1>1, <1>2, CalledStable DEF Sound, Continues
<1>4. inv' \in [Invocation -> Call] /\ CallInv'
  BY <1>1, <1>3, CallSet DEF CallsInv, Continues
<1>5. HeardInv'
  BY DEF CallsInv, HeardInv, TypeInv, Continues
<1> QED BY <1>1, <1>4, <1>5 DEF CallsKept

(* The invocation is over, and whoever still listened was told.            *)
LEMMA CallOver ==
  ASSUME CallsInv, Monotone, NEW i \in Invocation, inv[i].pc # "idle",
         inv' = [inv EXCEPT ![i] = Idle],
         sf' \in [Exec -> Execution], CarriedInv', PastKept,
         Heard(i) => sf'[inv[i].exec].inv = None,
         \A d \in Exec : sf'[d] = sf[d] \/ (Heard(i) /\ d = inv[i].exec)
  PROVE  CallsKept
<1>1. inv' \in [Invocation -> Call] /\ CallInv'
  <2>1. PICK c \in Call : c = Idle
    BY IdleIs
  <2>2. Sound(c)'
    BY <2>1, IdleIs DEF Sound
  <2> QED BY <2>1, <2>2, CallSet DEF CallsInv
<1>2. HeardInv'
  <2> SUFFICES ASSUME NEW e \in Exec, sf'[e].inv # None
               PROVE  /\ inv'[sf'[e].inv].pc # "idle"
                      /\ inv'[sf'[e].inv].exec = e /\ inv'[sf'[e].inv].task = sf'[e].at
    BY DEF HeardInv
  <2>1. sf'[e] = sf[e]
    OBVIOUS
  <2>2. sf[e].inv \in Invocation
    BY <2>1 DEF CallsInv, TypeInv, Execution
  <2>3. inv[sf[e].inv].exec = e
    BY <2>1 DEF CallsInv, HeardInv
  <2>4. sf[e].inv # i
    BY <2>1, <2>3 DEF Heard
  <2>5. inv'[sf[e].inv] = inv[sf[e].inv]
    BY <2>2, <2>4 DEF CallsInv, TypeInv
  <2> QED BY <2>1, <2>5 DEF CallsInv, HeardInv
<1> QED BY <1>1, <1>2 DEF CallsKept

LEMMA CallRaises ==
  ASSUME CallsInv, Monotone, NEW i \in Invocation, inv[i].pc # "idle",
         Raise(i) \/ RaiseRetryable(i)
  PROVE  CallsKept
<1>1. inv[i].exec \in Exec
  BY DEF CallsInv, CallInv, Called
<1>2. inv' = [inv EXCEPT ![i] = Idle]
  BY DEF Raise, RaiseRetryable
<1>3. CASE Heard(i)
  <2>1. Quarantine(inv[i].exec) \/ Retry(inv[i].exec)
    BY <1>3 DEF Raise, RaiseRetryable
  <2>2. PICK e \in Exec : e = inv[i].exec
    BY <1>1
  <2>3. /\ sf' \in [Exec -> Execution] /\ CarriedInv' /\ PastKept
        /\ sf'[e].inv = None /\ \A d \in Exec \ {e} : sf'[d] = sf[d]
    BY <2>1, <2>2, MachineStops, MachineRetries DEF CallsInv, Quarantine
  <2> QED BY <1>2, <1>3, <2>2, <2>3, CallOver
<1>4. CASE ~ Heard(i)
  <2>1. UNCHANGED sf
    BY <1>4 DEF Raise, RaiseRetryable
  <2>2. sf' \in [Exec -> Execution] /\ CarriedInv' /\ PastKept
    BY <2>1, MachineKept DEF CallsInv, TypeInv
  <2> QED BY <1>2, <1>4, <2>1, <2>2, CallOver
<1> QED BY <1>3, <1>4

LEMMA CallReturns ==
  ASSUME CallsInv, Monotone, NEW i \in Invocation, inv[i].pc # "idle", NEW r, Return(i, r),
         ledger'[inv[i].task].state = "COMPLETED",
         ledger'[inv[i].task].owner = inv[i].exec,
         ledger'[inv[i].task].result = r, r \in Results[inv[i].task]
  PROVE  CallsKept
<1>1. inv[i].exec \in Exec /\ inv[i].task \in Task
  BY DEF CallsInv, CallInv, Called
<1>2. inv' = [inv EXCEPT ![i] = Idle]
  BY DEF Return
<1>3. CASE Heard(i)
  <2>1. Advance(inv[i].exec, inv[i].task, r)
    BY <1>3 DEF Return
  <2>2. PICK e \in Exec : e = inv[i].exec
    BY <1>1
  <2>3. PICK t \in Task : t = inv[i].task
    BY <1>1
  <2>4. sf[e].at = t
    BY <1>3, <2>2, <2>3, NoneAssumption DEF CallsInv, HeardInv, Heard
  <2>5. t = "START_GLUE" => r \in Slot
    BY <2>3 DEF Results
  <2>6. /\ sf' \in [Exec -> Execution] /\ CarriedInv' /\ PastKept
        /\ sf'[e].inv = None /\ \A d \in Exec \ {e} : sf'[d] = sf[d]
    BY <2>1, <2>2, <2>3, <2>4, <2>5, MachineAdvances DEF CallsInv
  <2> QED BY <1>2, <1>3, <2>2, <2>6, CallOver
<1>4. CASE ~ Heard(i)
  <2>1. UNCHANGED sf
    BY <1>4 DEF Return
  <2>2. sf' \in [Exec -> Execution] /\ CarriedInv' /\ PastKept
    BY <2>1, MachineKept DEF CallsInv, TypeInv
  <2> QED BY <1>2, <1>4, <2>1, <2>2, CallOver
<1> QED BY <1>3, <1>4

----------------------------------------------------------------------------
(* The tables' side.                                                       *)

LEMMA LedgerKept ==
  ASSUME Monotone, LedgerInv, UNCHANGED ledger
  PROVE  LedgerInv'
<1>1. \A t \in Task : Grounded(t)'
  BY LedgerStable
<1> QED BY <1>1 DEF LedgerInv

LEMMA MovedKept ==
  ASSUME Monotone, LedgerInv, MovedInv, UNCHANGED op
  PROVE  MovedInv'
BY MoveReadyStable DEF MovedInv

(* No slot is taken, nothing called, no run started.                       *)
LEMMA LaunchKept ==
  ASSUME TypeInv, LaunchInv, UNCHANGED <<attempt, calls>>,
         \A n \in Slot : /\ job'[n].state = "RUNNING" => job[n].state = "RUNNING"
                         /\ job[n].state = "NONE" => job'[n].state = "NONE",
         \A i \in Invocation : inv'[i].pc \in {"launch", "note"} => inv'[i] = inv[i]
  PROVE  LaunchInv'
BY DEF LaunchInv, Running

LEMMA InvFrom ==
  ASSUME TypeInv, NEW i \in Invocation, NEW c,
         inv' = [inv EXCEPT ![i] = c], c.pc \notin {"launch", "note"}
  PROVE  \A j \in Invocation : inv'[j].pc \in {"launch", "note"} => inv'[j] = inv[j]
BY DEF TypeInv

(* The invocation i ends or goes on, and records nothing.                  *)
Proceeds(i) ==
  \/ Raise(i) \/ RaiseRetryable(i)
  \/ \E c \in Call : Continues(i, c) /\ Placed(c)' /\ c.pc \notin {"launch", "note"}

LEMMA ProceedsStep ==
  ASSUME IInv, NEW i \in Invocation, inv[i].pc # "idle", Proceeds(i),
         Monotone, TableInv', UNCHANGED <<ledger, op, attempt, calls, job>>
  PROVE  IInv'
<1>0. CallsInv
  BY DEF IInv, CallsInv
<1>1. CallsKept
  <2>1. CASE Raise(i) \/ RaiseRetryable(i)
    BY <1>0, <2>1, CallRaises
  <2>2. CASE \E c \in Call : Continues(i, c) /\ Placed(c)' /\ c.pc \notin {"launch", "note"}
    BY <1>0, <2>2, CallContinues
  <2> QED BY <2>1, <2>2 DEF Proceeds
<1>2. \A j \in Invocation : inv'[j].pc \in {"launch", "note"} => inv'[j] = inv[j]
  <2>1. PICK c : inv' = [inv EXCEPT ![i] = c] /\ c.pc \notin {"launch", "note"}
    BY IdleIs DEF Proceeds, Raise, RaiseRetryable, Continues
  <2> QED BY <2>1, InvFrom DEF IInv
<1>3. LaunchInv'
  BY <1>2, LaunchKept DEF IInv
<1>4. LedgerInv' /\ MovedInv'
  BY LedgerKept, MovedKept DEF IInv
<1> QED BY <1>1, <1>3, <1>4 DEF IInv, TypeInv, CallsKept

LEMMA NothingIsMonotone == NothingWritten => Monotone
BY DEF NothingWritten, durable, world, Monotone

LEMMA NothingStep ==
  ASSUME IInv, NEW i \in Invocation, inv[i].pc # "idle", Proceeds(i), NothingWritten
  PROVE  IInv' /\ Monotone
<1>1. Monotone
  BY NothingIsMonotone
<1>2. UNCHANGED <<ledger, op, attempt, calls, job>>
  BY DEF NothingWritten, durable, world
<1>3. TableInv'
  BY DEF IInv, TypeInv, TableInv, NothingWritten, durable, world
<1> QED BY <1>1, <1>2, <1>3, ProceedsStep

(* The forms in which an invocation goes on.                               *)
LEMMA GotoIs ==
  ASSUME TypeInv, NEW i \in Invocation, NEW pc \in Phase, Goto(i, pc)
  PROVE  \E c \in Call : /\ Continues(i, c) /\ c.pc = pc /\ c.reading = inv[i].reading
                         /\ c.slot = inv[i].slot /\ c.out = inv[i].out
                         /\ c.try = inv[i].try
<1>1. inv[i] \in Call /\ pc # "idle"
  BY DEF TypeInv, Phase
<1> DEFINE c == [inv[i] EXCEPT !.pc = pc]
<1>2. /\ c \in Call /\ c.pc = pc /\ c.reading = inv[i].reading
      /\ c.slot = inv[i].slot /\ c.out = inv[i].out
      /\ c.try = inv[i].try /\ c.exec = inv[i].exec /\ c.task = inv[i].task
  BY <1>1 DEF Call
<1>3. inv' = [inv EXCEPT ![i] = c] /\ UNCHANGED sf
  BY DEF Goto, Step
<1> HIDE DEF c
<1> QED BY <1>1, <1>2, <1>3 DEF Continues

LEMMA FinishIs ==
  ASSUME TypeInv, NEW i \in Invocation, NEW r \in Outcome, Finish(i, r)
  PROVE  \E c \in Call : /\ Continues(i, c) /\ c.pc = "complete" /\ c.out = r
                         /\ c.slot = inv[i].slot /\ c.try = inv[i].try
<1>1. inv[i] \in Call /\ "complete" \in Phase
  BY DEF TypeInv, Phase
<1> DEFINE c == [inv[i] EXCEPT !.pc = "complete", !.out = r]
<1>2. /\ c \in Call /\ c.pc = "complete" /\ c.out = r
      /\ c.slot = inv[i].slot /\ c.try = inv[i].try
      /\ c.exec = inv[i].exec /\ c.task = inv[i].task
  BY <1>1 DEF Call
<1>3. inv' = [inv EXCEPT ![i] = c] /\ UNCHANGED sf
  BY DEF Finish, Step
<1> HIDE DEF c
<1> QED BY <1>2, <1>3 DEF Continues

(* Going on from one pc to another needs little; only two pcs are special. *)
LEMMA GotoProceeds ==
  ASSUME IInv, Monotone, NEW i \in Invocation, inv[i].pc # "idle", NEW pc \in Phase,
         Goto(i, pc), Suits(inv[i].task, pc), pc \notin {"launch", "note", "complete"},
         pc \in Begun => inv[i].pc \in Begun,
         pc = "move" => MoveReady,
         inv[i].task = "VALIDATE" /\ pc \in {"freeze", "refreeze", "begin"} =>
           inv[i].reading \in Reading
  PROVE  Proceeds(i)
<1>1. PICK c \in Call : Continues(i, c) /\ c.pc = pc /\ c.reading = inv[i].reading
  BY GotoIs DEF IInv
<1>2. /\ c.exec = inv[i].exec /\ c.task = inv[i].task /\ c.task \in Task
      /\ Placed(inv[i])
  BY <1>1 DEF Continues, IInv, CallInv, Called
<1>3. pc = "move" => MoveReady'
  BY MoveReadyStable DEF IInv
<1>4. pc \in Begun => ledger'[c.task].state # "ABSENT" /\ ledger'[c.task].owner = c.exec
  BY <1>2 DEF Placed, Monotone
<1>5. Placed(c)'
  BY <1>1, <1>2, <1>3, <1>4 DEF Placed, Suits
<1> QED BY <1>1, <1>5 DEF Proceeds

LEMMA FinishProceeds ==
  ASSUME IInv, Monotone, NEW i \in Invocation, inv[i].pc # "idle", NEW r,
         Finish(i, r), inv[i].pc \in Begun, Evidence(inv[i].task, inv[i].exec, r)
  PROVE  Proceeds(i)
<1>1. /\ inv[i].task \in Task /\ inv[i].exec \in Exec /\ Placed(inv[i])
      /\ Behind(inv[i].exec, inv[i].task)
  BY DEF IInv, CallInv, Called
<1>2. r \in Outcome
  BY <1>1 DEF Evidence, Outcome
<1>3. PICK c \in Call : Continues(i, c) /\ c.pc = "complete" /\ c.out = r
  BY <1>2, FinishIs DEF IInv
<1>4. c.exec = inv[i].exec /\ c.task = inv[i].task
  BY <1>3 DEF Continues
<1>5. Evidence(c.task, c.exec, c.out)'
  BY <1>1, <1>3, <1>4, EvidenceStable
<1>6. ledger'[c.task].state # "ABSENT" /\ ledger'[c.task].owner = c.exec
  BY <1>1, <1>4 DEF Placed, Monotone
<1>7. Placed(c)'
  BY <1>3, <1>5, <1>6 DEF Placed, Suits
<1> QED BY <1>3, <1>7 DEF Proceeds

----------------------------------------------------------------------------
(* The steps of an invocation that only read.                              *)

LEMMA PhaseSet ==
  Phase = {"precheck", "verify", "freeze", "refreeze", "prior", "begin", "execute",
           "slot", "reserve", "launch", "note", "fill", "report", "rereport",
           "move", "complete"}
BY DEF Phase

LEMMA PrecheckStep ==
  ASSUME IInv, NEW i \in Invocation, Precheck(i)
  PROVE  IInv' /\ Monotone
<1>1. inv[i].task = "VALIDATE" /\ inv[i].pc = "precheck" /\ NothingWritten
  BY DEF Precheck, At
<1>2. Goto(i, "verify") \/ Raise(i)
  BY DEF Precheck
<1>3. Proceeds(i)
  <2>1. CASE Goto(i, "verify")
    BY <1>1, <2>1, GotoProceeds, NothingIsMonotone, PhaseSet DEF Suits, Begun
  <2> QED BY <1>2, <2>1 DEF Proceeds
<1> QED BY <1>1, <1>3, NothingStep

LEMMA VerifyStep ==
  ASSUME IInv, NEW i \in Invocation, Verify(i)
  PROVE  IInv' /\ Monotone
<1>1. inv[i].task = "VALIDATE" /\ inv[i].pc = "verify" /\ NothingWritten
  BY DEF Verify, At
<1>2. ASSUME NEW r \in Reading, Step(i, [inv[i] EXCEPT !.pc = "freeze", !.reading = r])
      PROVE  Proceeds(i)
  <2>1. inv[i] \in Call /\ "freeze" \in Phase
    BY PhaseSet DEF IInv, TypeInv
  <2> DEFINE c == [inv[i] EXCEPT !.pc = "freeze", !.reading = r]
  <2>2. /\ c \in Call /\ c.pc = "freeze" /\ c.reading = r
        /\ c.exec = inv[i].exec /\ c.task = inv[i].task
    BY <2>1 DEF Call
  <2>3. inv' = [inv EXCEPT ![i] = c] /\ UNCHANGED sf
    BY <1>2 DEF Step
  <2> HIDE DEF c
  <2>4. PICK d \in Call : d = c
    BY <2>2
  <2>5. Placed(d)'
    BY <1>1, <2>2, <2>4 DEF Placed, Suits, Begun
  <2> QED BY <2>2, <2>3, <2>4, <2>5 DEF Proceeds, Continues
<1>3. Proceeds(i)
  BY <1>2 DEF Verify, Proceeds
<1> QED BY <1>1, <1>3, NothingStep

LEMMA PriorStep ==
  ASSUME IInv, NEW i \in Invocation, Prior(i)
  PROVE  IInv' /\ Monotone
<1>1. inv[i].pc = "prior" /\ NothingWritten /\ (Goto(i, "begin") \/ Raise(i))
  BY DEF Prior
<1>2. inv[i].task # "VALIDATE"
  BY <1>1 DEF IInv, CallInv, Placed, Suits
<1>3. Proceeds(i)
  <2>1. CASE Goto(i, "begin")
    BY <1>1, <1>2, <2>1, GotoProceeds, NothingIsMonotone, PhaseSet DEF Suits, Begun
  <2> QED BY <1>1, <2>1 DEF Proceeds
<1> QED BY <1>1, <1>3, NothingStep

(* To the next slot, or no further.                                        *)
LEMMA NextSlotProceeds ==
  ASSUME IInv, Monotone, NEW i \in Invocation, inv[i].task = "START_GLUE",
         inv[i].pc \in {"slot", "reserve"}, NextSlot(i)
  PROVE  Proceeds(i)
<1>1. inv[i] \in Call /\ "slot" \in Phase
  BY PhaseSet DEF IInv, TypeInv
<1>2. CASE inv[i].slot = MaxLaunches
  BY <1>2 DEF NextSlot, Proceeds
<1>3. CASE inv[i].slot # MaxLaunches
  <2>1. PICK n \in Slot : n = inv[i].slot + 1
    BY <1>1, <1>3, BoundAssumption DEF Call, Slot
  <2> DEFINE c == [inv[i] EXCEPT !.pc = "slot", !.slot = n]
  <2>2. /\ c \in Call /\ c.pc = "slot"
        /\ c.exec = inv[i].exec /\ c.task = inv[i].task
    BY <1>1 DEF Call
  <2>3. inv' = [inv EXCEPT ![i] = c] /\ UNCHANGED sf
    BY <1>1, <1>3, <2>1 DEF NextSlot, Step, Call
  <2> HIDE DEF c
  <2>4. PICK d \in Call : d = c
    BY <2>2
  <2>5. Called(inv[i]) /\ Placed(inv[i])
    BY DEF IInv, CallInv
  <2>6. Placed(d)'
    BY <2>2, <2>4, <2>5 DEF Placed, Called, Suits, Begun, Monotone
  <2> QED BY <2>2, <2>3, <2>4, <2>6 DEF Proceeds, Continues
<1> QED BY <1>2, <1>3

LEMMA ReadSlotStep ==
  ASSUME IInv, NEW i \in Invocation, ReadSlot(i)
  PROVE  IInv' /\ Monotone
<1>1. inv[i].pc = "slot" /\ NothingWritten
  BY DEF ReadSlot
<1>2. inv[i].task = "START_GLUE" /\ inv[i].slot \in Slot
  BY <1>1 DEF IInv, CallInv, Placed, Suits, TypeInv, Call
<1>3. Finish(i, inv[i].slot) \/ NextSlot(i) \/ Goto(i, "reserve")
  <2>1. attempt[inv[i].slot] \in {"NONE", "RESERVED", "COMPLETED"}
    BY <1>2 DEF IInv, TypeInv, TableInv
  <2> QED BY <2>1 DEF ReadSlot
<1>4. Proceeds(i)
  <2>0. Monotone
    BY <1>1, NothingIsMonotone
  <2>1. CASE Finish(i, inv[i].slot)
    <3>1. Evidence(inv[i].task, inv[i].exec, inv[i].slot)
      BY <1>2 DEF Evidence, Results
    <3> QED BY <1>1, <2>0, <2>1, <3>1, FinishProceeds DEF Begun
  <2>2. CASE NextSlot(i)
    BY <1>1, <1>2, <2>0, <2>2, NextSlotProceeds
  <2>3. CASE Goto(i, "reserve")
    BY <1>1, <1>2, <2>0, <2>3, GotoProceeds, PhaseSet DEF Suits, Begun
  <2> QED BY <1>3, <2>1, <2>2, <2>3
<1> QED BY <1>1, <1>4, NothingStep

LEMMA RecordGlueStep ==
  ASSUME IInv, NEW i \in Invocation, RecordGlue(i)
  PROVE  IInv' /\ Monotone
<1>1. inv[i].task = "RECORD_GLUE" /\ inv[i].pc = "execute" /\ NothingWritten
  BY DEF RecordGlue, At
<1>2. PICK r : r = ResultOf("START_GLUE")
  OBVIOUS
<1>3. CASE /\ Done("START_GLUE") /\ sf[inv[i].exec].job = r
           /\ object["output-authority"].body = <<r>> /\ Finish(i, r)
  <2>1. PastWait(inv[i].exec)
    BY <1>1 DEF IInv, CallInv, Called
  <2>2. r \in Slot /\ job[r].state = "SUCCEEDED"
    BY <1>3, <2>1 DEF PastWait
  <2>3. Evidence("RECORD_GLUE", inv[i].exec, r)
    BY <1>2, <1>3, <2>2 DEF Evidence, Results
  <2>4. Proceeds(i)
    BY <1>1, <1>3, <2>3, FinishProceeds, NothingIsMonotone DEF Begun
  <2> QED BY <1>1, <2>4, NothingStep
<1>4. CASE Raise(i)
  BY <1>1, <1>4, NothingStep DEF Proceeds
<1> QED BY <1>2, <1>3, <1>4 DEF RecordGlue

LEMMA CompareRecordsStep ==
  ASSUME IInv, NEW i \in Invocation, CompareRecords(i)
  PROVE  IInv' /\ Monotone
<1>1. inv[i].task = "PARITY" /\ inv[i].pc = "execute" /\ NothingWritten
  BY DEF CompareRecords, At
<1>2. Goto(i, "report") \/ Raise(i)
  BY DEF CompareRecords
<1>3. Proceeds(i)
  <2>1. CASE Goto(i, "report")
    BY <1>1, <2>1, GotoProceeds, NothingIsMonotone, PhaseSet DEF Suits, Begun
  <2> QED BY <1>2, <2>1 DEF Proceeds
<1> QED BY <1>1, <1>3, NothingStep

LEMMA ConfirmParityStep ==
  ASSUME IInv, NEW i \in Invocation, ConfirmParity(i)
  PROVE  IInv' /\ Monotone
<1>1. inv[i].task = "ACTIVATE" /\ inv[i].pc = "execute" /\ NothingWritten
  BY DEF ConfirmParity, At
<1>2. (MoveReady /\ Goto(i, "move")) \/ Raise(i)
  BY DEF ConfirmParity, MoveReady, PlanHolds
<1>3. Proceeds(i)
  <2>1. CASE MoveReady /\ Goto(i, "move")
    BY <1>1, <2>1, GotoProceeds, NothingIsMonotone, PhaseSet DEF Suits, Begun
  <2> QED BY <1>2, <2>1 DEF Proceeds
<1> QED BY <1>1, <1>3, NothingStep

LEMMA CompleteRunStep ==
  ASSUME IInv, NEW i \in Invocation, CompleteRun(i)
  PROVE  IInv' /\ Monotone
<1>1. inv[i].task = "COMPLETE" /\ inv[i].pc = "execute" /\ NothingWritten
  BY DEF CompleteRun, At
<1>2. Finish(i, "RECEIPT") \/ Raise(i)
  BY DEF CompleteRun
<1>3. Proceeds(i)
  <2>1. CASE Finish(i, "RECEIPT")
    <3>1. Evidence("COMPLETE", inv[i].exec, "RECEIPT")
      BY DEF Evidence, Results
    <3> QED BY <1>1, <2>1, <3>1, FinishProceeds, NothingIsMonotone DEF Begun
  <2> QED BY <1>2, <2>1 DEF Proceeds
<1> QED BY <1>1, <1>3, NothingStep

----------------------------------------------------------------------------
(* The steps that put an immutable output.                                 *)

LEMMA FaultTypes ==
  ASSUME TableInv, NEW harm \in BOOLEAN, Fault(harm)
  PROVE  faults' \in 0..MaxFaults /\ harmed' \in BOOLEAN
<1>1. faults' \in 0..MaxFaults
  BY BoundAssumption DEF TableInv, Fault
<1>2. harmed' \in BOOLEAN
  BY DEF Fault
<1> QED BY <1>1, <1>2

(* The tables after a put or a look at what is there.                      *)
PutTables(k, body) ==
  \/ Create(k, body) /\ UNCHANGED <<flying, faults, harmed>>
  \/ UNCHANGED <<object, flying, faults, harmed>>
  \/ /\ Fault(FALSE) /\ UNCHANGED object
     /\ flying' = [flying EXCEPT ![k] = @ \union {body}]

LEMMA PutKeeps ==
  ASSUME TableInv, NEW k \in Key, NEW body, PutTables(k, body)
  PROVE  /\ object' = [j \in Key |-> object'[j]]
         /\ flying' = [j \in Key |-> flying'[j]]
         /\ faults' \in 0..MaxFaults /\ harmed' \in BOOLEAN
         /\ \A j \in Key : object[j] # Missing => object'[j] = object[j]
<1>1. /\ object = [j \in Key |-> object[j]] /\ flying = [j \in Key |-> flying[j]]
      /\ faults \in 0..MaxFaults /\ harmed \in BOOLEAN
  BY DEF TableInv
<1>2. CASE Create(k, body) /\ UNCHANGED <<flying, faults, harmed>>
  <2>1. /\ object[k] = Missing
        /\ object' = [object EXCEPT ![k] = [body |-> body, version |-> 1]]
    BY <1>2 DEF Create
  <2>2. \A j \in Key : object[j] # Missing => object'[j] = object[j]
    BY <1>1, <2>1
  <2>3. object' = [j \in Key |-> object'[j]]
    BY <1>1, <2>1
  <2> QED BY <1>1, <1>2, <2>2, <2>3
<1>3. CASE UNCHANGED <<object, flying, faults, harmed>>
  BY <1>1, <1>3
<1>4. CASE /\ Fault(FALSE) /\ UNCHANGED object
           /\ flying' = [flying EXCEPT ![k] = @ \union {body}]
  <2>1. faults' \in 0..MaxFaults /\ harmed' \in BOOLEAN
    BY <1>4, FaultTypes
  <2>2. flying' = [j \in Key |-> flying'[j]]
    BY <1>1, <1>4
  <2> QED BY <1>1, <1>4, <2>1, <2>2
<1> QED BY <1>2, <1>3, <1>4 DEF PutTables

LEMMA PutStep ==
  ASSUME IInv, NEW i \in Invocation, inv[i].pc # "idle",
         NEW k \in Key, NEW body, PutTables(k, body),
         UNCHANGED <<ledger, binding, attempt, online, ptr, op, calls, job, input, admitted>>,
         Monotone => Proceeds(i)
  PROVE  IInv' /\ Monotone
<1>1. /\ object' = [j \in Key |-> object'[j]] /\ flying' = [j \in Key |-> flying'[j]]
      /\ faults' \in 0..MaxFaults /\ harmed' \in BOOLEAN
      /\ \A j \in Key : object[j] # Missing => object'[j] = object[j]
  BY PutKeeps DEF IInv, TypeInv
<1>2. Monotone
  BY <1>1 DEF Monotone
<1>3. TableInv'
  BY <1>1 DEF IInv, TypeInv, TableInv
<1> QED BY <1>2, <1>3, ProceedsStep

(* Another attempt.                                                        *)
LEMMA AgainProceeds ==
  ASSUME IInv, Monotone, NEW i \in Invocation, inv[i].pc # "idle",
         NEW pc \in {"freeze", "report"}, Again(i, pc), inv[i].try # MaxAttempts,
         Suits(inv[i].task, pc),
         pc \in Begun => inv[i].pc \in Begun,
         pc = "freeze" => inv[i].pc = "refreeze"
  PROVE  Proceeds(i)
<1>1. inv[i] \in Call /\ pc \in Phase
  BY PhaseSet DEF IInv, TypeInv
<1>2. PICK n \in 1..MaxAttempts : n = inv[i].try + 1
  BY <1>1, BoundAssumption DEF Call
<1> DEFINE c == [inv[i] EXCEPT !.pc = pc, !.try = n]
<1>3. /\ c \in Call /\ c.pc = pc /\ c.reading = inv[i].reading
      /\ c.exec = inv[i].exec /\ c.task = inv[i].task
  BY <1>1 DEF Call
<1>4. inv' = [inv EXCEPT ![i] = c] /\ UNCHANGED sf
  BY <1>1, <1>2 DEF Again, Step, Call
<1> HIDE DEF c
<1>5. PICK d \in Call : d = c
  BY <1>3
<1>6. Called(inv[i]) /\ Placed(inv[i])
  BY DEF IInv, CallInv
<1>7. Placed(d)'
  BY <1>3, <1>5, <1>6 DEF Placed, Called, Suits, Begun, Monotone
<1> QED BY <1>3, <1>4, <1>5, <1>7 DEF Proceeds, Continues

LEMMA FreezeStep ==
  ASSUME IInv, NEW i \in Invocation, Freeze(i)
  PROVE  IInv' /\ Monotone
<1>1. inv[i].task = "VALIDATE" /\ inv[i].pc \in {"freeze", "refreeze"}
  BY DEF Freeze
<1>2. PICK body : body = Frozen(i)
  OBVIOUS
<1>3. UNCHANGED <<ledger, binding, attempt, online, ptr, op, calls, job, input, admitted>>
  BY DEF Freeze
<1>4. PutTables("expected-state", body)
  BY <1>2 DEF Freeze, Put, Reconcile, PutTables
<1>5. \/ Goto(i, "begin") \/ Goto(i, "refreeze") \/ Raise(i)
      \/ inv[i].pc = "refreeze" /\ Again(i, "freeze") /\ inv[i].try # MaxAttempts
  BY DEF Freeze, Put, Reconcile
<1>6. inv[i].reading \in Reading
  BY <1>1 DEF IInv, CallInv, Placed
<1>7. ASSUME Monotone PROVE Proceeds(i)
  <2>1. CASE Goto(i, "begin")
    BY <1>1, <1>6, <1>7, <2>1, GotoProceeds, PhaseSet DEF Suits, Begun
  <2>2. CASE Goto(i, "refreeze")
    BY <1>1, <1>6, <1>7, <2>2, GotoProceeds, PhaseSet DEF Suits, Begun
  <2>3. CASE inv[i].pc = "refreeze" /\ Again(i, "freeze") /\ inv[i].try # MaxAttempts
    BY <1>1, <1>7, <2>3, AgainProceeds DEF Suits, Begun
  <2> QED BY <1>5, <2>1, <2>2, <2>3 DEF Proceeds
<1> QED BY <1>1, <1>3, <1>4, <1>7, PutStep DEF Key

LEMMA FreezeReportStep ==
  ASSUME IInv, NEW i \in Invocation, FreezeReport(i)
  PROVE  IInv' /\ Monotone
<1>1. inv[i].pc \in {"report", "rereport"}
  BY DEF FreezeReport
<1>2. inv[i].task = "PARITY"
  BY <1>1 DEF IInv, CallInv, Placed, Suits
<1>3. PICK decision : decision = Decision
  OBVIOUS
<1>4. UNCHANGED <<ledger, binding, attempt, online, ptr, op, calls, job, input, admitted>>
  BY DEF FreezeReport
<1>5. PutTables("parity-report", <<decision>>)
  BY <1>3 DEF FreezeReport, Put, Reconcile, PutTables
<1>6. \/ Finish(i, decision) \/ Goto(i, "rereport") \/ Raise(i)
      \/ inv[i].pc = "rereport" /\ Again(i, "report") /\ inv[i].try # MaxAttempts
  BY <1>3 DEF FreezeReport, Put, Reconcile
<1>7. ASSUME Monotone PROVE Proceeds(i)
  <2>1. CASE Finish(i, decision)
    <3>1. Evidence("PARITY", inv[i].exec, decision)
      BY <1>3 DEF Evidence, Results, Decision
    <3> QED BY <1>1, <1>2, <1>7, <2>1, <3>1, FinishProceeds DEF Begun
  <2>2. CASE Goto(i, "rereport")
    BY <1>1, <1>2, <1>7, <2>2, GotoProceeds, PhaseSet DEF Suits, Begun
  <2>3. CASE inv[i].pc = "rereport" /\ Again(i, "report") /\ inv[i].try # MaxAttempts
    BY <1>1, <1>2, <1>7, <2>3, AgainProceeds DEF Suits, Begun
  <2> QED BY <1>6, <2>1, <2>2, <2>3 DEF Proceeds
<1> QED BY <1>1, <1>4, <1>5, <1>7, PutStep DEF Key

----------------------------------------------------------------------------
(* The other writes of an invocation.                                      *)

LEMMA BindLaunchStep ==
  ASSUME IInv, NEW i \in Invocation, BindLaunch(i)
  PROVE  IInv' /\ Monotone
<1>1. /\ inv[i].task = "START_GLUE" /\ inv[i].pc = "execute"
      /\ UNCHANGED <<ledger, attempt, object, online, ptr, op,
                     calls, job, flying, input, admitted, harmed, faults>>
  BY DEF BindLaunch, At, world
<1>2. inv[i].exec \in Exec
  BY <1>1 DEF IInv, CallInv, Called
<1>3. Monotone
  BY <1>1 DEF Monotone
<1>4. binding' \in Exec \union {None}
  BY <1>2 DEF BindLaunch, IInv, TypeInv, TableInv
<1>5. TableInv'
  BY <1>1, <1>4 DEF IInv, TypeInv, TableInv
<1>6. Goto(i, "slot") \/ Raise(i)
  BY DEF BindLaunch
<1>7. Proceeds(i)
  <2>1. CASE Goto(i, "slot")
    BY <1>1, <1>3, <2>1, GotoProceeds, PhaseSet DEF Suits, Begun
  <2> QED BY <1>6, <2>1 DEF Proceeds
<1> QED BY <1>1, <1>3, <1>5, <1>7, ProceedsStep

LEMMA ClaimGenerationStep ==
  ASSUME IInv, NEW i \in Invocation, ClaimGeneration(i)
  PROVE  IInv' /\ Monotone
<1>1. /\ inv[i].task = "MATERIALIZE_ONLINE" /\ inv[i].pc = "execute"
      /\ UNCHANGED <<ledger, binding, attempt, object, ptr, op,
                     calls, job, flying, input, admitted, harmed, faults>>
  BY DEF ClaimGeneration, At, world
<1>2. Monotone
  BY <1>1 DEF Monotone
<1>3. online' \in Online
  <2>1. online \in Online
    BY DEF IInv, TypeInv, TableInv
  <2>2. online' \in {online, [online EXCEPT !.state = "WRITING"]}
    BY DEF ClaimGeneration
  <2> QED BY <2>1, <2>2 DEF Online
<1>4. TableInv'
  BY <1>1, <1>3 DEF IInv, TypeInv, TableInv
<1>5. Goto(i, "fill") \/ Raise(i)
  BY DEF ClaimGeneration
<1>6. Proceeds(i)
  <2>1. CASE Goto(i, "fill")
    BY <1>1, <1>2, <2>1, GotoProceeds, PhaseSet DEF Suits, Begun
  <2> QED BY <1>5, <2>1 DEF Proceeds
<1> QED BY <1>1, <1>2, <1>4, <1>6, ProceedsStep

LEMMA FillGenerationStep ==
  ASSUME IInv, NEW i \in Invocation, FillGeneration(i)
  PROVE  IInv' /\ Monotone
<1>1. /\ inv[i].pc = "fill"
      /\ UNCHANGED <<ledger, binding, attempt, object, ptr, op,
                     calls, job, flying, input, admitted, harmed, faults>>
  BY DEF FillGeneration, world
<1>2. inv[i].task = "MATERIALIZE_ONLINE"
  BY <1>1 DEF IInv, CallInv, Placed, Suits
<1>3. Monotone
  BY <1>1 DEF Monotone
<1>4. online' \in Online
  <2>1. online \in Online
    BY DEF IInv, TypeInv, TableInv
  <2>2. online' \in {online, [online EXCEPT !.state = "VALIDATED"]}
    BY DEF FillGeneration
  <2> QED BY <2>1, <2>2 DEF Online
<1>5. TableInv'
  BY <1>1, <1>4 DEF IInv, TypeInv, TableInv
<1>6. Finish(i, "VALIDATED") \/ Raise(i)
  BY DEF FillGeneration
<1>7. Proceeds(i)
  <2>1. CASE Finish(i, "VALIDATED")
    <3>1. Evidence("MATERIALIZE_ONLINE", inv[i].exec, "VALIDATED")
      BY DEF Evidence, Results
    <3> QED BY <1>1, <1>2, <1>3, <2>1, <3>1, FinishProceeds DEF Begun
  <2> QED BY <1>6, <2>1 DEF Proceeds
<1> QED BY <1>1, <1>3, <1>5, <1>7, ProceedsStep

(* The move, or the operation that is there already: both under MoveReady. *)
LEMMA MovePointerStep ==
  ASSUME IInv, NEW i \in Invocation, MovePointer(i)
  PROVE  IInv' /\ Monotone
<1>1. /\ inv[i].pc = "move"
      /\ UNCHANGED <<ledger, binding, attempt, object, online,
                     calls, job, flying, input, admitted, harmed, faults>>
  BY DEF MovePointer, world
<1>2. inv[i].task = "ACTIVATE" /\ MoveReady /\ Called(inv[i]) /\ Placed(inv[i])
  BY <1>1 DEF IInv, CallInv, Placed, Suits
<1>3. Monotone
  BY <1>1 DEF MovePointer, Monotone
<1>4. TableInv'
  <2>1. ptr \in Ptr /\ op \in BOOLEAN
    BY DEF IInv, TypeInv, TableInv
  <2>2. \/ UNCHANGED <<ptr, op>>
        \/ ptr' = [gen |-> "ours", version |-> 1] /\ op' = TRUE
    BY DEF MovePointer, Expected
  <2>3. ptr' \in Ptr
    <3>1. [gen |-> "ours", version |-> 1] \in Ptr
      BY DEF Ptr
    <3> QED BY <2>1, <2>2, <3>1
  <2>4. op' \in BOOLEAN
    BY <2>1, <2>2
  <2>5. /\ ptr'.gen = "none" => ptr'.version = 0
        /\ ptr'.gen = "ours" => ptr'.version = 1
    BY <2>2 DEF IInv, TypeInv, TableInv
  <2> QED BY <1>1, <2>3, <2>4, <2>5 DEF IInv, TypeInv, TableInv
<1>5. LedgerInv'
  BY <1>1, <1>3, LedgerKept DEF IInv
<1>6. MovedInv'
  BY <1>2, <1>3, MoveReadyStable DEF IInv, MovedInv
<1>7. (Finish(i, "ACTIVATED") /\ op' = TRUE) \/ Raise(i)
  BY DEF MovePointer, IInv, TypeInv, TableInv
<1>8. CallsInv
  BY DEF IInv, CallsInv
<1>9. CallsKept /\ \A j \in Invocation : inv'[j].pc \in {"launch", "note"} => inv'[j] = inv[j]
  <2>1. CASE Finish(i, "ACTIVATED") /\ op' = TRUE
    <3>1. "ACTIVATED" \in Outcome
      BY TaskSet DEF Outcome, Results
    <3>2. PICK c \in Call : Continues(i, c) /\ c.pc = "complete" /\ c.out = "ACTIVATED"
      BY <2>1, <3>1, FinishIs DEF IInv
    <3>3. c.exec = inv[i].exec /\ c.task = "ACTIVATE"
      BY <1>2, <3>2 DEF Continues
    <3>4. Evidence(c.task, c.exec, c.out)'
      BY <2>1, <3>2, <3>3 DEF Evidence, Results
    <3>5. Placed(c)'
      BY <1>1, <1>2, <1>3, <3>2, <3>3, <3>4 DEF Placed, Called, Suits, Begun, Monotone
    <3>6. CallsKept
      BY <1>1, <1>3, <1>8, <3>2, <3>5, CallContinues
    <3> QED BY <3>2, <3>6, InvFrom DEF IInv, Continues
  <2>2. CASE Raise(i)
    <3>1. CallsKept
      BY <1>1, <1>3, <1>8, <2>2, CallRaises
    <3>2. inv' = [inv EXCEPT ![i] = Idle] /\ Idle.pc \notin {"launch", "note"}
      BY <2>2, IdleIs DEF Raise
    <3> QED BY <3>1, <3>2, InvFrom DEF IInv
  <2> QED BY <1>7, <2>1, <2>2
<1>10. LaunchInv'
  BY <1>1, <1>9, LaunchKept DEF IInv
<1> QED BY <1>3, <1>4, <1>5, <1>6, <1>9, <1>10 DEF IInv, TypeInv, CallsKept

----------------------------------------------------------------------------
(* The launch.                                                             *)

LEMMA SlotOf ==
  ASSUME IInv, NEW i \in Invocation, inv[i].pc \in {"slot", "reserve", "launch", "note"}
  PROVE  inv[i].slot \in Slot /\ inv[i].task = "START_GLUE"
BY DEF IInv, CallInv, Placed, Suits, TypeInv, Call

LEMMA ReserveStep ==
  ASSUME IInv, NEW i \in Invocation, Reserve(i)
  PROVE  IInv' /\ Monotone
<1>1. /\ inv[i].pc = "reserve"
      /\ UNCHANGED <<ledger, binding, object, online, ptr, op,
                     calls, job, flying, input, admitted, harmed, faults>>
  BY DEF Reserve, world
<1>2. PICK n \in Slot : n = inv[i].slot
  BY <1>1, SlotOf
<1>3. Monotone
  BY <1>1 DEF Monotone
<1>4. inv[i].task = "START_GLUE"
  BY <1>1, SlotOf
<1>5. CASE attempt[n] # "NONE" /\ NextSlot(i) /\ UNCHANGED attempt
  <2>1. TableInv'
    BY <1>1, <1>5 DEF IInv, TypeInv, TableInv
  <2>2. Proceeds(i)
    BY <1>1, <1>3, <1>4, <1>5, NextSlotProceeds
  <2> QED BY <1>1, <1>3, <1>5, <2>1, <2>2, ProceedsStep
<1>6. CASE /\ attempt[n] = "NONE" /\ Goto(i, "launch")
           /\ attempt' = [attempt EXCEPT ![n] = "RESERVED"]
  <2>1. attempt' \in [Slot -> {"NONE", "RESERVED", "COMPLETED"}]
    BY <1>6 DEF IInv, TypeInv, TableInv
  <2>2. TableInv'
    BY <1>1, <2>1 DEF IInv, TypeInv, TableInv
  <2>3. PICK c \in Call : Continues(i, c) /\ c.pc = "launch" /\ c.slot = n
    BY <1>2, <1>6, GotoIs, PhaseSet DEF IInv
  <2>4. Placed(inv[i]) /\ Called(inv[i])
    BY <1>1 DEF IInv, CallInv
  <2>5. Placed(c)'
    BY <1>1, <1>3, <1>4, <2>3, <2>4
    DEF Placed, Called, Continues, Suits, Begun, Monotone
  <2>6. CallsKept
    BY <1>1, <1>3, <2>3, <2>5, CallContinues DEF IInv, CallsInv
  <2>7. LedgerInv' /\ MovedInv'
    BY <1>1, <1>3, LedgerKept, MovedKept DEF IInv
  <2>8. inv'[i] = c /\ \A j \in Invocation \ {i} : inv'[j] = inv[j]
    BY <2>3 DEF IInv, TypeInv, Continues
  <2>9. attempt'[n] = "RESERVED" /\ \A m \in Slot \ {n} : attempt'[m] = attempt[m]
    BY <1>6 DEF IInv, TypeInv, TableInv
  <2>10. calls[n] = 0
    <3>1. attempt[n] = "NONE"
      BY <1>6
    <3>2. calls[n] <= 1 /\ (calls[n] = 1 => attempt[n] # "NONE")
      BY DEF IInv, LaunchInv
    <3>3. calls[n] \in Nat
      BY DEF IInv, TypeInv, TableInv
    <3> QED BY <3>1, <3>2, <3>3
  <2>11. \A j \in Invocation :
           inv[j].pc = "launch" => inv[j].slot \in Slot \ {n}
    BY <1>6, SlotOf DEF IInv, LaunchInv
  <2>12. \A m \in Slot : /\ calls'[m] <= 1
                         /\ calls'[m] = 1 => attempt'[m] # "NONE"
                         /\ calls'[m] = 0 => job'[m].state = "NONE"
    BY <1>1, <2>9 DEF IInv, LaunchInv
  <2>13. \A j \in Invocation :
           /\ inv'[j].pc = "launch" =>
                attempt'[inv'[j].slot] = "RESERVED" /\ calls'[inv'[j].slot] = 0
           /\ inv'[j].pc = "note" => calls'[inv'[j].slot] = 1
    BY <1>1, <2>3, <2>8, <2>9, <2>10, <2>11 DEF IInv, LaunchInv
  <2>14. \A j, k \in Invocation :
           inv'[j].pc = "launch" /\ inv'[k].pc = "launch" /\ inv'[j].slot = inv'[k].slot
             => j = k
    BY <2>3, <2>8, <2>11 DEF IInv, LaunchInv
  <2>15. LaunchInv'
    BY <1>1, <2>12, <2>13, <2>14 DEF IInv, LaunchInv, Running
  <2> QED BY <1>3, <2>2, <2>6, <2>7, <2>15 DEF IInv, TypeInv, CallsKept
<1> QED BY <1>2, <1>5, <1>6 DEF Reserve

LEMMA NoteLaunchStep ==
  ASSUME IInv, NEW i \in Invocation, NoteLaunch(i)
  PROVE  IInv' /\ Monotone
<1>1. /\ inv[i].pc = "note"
      /\ UNCHANGED <<ledger, binding, object, online, ptr, op,
                     calls, job, flying, input, admitted, harmed, faults>>
  BY DEF NoteLaunch, world
<1>2. PICK n \in Slot : n = inv[i].slot
  BY <1>1, SlotOf
<1>3. inv[i].task = "START_GLUE" /\ Placed(inv[i]) /\ Called(inv[i])
  BY <1>1, SlotOf DEF IInv, CallInv
<1>4. attempt' = [attempt EXCEPT ![n] = "COMPLETED"] /\ Finish(i, n)
  BY <1>2 DEF NoteLaunch
<1>5. Monotone
  BY <1>1 DEF Monotone
<1>6. attempt' \in [Slot -> {"NONE", "RESERVED", "COMPLETED"}]
  BY <1>4 DEF IInv, TypeInv, TableInv
<1>7. TableInv'
  BY <1>1, <1>6 DEF IInv, TypeInv, TableInv
<1>8. n \in Outcome /\ n \in Results["START_GLUE"]
  BY TaskSet DEF Outcome, Results
<1>9. PICK c \in Call : Continues(i, c) /\ c.pc = "complete" /\ c.out = n
  BY <1>4, <1>8, FinishIs DEF IInv
<1>10. c.exec = inv[i].exec /\ c.task = "START_GLUE"
  BY <1>3, <1>9 DEF Continues
<1>11. Evidence(c.task, c.exec, c.out)'
  BY <1>8, <1>9, <1>10 DEF Evidence
<1>12. Placed(c)'
  BY <1>1, <1>3, <1>5, <1>9, <1>10, <1>11 DEF Placed, Called, Suits, Begun, Monotone
<1>13. CallsKept
  BY <1>1, <1>5, <1>9, <1>12, CallContinues DEF IInv, CallsInv
<1>14. LedgerInv' /\ MovedInv'
  BY <1>1, <1>5, LedgerKept, MovedKept DEF IInv
<1>15. inv'[i] = c /\ \A j \in Invocation \ {i} : inv'[j] = inv[j]
  BY <1>9 DEF IInv, TypeInv, Continues
<1>16. attempt'[n] = "COMPLETED" /\ \A m \in Slot \ {n} : attempt'[m] = attempt[m]
  BY <1>4 DEF IInv, TypeInv, TableInv
<1>17. calls[n] = 1
  BY <1>1, <1>2 DEF IInv, LaunchInv
<1>18. \A j \in Invocation : inv[j].pc = "launch" => inv[j].slot \in Slot \ {n}
  BY <1>17, SlotOf DEF IInv, LaunchInv
<1>19. \A m \in Slot : calls'[m] = 1 => attempt'[m] # "NONE"
  BY <1>1, <1>16 DEF IInv, LaunchInv
<1>20. \A j \in Invocation :
         /\ inv'[j].pc = "launch" =>
              attempt'[inv'[j].slot] = "RESERVED" /\ calls'[inv'[j].slot] = 0
         /\ inv'[j].pc = "note" => calls'[inv'[j].slot] = 1
  BY <1>1, <1>9, <1>15, <1>16, <1>18 DEF IInv, LaunchInv
<1>21. \A j \in Invocation : inv'[j].pc = "launch" => inv'[j] = inv[j]
  BY <1>9, <1>15
<1>22. LaunchInv'
  BY <1>1, <1>19, <1>20, <1>21 DEF IInv, LaunchInv, Running
<1> QED BY <1>5, <1>7, <1>13, <1>14, <1>22 DEF IInv, TypeInv, CallsKept

LEMMA JobSet ==
  ASSUME job \in [Slot -> JobRun], NEW n \in Slot, job' = [job EXCEPT ![n].state = "RUNNING"]
  PROVE  /\ job' \in [Slot -> JobRun] /\ job'[n].state = "RUNNING"
         /\ \A m \in Slot \ {n} : job'[m] = job[m]
<1>1. job[n] \in JobRun
  OBVIOUS
<1> DEFINE j == [job[n] EXCEPT !.state = "RUNNING"]
<1>2. j \in JobRun /\ j.state = "RUNNING"
  BY <1>1 DEF JobRun
<1>3. job' = [job EXCEPT ![n] = j]
  OBVIOUS
<1> HIDE DEF j
<1> QED BY <1>2, <1>3

(* The slot is called once; the run it may start is then the only one.     *)
LEMMA LaunchStep ==
  ASSUME IInv, NEW i \in Invocation, Launch(i)
  PROVE  IInv' /\ Monotone
<1>1. /\ inv[i].pc = "launch"
      /\ UNCHANGED <<ledger, binding, attempt, object, online, ptr, op,
                     flying, input, admitted>>
  BY DEF Launch, durable
<1>2. PICK n \in Slot : n = inv[i].slot
  BY <1>1, SlotOf
<1>3. inv[i].task = "START_GLUE" /\ Placed(inv[i]) /\ Called(inv[i])
  BY <1>1, SlotOf DEF IInv, CallInv
<1>4. attempt[n] = "RESERVED" /\ calls[n] = 0 /\ job[n].state = "NONE"
  BY <1>1, <1>2 DEF IInv, LaunchInv
<1>5. calls' \in [Slot -> Nat] /\ calls'[n] = 1 /\ \A m \in Slot \ {n} : calls'[m] = calls[m]
  <2>1. calls' = [calls EXCEPT ![n] = @ + 1]
    BY <1>2 DEF Launch
  <2> QED BY <1>4, <2>1 DEF IInv, TypeInv, TableInv
<1>6. /\ UNCHANGED <<harmed, faults>> \/ Fault(TRUE)
      /\ UNCHANGED job \/ (Running = {} /\ job' = [job EXCEPT ![n].state = "RUNNING"])
      /\ Goto(i, "note") \/ RaiseRetryable(i)
  BY <1>2 DEF Launch
<1>7. faults' \in 0..MaxFaults /\ harmed' \in BOOLEAN
  <2>1. CASE UNCHANGED <<harmed, faults>>
    BY <2>1 DEF IInv, TypeInv, TableInv
  <2>2. CASE Fault(TRUE)
    BY <2>2, FaultTypes DEF IInv, TypeInv
  <2> QED BY <1>6, <2>1, <2>2
<1>8. /\ job' \in [Slot -> JobRun]
      /\ \A m \in Slot \ {n} : job'[m] = job[m]
      /\ \A m, k \in Slot : job'[m].state = "RUNNING" /\ job'[k].state = "RUNNING" => m = k
  <2>1. job \in [Slot -> JobRun] /\ \A m, k \in Running : m = k
    BY DEF IInv, TypeInv, TableInv, LaunchInv
  <2>2. CASE UNCHANGED job
    BY <2>1, <2>2 DEF Running
  <2>3. CASE Running = {} /\ job' = [job EXCEPT ![n].state = "RUNNING"]
    BY <2>1, <2>3, JobSet DEF Running
  <2> QED BY <1>6, <2>2, <2>3
<1>9. Monotone
  BY <1>1, <1>4, <1>8 DEF Monotone
<1>10. TableInv'
  BY <1>1, <1>5, <1>7, <1>8 DEF IInv, TypeInv, TableInv
<1>11. LedgerInv' /\ MovedInv'
  BY <1>1, <1>9, LedgerKept, MovedKept DEF IInv
<1>12. CallsInv
  BY DEF IInv, CallsInv
<1>13. /\ CallsKept
       /\ \A j \in Invocation \ {i} : inv'[j] = inv[j]
       /\ inv'[i].pc # "launch"
       /\ inv'[i].pc = "note" => inv'[i].slot = n
  <2>1. CASE Goto(i, "note")
    <3>1. PICK c \in Call : Continues(i, c) /\ c.pc = "note" /\ c.slot = n
      BY <1>2, <2>1, GotoIs, PhaseSet DEF IInv
    <3>2. Placed(c)'
      BY <1>1, <1>3, <1>9, <3>1 DEF Placed, Called, Continues, Suits, Begun, Monotone
    <3>3. CallsKept
      BY <1>1, <1>9, <1>12, <3>1, <3>2, CallContinues
    <3> QED BY <3>1, <3>3 DEF IInv, TypeInv, Continues
  <2>2. CASE RaiseRetryable(i)
    <3>1. CallsKept
      BY <1>1, <1>9, <1>12, <2>2, CallRaises
    <3> QED BY <2>2, <3>1, IdleIs DEF IInv, TypeInv, RaiseRetryable
  <2> QED BY <1>6, <2>1, <2>2
<1>14. \A j \in Invocation \ {i} : inv[j].pc = "launch" => inv[j].slot \in Slot \ {n}
  BY <1>1, <1>2, SlotOf DEF IInv, LaunchInv
<1>15. \A j \in Invocation : inv[j].pc = "note" => inv[j].slot \in Slot \ {n}
  BY <1>4, SlotOf DEF IInv, LaunchInv
<1>16. \A m \in Slot : /\ calls'[m] <= 1
                       /\ calls'[m] = 1 => attempt'[m] # "NONE"
                       /\ calls'[m] = 0 => job'[m].state = "NONE"
  BY <1>1, <1>4, <1>5, <1>8 DEF IInv, LaunchInv
<1>17. \A j \in Invocation :
         /\ inv'[j].pc = "launch" =>
              attempt'[inv'[j].slot] = "RESERVED" /\ calls'[inv'[j].slot] = 0
         /\ inv'[j].pc = "note" => calls'[inv'[j].slot] = 1
  BY <1>1, <1>5, <1>13, <1>14, <1>15 DEF IInv, LaunchInv
<1>18. \A j \in Invocation : inv'[j].pc = "launch" => inv'[j] = inv[j]
  BY <1>13
<1>19. LaunchInv'
  <2>1. \A m, k \in Running' : m = k
    BY <1>8 DEF Running
  <2> QED BY <1>16, <1>17, <1>18, <2>1 DEF IInv, LaunchInv
<1> QED BY <1>9, <1>10, <1>11, <1>13, <1>19 DEF IInv, TypeInv, CallsKept

----------------------------------------------------------------------------
(* The ledger.                                                             *)

(* All but the row of t is as it was, and that row is grounded.            *)
LEMMA LedgerSet ==
  ASSUME Monotone, LedgerInv, NEW t \in Task, Grounded(t)',
         \A s \in Task \ {t} : ledger'[s] = ledger[s]
  PROVE  LedgerInv'
<1>1. ASSUME NEW s \in Task PROVE Grounded(s)'
  <2>1. CASE s = t
    BY <2>1 DEF Grounded, Behind, Evidence
  <2>2. CASE s # t
    BY <2>2, LedgerStable
  <2> QED BY <2>1, <2>2
<1> QED BY <1>1 DEF LedgerInv

(* The ledger changes, and of the rest only sf and inv.                    *)
LEMMA LedgerStep ==
  ASSUME IInv, Monotone, CallsKept, LedgerInv', ledger' \in [Task -> Entry],
         UNCHANGED <<binding, attempt, object, online, ptr, op,
                     calls, job, flying, input, admitted, harmed, faults>>,
         \A j \in Invocation : inv'[j].pc \in {"launch", "note"} => inv'[j] = inv[j]
  PROVE  IInv'
<1>1. TableInv'
  BY DEF IInv, TypeInv, TableInv
<1>2. LaunchInv'
  BY LaunchKept DEF IInv
<1>3. MovedInv'
  BY MovedKept DEF IInv
<1> QED BY <1>1, <1>2, <1>3 DEF IInv, TypeInv, CallsKept

(* A row begun, and a row completed.                                       *)
LEMMA StartedRow ==
  ASSUME NEW t, NEW e \in Exec,
         ledger' = [ledger EXCEPT ![t] = [Free EXCEPT !.state = "STARTED", !.owner = e]]
  PROVE  \E row \in Entry : /\ row.state = "STARTED" /\ row.owner = e
                            /\ ledger' = [ledger EXCEPT ![t] = row]
<1> DEFINE row == [Free EXCEPT !.state = "STARTED", !.owner = e]
<1>1. Free \in Entry
  BY DEF Free, Entry
<1>2. row \in Entry /\ row.state = "STARTED" /\ row.owner = e
  BY <1>1 DEF Entry
<1>3. ledger' = [ledger EXCEPT ![t] = row]
  OBVIOUS
<1> HIDE DEF row
<1> QED BY <1>2, <1>3

LEMMA CompletedRow ==
  ASSUME ledger \in [Task -> Entry], NEW t \in Task, NEW r \in Outcome,
         ledger' = [ledger EXCEPT ![t].state = "COMPLETED", ![t].result = r]
  PROVE  \E row \in Entry : /\ row.state = "COMPLETED" /\ row.owner = ledger[t].owner
                            /\ row.result = r /\ ledger' = [ledger EXCEPT ![t] = row]
<1>1. ledger[t] \in Entry
  OBVIOUS
<1> DEFINE row == [ledger[t] EXCEPT !.state = "COMPLETED", !.result = r]
<1>2. /\ row \in Entry /\ row.state = "COMPLETED"
      /\ row.owner = ledger[t].owner /\ row.result = r
  BY <1>1 DEF Entry
<1>3. ledger' = [ledger EXCEPT ![t] = row]
  BY <1>1 DEF Entry
<1> HIDE DEF row
<1> QED BY <1>2, <1>3

(* The task is begun: its work follows, or, of VALIDATE, its completion.   *)
LEMMA StartedContinues ==
  ASSUME IInv, Monotone, NEW i \in Invocation, inv[i].pc = "begin",
         ledger'[inv[i].task].state # "ABSENT", ledger'[inv[i].task].owner = inv[i].exec,
         IF inv[i].task = "VALIDATE"
           THEN Finish(i, <<inv[i].exec, inv[i].reading>>) ELSE Goto(i, "execute")
  PROVE  /\ CallsKept
         /\ \A j \in Invocation : inv'[j].pc \in {"launch", "note"} => inv'[j] = inv[j]
<1>1. Called(inv[i]) /\ Placed(inv[i])
  BY DEF IInv, CallInv
<1>2. PICK t \in Task : t = inv[i].task
  BY <1>1 DEF Called
<1>3. PICK e \in Exec : e = inv[i].exec
  BY <1>1 DEF Called
<1>4. ledger'[t].state # "ABSENT" /\ ledger'[t].owner = e
  BY <1>2, <1>3
<1>5. \E c \in Call : Continues(i, c) /\ Placed(c)' /\ c.pc \notin {"launch", "note"}
  <2>1. CASE t = "VALIDATE"
    <3>0. inv[i].reading \in Reading
      BY <1>1, <1>2, <2>1 DEF Placed
    <3> DEFINE p == <<e, inv[i].reading>>
    <3>9. p \in Exec \X Reading /\ p[1] = e
      BY <3>0
    <3>10. Finish(i, p)
      BY <1>2, <1>3, <2>1
    <3> HIDE DEF p
    <3>1. PICK r \in Exec \X Reading : r = p /\ r[1] = e
      BY <3>9
    <3>2. r \in Results["VALIDATE"] /\ r \in Outcome
      BY <2>1 DEF Outcome, Results
    <3>3. PICK c \in Call : Continues(i, c) /\ c.pc = "complete" /\ c.out = r
      BY <3>1, <3>2, <3>10, FinishIs DEF IInv
    <3>4. c.exec = e /\ c.task = "VALIDATE"
      BY <1>2, <1>3, <2>1, <3>3 DEF Continues
    <3>5. Evidence(c.task, c.exec, c.out)'
      BY <3>1, <3>2, <3>3, <3>4 DEF Evidence
    <3>6. Placed(c)'
      BY <1>4, <2>1, <3>3, <3>4, <3>5 DEF Placed, Suits
    <3> QED BY <3>3, <3>6
  <2>2. CASE t # "VALIDATE"
    <3>1. PICK c \in Call : Continues(i, c) /\ c.pc = "execute"
      BY <1>2, <2>2, GotoIs, PhaseSet DEF IInv
    <3>2. c.exec = e /\ c.task = t
      BY <1>2, <1>3, <3>1 DEF Continues
    <3>3. Placed(c)'
      BY <1>4, <2>2, <3>1, <3>2 DEF Placed, Suits
    <3> QED BY <3>1, <3>3
  <2> QED BY <2>1, <2>2
<1>6. CallsKept
  BY <1>5, CallContinues DEF IInv, CallsInv
<1> QED BY <1>5, <1>6, InvFrom DEF IInv, Continues

LEMMA BeginTaskStep ==
  ASSUME IInv, NEW i \in Invocation, BeginTask(i)
  PROVE  IInv' /\ Monotone
<1>1. /\ inv[i].pc = "begin"
      /\ UNCHANGED <<binding, attempt, object, online, ptr, op,
                     calls, job, flying, input, admitted, harmed, faults>>
  BY DEF BeginTask, LedgerOnly, world
<1>2. Called(inv[i])
  BY <1>1 DEF IInv, CallInv
<1>3. PICK t \in Task : t = inv[i].task
  BY <1>2 DEF Called
<1>4. PICK e \in Exec : e = inv[i].exec
  BY <1>2 DEF Called
<1> DEFINE started == IF t = "VALIDATE" THEN Finish(i, <<e, inv[i].reading>>)
                      ELSE Goto(i, "execute")
<1>5. ledger \in [Task -> Entry]
  BY DEF IInv, TypeInv, TableInv
<1>6. CASE /\ ledger[t].state = "ABSENT" /\ started
           /\ ledger' = [ledger EXCEPT ![t] = [Free EXCEPT !.state = "STARTED", !.owner = e]]
  <2>1. PICK row \in Entry :
          /\ row.state = "STARTED" /\ row.owner = e
          /\ ledger' = [ledger EXCEPT ![t] = row]
    <3>1. ledger' = [ledger EXCEPT ![t] = [Free EXCEPT !.state = "STARTED", !.owner = e]]
      BY <1>6
    <3> QED BY <3>1, StartedRow
  <2>2. /\ ledger' \in [Task -> Entry] /\ ledger'[t] = row
        /\ \A s \in Task \ {t} : ledger'[s] = ledger[s]
    BY <1>5, <2>1
  <2>3. Monotone
    BY <1>1, <1>6, <2>2 DEF Monotone, Done
  <2>4. Behind(e, t)'
    BY <1>2, <1>3, <1>4, <2>3, BehindStable DEF Called
  <2>5. Grounded(t)'
    BY <2>1, <2>2, <2>4 DEF Grounded, Done
  <2>6. LedgerInv'
    BY <2>2, <2>3, <2>5, LedgerSet DEF IInv
  <2>7. ledger'[t].state # "ABSENT" /\ ledger'[t].owner = e
    BY <2>1, <2>2
  <2>8. /\ CallsKept
        /\ \A j \in Invocation : inv'[j].pc \in {"launch", "note"} => inv'[j] = inv[j]
    BY <1>1, <1>3, <1>4, <1>6, <2>3, <2>7, StartedContinues
  <2> QED BY <1>1, <2>2, <2>3, <2>6, <2>8, LedgerStep
<1>7. CASE /\ ledger[t].state # "ABSENT" /\ UNCHANGED ledger
           /\ \/ ledger[t].owner = e /\ started
              \/ ledger[t].owner = e /\ Done(t) /\ Return(i, ResultOf(t))
              \/ Raise(i)
  <2>1. Monotone
    BY <1>1, <1>7 DEF Monotone
  <2>2. LedgerInv'
    BY <1>7, <2>1, LedgerKept DEF IInv
  <2>3. ledger' \in [Task -> Entry]
    BY <1>5, <1>7
  <2>4. /\ CallsKept
        /\ \A j \in Invocation : inv'[j].pc \in {"launch", "note"} => inv'[j] = inv[j]
    <3>1. CASE ledger[t].owner = e /\ started
      BY <1>1, <1>3, <1>4, <1>7, <2>1, <3>1, StartedContinues
    <3>2. CASE ledger[t].owner = e /\ Done(t) /\ Return(i, ResultOf(t))
      <4>1. PICK r : r = ResultOf(t)
        OBVIOUS
      <4>2. /\ ledger'[t].state = "COMPLETED" /\ ledger'[t].owner = e
            /\ ledger'[t].result = r
        BY <1>7, <3>2, <4>1 DEF Done, ResultOf
      <4>3. r \in Results[t]
        BY <3>2, <4>1 DEF IInv, LedgerInv, Grounded, Evidence, ResultOf
      <4>4. CallsKept
        BY <1>1, <1>3, <1>4, <2>1, <3>2, <4>1, <4>2, <4>3, CallReturns DEF IInv, CallsInv
      <4> QED BY <3>2, <4>4, IdleIs, InvFrom DEF IInv, Return
    <3>3. CASE Raise(i)
      <4>1. CallsKept
        BY <1>1, <2>1, <3>3, CallRaises DEF IInv, CallsInv
      <4> QED BY <3>3, <4>1, IdleIs, InvFrom DEF IInv, Raise
    <3> QED BY <1>7, <3>1, <3>2, <3>3
  <2> QED BY <1>1, <2>1, <2>2, <2>3, <2>4, LedgerStep
<1> QED BY <1>3, <1>4, <1>6, <1>7 DEF BeginTask, Begin

LEMMA CompleteTaskStep ==
  ASSUME IInv, NEW i \in Invocation, CompleteTask(i)
  PROVE  IInv' /\ Monotone
<1>1. /\ inv[i].pc = "complete"
      /\ UNCHANGED <<binding, attempt, object, online, ptr, op,
                     calls, job, flying, input, admitted, harmed, faults>>
  BY DEF CompleteTask, LedgerOnly, world
<1>2. Called(inv[i]) /\ Placed(inv[i])
  BY <1>1 DEF IInv, CallInv
<1>3. PICK t \in Task : t = inv[i].task
  BY <1>2 DEF Called
<1>4. PICK e \in Exec : e = inv[i].exec
  BY <1>2 DEF Called
<1>5. PICK r : r = inv[i].out
  OBVIOUS
<1>6. /\ ledger[t].state # "ABSENT" /\ ledger[t].owner = e
      /\ Evidence(t, e, r) /\ Behind(e, t)
  BY <1>1, <1>2, <1>3, <1>4, <1>5 DEF Placed, Called, Begun
<1>7. ledger \in [Task -> Entry]
  BY DEF IInv, TypeInv, TableInv
<1>8. r \in Outcome /\ r \in Results[t]
  BY <1>6 DEF Evidence, Outcome
<1>9. /\ Monotone /\ LedgerInv' /\ ledger' \in [Task -> Entry]
      /\ ledger'[t].owner = e
      /\ \/ Return(i, r) /\ ledger'[t].state = "COMPLETED" /\ ledger'[t].result = r
         \/ Raise(i)
  <2>1. CASE /\ ~ Done(t) /\ Return(i, r)
             /\ ledger' = [ledger EXCEPT ![t].state = "COMPLETED", ![t].result = r]
    <3>1. PICK row \in Entry :
            /\ row.state = "COMPLETED" /\ row.owner = e /\ row.result = r
            /\ ledger' = [ledger EXCEPT ![t] = row]
      <4>1. ledger' = [ledger EXCEPT ![t].state = "COMPLETED", ![t].result = r]
        BY <2>1
      <4>2. \E row \in Entry : /\ row.state = "COMPLETED" /\ row.owner = ledger[t].owner
                              /\ row.result = r /\ ledger' = [ledger EXCEPT ![t] = row]
        BY <1>7, <1>8, <4>1, CompletedRow
      <4> QED BY <1>6, <4>2
    <3>2. /\ ledger' \in [Task -> Entry] /\ ledger'[t] = row
          /\ \A s \in Task \ {t} : ledger'[s] = ledger[s]
      BY <1>7, <3>1
    <3>3. Monotone
      BY <1>1, <1>6, <2>1, <3>1, <3>2 DEF Monotone, Done
    <3>4. Behind(e, t)' /\ Evidence(t, e, r)'
      BY <1>6, <3>3, BehindStable, EvidenceStable
    <3>5. Grounded(t)'
      BY <3>1, <3>2, <3>4 DEF Grounded
    <3> QED BY <2>1, <3>1, <3>2, <3>3, <3>5, LedgerSet DEF IInv
  <2>2. CASE /\ Done(t) /\ UNCHANGED ledger
             /\ (ResultOf(t) = r /\ Return(i, r)) \/ (ResultOf(t) # r /\ Raise(i))
    <3>1. Monotone
      BY <1>1, <2>2 DEF Monotone
    <3>2. LedgerInv' /\ ledger' \in [Task -> Entry]
      BY <1>7, <2>2, <3>1, LedgerKept DEF IInv
    <3> QED BY <1>6, <2>2, <3>1, <3>2 DEF Done, ResultOf
  <2>3. Complete(t, r, Return(i, r), Raise(i))
    BY <1>3, <1>5 DEF CompleteTask
  <2>4. \/ /\ ~ Done(t) /\ Return(i, r)
           /\ ledger' = [ledger EXCEPT ![t].state = "COMPLETED", ![t].result = r]
        \/ /\ Done(t) /\ UNCHANGED ledger
           /\ IF ResultOf(t) = r THEN Return(i, r) ELSE Raise(i)
    BY <2>3, Zenon DEF Complete
  <2>5. CASE Done(t) /\ UNCHANGED ledger /\ IF ResultOf(t) = r THEN Return(i, r) ELSE Raise(i)
    BY <2>2, <2>5, Zenon
  <2>6. CASE /\ ~ Done(t) /\ Return(i, r)
             /\ ledger' = [ledger EXCEPT ![t].state = "COMPLETED", ![t].result = r]
    BY <2>1, <2>6
  <2> QED BY <2>4, <2>5, <2>6
<1>10. CallsKept
  <2>1. CASE Return(i, r) /\ ledger'[t].state = "COMPLETED" /\ ledger'[t].result = r
    BY <1>1, <1>3, <1>4, <1>8, <1>9, <2>1, CallReturns DEF IInv, CallsInv
  <2>2. CASE Raise(i)
    BY <1>1, <1>9, <2>2, CallRaises DEF IInv, CallsInv
  <2> QED BY <1>9, <2>1, <2>2
<1>11. \A j \in Invocation : inv'[j].pc \in {"launch", "note"} => inv'[j] = inv[j]
  BY <1>9, IdleIs, InvFrom DEF IInv, Return, Raise
<1> QED BY <1>1, <1>9, <1>10, <1>11, LedgerStep

----------------------------------------------------------------------------
(* The steps of the machine, and the faults.                               *)

LEMMA CallsSame ==
  ASSUME IInv, Monotone, PastKept, UNCHANGED inv
  PROVE  CallInv'
<1>1. ASSUME NEW i \in Invocation PROVE Sound(inv[i])'
  <2>1. PICK c : c = inv[i]
    OBVIOUS
  <2>2. Sound(c)'
    BY <2>1, CallInvIs, SoundStable DEF IInv
  <2>3. c = inv'[i]
    BY <2>1
  <2> QED BY <2>2, <2>3 DEF Sound
<1> QED BY <1>1, CallInvIsNext

(* The invocations stay as they are, and the ledger does.                  *)
LEMMA MachineStep ==
  ASSUME IInv, Monotone, UNCHANGED <<inv, ledger, op, attempt, calls>>,
         sf' \in [Exec -> Execution], CarriedInv', PastKept, HeardInv', TableInv',
         \A n \in Slot : /\ job'[n].state = "RUNNING" => job[n].state = "RUNNING"
                         /\ job[n].state = "NONE" => job'[n].state = "NONE"
  PROVE  IInv'
<1>1. CallInv'
  BY CallsSame
<1>2. LedgerInv' /\ MovedInv'
  BY LedgerKept, MovedKept DEF IInv
<1>3. LaunchInv'
  BY LaunchKept DEF IInv
<1> QED BY <1>1, <1>2, <1>3 DEF IInv, TypeInv

(* The one execution that changed awaits nothing.                          *)
LEMMA HeardLess ==
  ASSUME HeardInv, UNCHANGED inv, NEW e \in Exec, sf'[e].inv = None,
         \A d \in Exec \ {e} : sf'[d] = sf[d]
  PROVE  HeardInv'
BY DEF HeardInv

(* An execution that is at no task awaits nothing.                         *)
LEMMA AwaitsNothing ==
  ASSUME IInv, NEW e \in Exec, sf[e].at \notin Task
  PROVE  sf[e].inv = None
<1> SUFFICES ASSUME sf[e].inv # None PROVE FALSE
  OBVIOUS
<1>1. sf[e].inv \in Invocation
  BY DEF IInv, TypeInv, Execution
<1>2. inv[sf[e].inv].pc # "idle" /\ inv[sf[e].inv].task = sf[e].at
  BY DEF IInv, HeardInv
<1>3. inv[sf[e].inv].task \in Task
  BY <1>1, <1>2 DEF IInv, CallInv, Called
<1> QED BY <1>2, <1>3

(* Only the history of faults is written.                                  *)
LEMMA FaultTables ==
  ASSUME IInv, NEW harm \in BOOLEAN, Fault(harm),
         UNCHANGED <<ledger, binding, attempt, object, online, ptr, op,
                     calls, job, flying, input, admitted>>
  PROVE  Monotone /\ TableInv'
<1>1. Monotone
  BY DEF Monotone
<1>2. faults' \in 0..MaxFaults /\ harmed' \in BOOLEAN
  BY FaultTypes DEF IInv, TypeInv
<1>3. TableInv'
  BY <1>2 DEF IInv, TypeInv, TableInv
<1> QED BY <1>1, <1>3

LEMMA NothingTables ==
  ASSUME IInv, NothingWritten
  PROVE  /\ Monotone /\ TableInv'
         /\ UNCHANGED <<ledger, op, attempt, calls, job>>
<1>1. Monotone
  BY NothingIsMonotone
<1>2. UNCHANGED <<ledger, op, attempt, calls, job>>
  BY DEF NothingWritten, durable, world
<1>3. TableInv'
  BY DEF IInv, TypeInv, TableInv, NothingWritten, durable, world
<1> QED BY <1>1, <1>2, <1>3

LEMMA SubmitStep ==
  ASSUME IInv, NEW e \in Exec, Submit(e)
  PROVE  IInv' /\ Monotone
<1>1. /\ sf[e].at = "ABSENT" /\ sf' = [sf EXCEPT ![e].at = "VALIDATE"]
      /\ UNCHANGED <<inv, ledger, binding, attempt, object, online, ptr, op,
                     calls, job, flying, input, admitted, faults>>
  BY DEF Submit, durable
<1>2. Monotone
  BY <1>1 DEF Monotone
<1>3. harmed' \in BOOLEAN
  BY DEF Submit
<1>4. TableInv'
  BY <1>1, <1>3 DEF IInv, TypeInv, TableInv
<1>5. sf[e] \in Execution /\ "VALIDATE" \in Task
  BY TaskSet DEF IInv, TypeInv
<1> DEFINE x == [sf[e] EXCEPT !.at = "VALIDATE"]
<1>6. x \in Execution /\ x.at = "VALIDATE" /\ x.inv = sf[e].inv
  BY <1>5, ExecutionSet
<1>7. sf' = [sf EXCEPT ![e] = x]
  BY <1>1, <1>5 DEF IInv, TypeInv
<1> HIDE DEF x
<1>8. PICK y \in Execution : y = x
  BY <1>6
<1>9. Carries(e, y)'
  BY <1>6, <1>8, BeforeIs DEF Carries, Behind, Unstarted
<1>10. sf' \in [Exec -> Execution] /\ CarriedInv' /\ PastKept
  <2>1. sf[e].at \in Unstarted
    BY <1>1 DEF Unstarted
  <2> QED BY <1>2, <1>7, <1>8, <1>9, <2>1, MachineSet DEF IInv
<1>11. HeardInv'
  <2>1. sf[e].inv = None
    BY <1>1, TaskSet, AwaitsNothing
  <2>2. sf'[e].inv = None /\ \A d \in Exec \ {e} : sf'[d] = sf[d]
    BY <1>6, <1>7, <2>1 DEF IInv, TypeInv
  <2> QED BY <1>1, <2>2, HeardLess DEF IInv
<1> QED BY <1>1, <1>2, <1>4, <1>10, <1>11, MachineStep

LEMMA ThrottleStep ==
  ASSUME IInv, NEW e \in Exec, Throttle(e)
  PROVE  IInv' /\ Monotone
<1>1. Retry(e) /\ NothingWritten /\ UNCHANGED inv
  BY DEF Throttle
<1>2. Monotone /\ TableInv' /\ UNCHANGED <<ledger, op, attempt, calls, job>>
  BY <1>1, NothingTables
<1>3. /\ sf' \in [Exec -> Execution] /\ CarriedInv' /\ PastKept
      /\ sf'[e].inv = None /\ \A d \in Exec \ {e} : sf'[d] = sf[d]
  BY <1>1, <1>2, MachineRetries DEF IInv
<1>4. HeardInv'
  BY <1>1, <1>3, HeardLess DEF IInv
<1> QED BY <1>1, <1>2, <1>3, <1>4, MachineStep

(* The wait ends: the job is the recorded one and succeeded, or the        *)
(* execution stops.                                                        *)
LEMMA PollStep ==
  ASSUME IInv, NEW e \in Exec, Poll(e)
  PROVE  IInv' /\ Monotone
<1>1. sf[e].at = "WAIT" /\ NothingWritten /\ UNCHANGED inv
  BY DEF Poll
<1>2. /\ Monotone /\ TableInv' /\ UNCHANGED <<ledger, op, attempt, calls, job>>
  BY <1>1, NothingTables
<1>3. CASE Quarantine(e)
  <2>1. /\ sf' \in [Exec -> Execution] /\ CarriedInv' /\ PastKept
        /\ sf'[e].inv = None /\ \A d \in Exec \ {e} : sf'[d] = sf[d]
    BY <1>2, <1>3, MachineStops DEF IInv, Quarantine
  <2>2. HeardInv'
    BY <1>1, <2>1, HeardLess DEF IInv
  <2> QED BY <1>1, <1>2, <2>1, <2>2, MachineStep
<1>4. CASE /\ job[sf[e].job].state = "SUCCEEDED"
           /\ sf' = [sf EXCEPT ![e].at = "RECORD_GLUE"]
  <2>1. sf[e] \in Execution /\ "RECORD_GLUE" \in Task
    BY TaskSet DEF IInv, TypeInv
  <2> DEFINE x == [sf[e] EXCEPT !.at = "RECORD_GLUE"]
  <2>2. x \in Execution /\ x.at = "RECORD_GLUE" /\ x.inv = sf[e].inv /\ x.job = sf[e].job
    BY <2>1, ExecutionSet
  <2>3. sf' = [sf EXCEPT ![e] = x]
    BY <1>4, <2>1 DEF IInv, TypeInv
  <2> HIDE DEF x
  <2>4. PICK y \in Execution : y = x
    BY <2>2
  <2>5. Behind(e, "WAIT") /\ sf[e].job = ResultOf("START_GLUE")
    BY <1>1 DEF IInv, CarriedInv
  <2>6. sf[e].job \in Slot
    <3>1. Done("START_GLUE") /\ "START_GLUE" \in Task
      BY <2>5, BeforeIs, TaskSet DEF Behind
    <3> QED BY <2>5, <3>1 DEF IInv, LedgerInv, Grounded, Evidence, Results, ResultOf
  <2>7. Carries(e, y)
    BY <1>4, <2>2, <2>4, <2>5, <2>6, BeforeIs DEF Carries, Behind
  <2>8. Carries(e, y)'
    BY <1>2, <2>7, CarriesStable
  <2>9. sf[e].at \in Unstarted
    BY <1>1 DEF Unstarted
  <2>10. sf' \in [Exec -> Execution] /\ CarriedInv' /\ PastKept
    BY <1>2, <2>3, <2>4, <2>8, <2>9, MachineSet DEF IInv
  <2>11. sf[e].inv = None
    BY <1>1, TaskSet, AwaitsNothing
  <2>12. sf'[e].inv = None /\ \A d \in Exec \ {e} : sf'[d] = sf[d]
    BY <2>2, <2>3, <2>11 DEF IInv, TypeInv
  <2>13. HeardInv'
    BY <1>1, <2>12, HeardLess DEF IInv
  <2> QED BY <1>1, <1>2, <2>10, <2>13, MachineStep
<1> QED BY <1>3, <1>4 DEF Poll

LEMMA TimeoutStep ==
  ASSUME IInv, NEW e \in Exec, Timeout(e)
  PROVE  IInv' /\ Monotone
<1>1. /\ Fault(TRUE) /\ sf' = [sf EXCEPT ![e].at = "TIMED_OUT", ![e].inv = None]
      /\ UNCHANGED <<inv, ledger, binding, attempt, object, online, ptr, op,
                     calls, job, flying, input, admitted>>
  BY DEF Timeout, durable
<1>2. Monotone /\ TableInv'
  BY <1>1, FaultTables
<1>3. /\ sf' \in [Exec -> Execution] /\ CarriedInv' /\ PastKept
      /\ sf'[e].inv = None /\ \A d \in Exec \ {e} : sf'[d] = sf[d]
  BY <1>1, <1>2, MachineStops DEF IInv
<1>4. HeardInv'
  BY <1>1, <1>3, HeardLess DEF IInv
<1> QED BY <1>1, <1>2, <1>3, <1>4, MachineStep

LEMMA NotIdle ==
  ASSUME IInv, NEW i \in Invocation, inv[i] # Idle
  PROVE  inv[i].pc # "idle" /\ inv[i].exec \in Exec
BY DEF IInv, CallInv, Called

(* An invocation dies, or fails beyond the retrier.                        *)
LEMMA CrashStep ==
  ASSUME IInv, NEW i \in Invocation, Crash(i) \/ Abort(i)
  PROVE  IInv' /\ Monotone
<1>1. /\ inv[i] # Idle /\ (Raise(i) \/ RaiseRetryable(i))
      /\ UNCHANGED <<ledger, binding, attempt, object, online, ptr, op,
                     calls, job, flying, input, admitted>>
  BY DEF Crash, Abort, durable
<1>2. Fault(TRUE) \/ Fault(FALSE)
  <2>1. CASE inv[i].pc \in {"launch", "note"}
    BY <2>1 DEF Crash, Abort, Fault
  <2>2. CASE inv[i].pc \notin {"launch", "note"}
    BY <2>2 DEF Crash, Abort, Fault
  <2> QED BY <2>1, <2>2
<1>3. Monotone /\ TableInv'
  BY <1>1, <1>2, FaultTables
<1> QED BY <1>1, <1>3, NotIdle, ProceedsStep DEF Proceeds

(* The machine is told of a failure while the invocation goes on.          *)
LEMMA OrphanStep ==
  ASSUME IInv, NEW i \in Invocation, Orphan(i)
  PROVE  IInv' /\ Monotone
<1>1. /\ Fault(TRUE) /\ Retry(inv[i].exec)
      /\ UNCHANGED <<inv, ledger, binding, attempt, object, online, ptr, op,
                     calls, job, flying, input, admitted>>
  BY DEF Orphan, durable
<1>2. Monotone /\ TableInv'
  BY <1>1, FaultTables
<1>3. PICK e \in Exec : e = inv[i].exec
  BY NotIdle DEF Orphan
<1>4. /\ sf' \in [Exec -> Execution] /\ CarriedInv' /\ PastKept
      /\ sf'[e].inv = None /\ \A d \in Exec \ {e} : sf'[d] = sf[d]
  BY <1>1, <1>2, <1>3, MachineRetries DEF IInv
<1>5. HeardInv'
  BY <1>1, <1>4, HeardLess DEF IInv
<1> QED BY <1>1, <1>2, <1>4, <1>5, MachineStep

(* A call that the machine makes has behind it what the execution has.     *)
LEMMA InvokeStep ==
  ASSUME IInv, NEW e \in Exec, Invoke(e)
  PROVE  IInv' /\ Monotone
<1>1. NothingWritten /\ sf[e].at \in Task /\ sf[e].inv = None
  BY DEF Invoke, Waiting
<1>2. Monotone /\ TableInv' /\ UNCHANGED <<ledger, op, attempt, calls, job>>
  BY <1>1, NothingTables
<1>3. PICK t \in Task : t = sf[e].at
  BY <1>1
<1>4. PICK pc \in {"precheck", "prior"} : pc = IF t = "VALIDATE" THEN "precheck" ELSE "prior"
  OBVIOUS
<1>5. PICK i \in Invocation :
        /\ inv[i] = Idle
        /\ inv' = [inv EXCEPT ![i] = [Idle EXCEPT !.exec = e, !.task = t, !.pc = pc]]
        /\ sf' = [sf EXCEPT ![e].inv = i]
  BY <1>3, <1>4 DEF Invoke
<1> DEFINE c == [Idle EXCEPT !.exec = e, !.task = t, !.pc = pc]
<1>6. c \in Call /\ c.exec = e /\ c.task = t /\ c.pc = pc
  BY IdleIs, PhaseSet DEF Call
<1>7. inv' = [inv EXCEPT ![i] = c]
  BY <1>5
<1> HIDE DEF c
<1>8. PICK d \in Call : d = c
  BY <1>6
<1>9. sf[e] \in Execution
  BY DEF IInv, TypeInv
<1> DEFINE x == [sf[e] EXCEPT !.inv = i]
<1>10. x \in Execution /\ x.at = t /\ x.inv = i /\ x.job = sf[e].job
  BY <1>3, <1>9 DEF Execution
<1>11. sf' = [sf EXCEPT ![e] = x]
  BY <1>5, <1>9 DEF IInv, TypeInv
<1> HIDE DEF x
<1>12. PICK y \in Execution : y = x
  BY <1>10
<1>13. Carries(e, y)
  BY <1>3, <1>10, <1>12, CarriesIs DEF IInv, Carries
<1>14. Carries(e, y)'
  BY <1>2, <1>13, CarriesStable
<1>15. sf' \in [Exec -> Execution] /\ CarriedInv' /\ PastKept
  BY <1>2, <1>3, <1>10, <1>11, <1>12, <1>14, MachineSet DEF IInv
<1>16. sf'[e] = x /\ \A f \in Exec \ {e} : sf'[f] = sf[f]
  BY <1>10, <1>11 DEF IInv, TypeInv
<1>17. inv'[i] = c /\ \A j \in Invocation \ {i} : inv'[j] = inv[j]
  BY <1>7 DEF IInv, TypeInv
<1>18. Called(d)
  <2>1. Behind(e, t)
    BY <1>3 DEF IInv, CarriedInv
  <2>2. t = "RECORD_GLUE" => PastWait(e)
    BY <1>3 DEF IInv, CarriedInv
  <2> QED BY <1>6, <1>8, <2>1, <2>2 DEF Called
<1>19. Called(d)'
  BY <1>2, <1>15, <1>18, CalledStable
<1>20. Placed(d)'
  BY <1>4, <1>6, <1>8 DEF Placed, Suits, Begun
<1>21. Sound(d)'
  BY <1>4, <1>6, <1>8, <1>19, <1>20 DEF Sound
<1>22. inv' \in [Invocation -> Call] /\ CallInv'
  BY <1>2, <1>7, <1>8, <1>15, <1>21, CallSet DEF IInv
<1>23. HeardInv'
  <2> SUFFICES ASSUME NEW f \in Exec, sf'[f].inv # None
               PROVE  /\ inv'[sf'[f].inv].pc # "idle"
                      /\ inv'[sf'[f].inv].exec = f /\ inv'[sf'[f].inv].task = sf'[f].at
    BY DEF HeardInv
  <2>1. CASE f = e
    BY <1>4, <1>6, <1>10, <1>16, <1>17, <2>1
  <2>2. CASE f # e
    <3>1. sf'[f] = sf[f] /\ sf[f].inv \in Invocation
      BY <1>16, <2>2 DEF IInv, TypeInv, Execution
    <3>2. /\ inv[sf[f].inv].pc # "idle"
          /\ inv[sf[f].inv].exec = f /\ inv[sf[f].inv].task = sf[f].at
      BY <3>1 DEF IInv, HeardInv
    <3>3. sf[f].inv # i
      BY <1>5, <3>2, IdleIs
    <3> QED BY <1>17, <3>1, <3>2, <3>3
  <2> QED BY <2>1, <2>2
<1>24. LaunchInv'
  BY <1>2, <1>4, <1>6, <1>7, InvFrom, LaunchKept DEF IInv
<1>25. LedgerInv' /\ MovedInv'
  BY <1>2, LedgerKept, MovedKept DEF IInv
<1> QED BY <1>2, <1>15, <1>22, <1>23, <1>24, <1>25 DEF IInv, TypeInv

----------------------------------------------------------------------------
(* The job and the world outside.                                          *)

(* The machine and the invocations stay as they are, and the ledger does.  *)
LEMMA OutsideStep ==
  ASSUME IInv, Monotone, UNCHANGED <<sf, inv, ledger, op, attempt, calls>>, TableInv',
         \A n \in Slot : /\ job'[n].state = "RUNNING" => job[n].state = "RUNNING"
                         /\ job[n].state = "NONE" => job'[n].state = "NONE"
  PROVE  IInv'
<1>1. sf' \in [Exec -> Execution] /\ CarriedInv' /\ PastKept
  BY MachineKept DEF IInv, TypeInv
<1>2. HeardInv'
  BY DEF IInv, HeardInv
<1> QED BY <1>1, <1>2, MachineStep

LEMMA JobAt ==
  ASSUME TableInv, NEW n \in Slot
  PROVE  job[n] \in JobRun /\ Outputs[job[n].at] \in Key /\ Len(Outputs) = 3
<1>1. job[n] \in JobRun
  BY DEF TableInv
<1>2. \A a \in 1..3 : Outputs[a] \in Key
  BY DEF Outputs, Key
<1>3. Len(Outputs) = 3
  BY DEF Outputs
<1> QED BY <1>1, <1>2, <1>3 DEF JobRun

(* A running job goes on, succeeds or fails.                               *)
LEMMA JobGoesOn ==
  ASSUME TableInv, NEW n \in Slot, job[n].state = "RUNNING",
         \/ Published(n) \/ Failed(n)
         \/ job' = [job EXCEPT ![n].pc = "reconcile"]
         \/ /\ job[n].try # MaxAttempts
            /\ job' = [job EXCEPT ![n].pc = "put", ![n].try = @ + 1]
  PROVE  /\ job' \in [Slot -> JobRun]
         /\ job'[n].state # "NONE"
         /\ \A m \in Slot \ {n} : job'[m] = job[m]
<1>1. job[n] \in JobRun /\ Len(Outputs) = 3
  BY JobAt
<1>2. job \in [Slot -> JobRun] /\ NoJob \in JobRun
  BY BoundAssumption DEF TableInv, NoJob, JobRun
<1>3. PICK j \in JobRun : j.state # "NONE" /\ job' = [job EXCEPT ![n] = j]
  <2>1. CASE Published(n)
    <3>1. CASE job[n].at = 3
      <4> DEFINE j == [NoJob EXCEPT !.state = "SUCCEEDED"]
      <4>1. j \in JobRun /\ j.state # "NONE"
        BY <1>2 DEF JobRun
      <4>2. job' = [job EXCEPT ![n] = j]
        BY <1>1, <2>1, <3>1 DEF Published
      <4> HIDE DEF j
      <4> QED BY <4>1, <4>2
    <3>2. CASE job[n].at # 3
      <4>1. PICK a \in 1..3 : a = job[n].at + 1
        BY <1>1, <3>2 DEF JobRun
      <4> DEFINE j == [NoJob EXCEPT !.state = "RUNNING", !.at = a]
      <4>2. j \in JobRun /\ j.state # "NONE"
        BY <1>2 DEF JobRun
      <4>3. job' = [job EXCEPT ![n] = j]
        BY <1>1, <2>1, <3>2, <4>1 DEF Published
      <4> HIDE DEF j
      <4> QED BY <4>2, <4>3
    <3> QED BY <3>1, <3>2
  <2>2. CASE Failed(n)
    <3> DEFINE j == [NoJob EXCEPT !.state = "FAILED"]
    <3>1. j \in JobRun /\ j.state # "NONE"
      BY <1>2 DEF JobRun
    <3>2. job' = [job EXCEPT ![n] = j]
      BY <2>2 DEF Failed
    <3> HIDE DEF j
    <3> QED BY <3>1, <3>2
  <2>3. CASE job' = [job EXCEPT ![n].pc = "reconcile"]
    <3> DEFINE j == [job[n] EXCEPT !.pc = "reconcile"]
    <3>1. j \in JobRun /\ j.state = job[n].state
      BY <1>1 DEF JobRun
    <3>2. job' = [job EXCEPT ![n] = j]
      BY <1>2, <2>3
    <3> HIDE DEF j
    <3> QED BY <3>1, <3>2
  <2>4. CASE /\ job[n].try # MaxAttempts
             /\ job' = [job EXCEPT ![n].pc = "put", ![n].try = @ + 1]
    <3>1. PICK a \in 1..MaxAttempts : a = job[n].try + 1
      BY <1>1, <2>4, BoundAssumption DEF JobRun
    <3> DEFINE j == [job[n] EXCEPT !.pc = "put", !.try = a]
    <3>2. j \in JobRun /\ j.state = job[n].state
      BY <1>1 DEF JobRun
    <3>3. job' = [job EXCEPT ![n] = j]
      BY <1>1, <1>2, <2>4, <3>1 DEF JobRun
    <3> HIDE DEF j
    <3> QED BY <3>2, <3>3
  <2> QED BY <2>1, <2>2, <2>3, <2>4
<1> QED BY <1>2, <1>3

LEMMA JobStepStep ==
  ASSUME IInv, NEW n \in Slot, JobStep(n)
  PROVE  IInv' /\ Monotone
<1>1. /\ job[n].state = "RUNNING"
      /\ UNCHANGED <<sf, inv, ledger, binding, attempt, online, ptr, op,
                     calls, input, admitted>>
  BY DEF JobStep
<1>2. TableInv
  BY DEF IInv, TypeInv
<1>3. PICK k \in Key : k = Outputs[job[n].at]
  BY <1>2, JobAt
<1>4. PICK body : body = Body(n)
  OBVIOUS
<1>5. PutTables(k, body)
  BY <1>3, <1>4 DEF JobStep, Put, Reconcile, PutTables
<1>6. \/ Published(n) \/ Failed(n)
      \/ job' = [job EXCEPT ![n].pc = "reconcile"]
      \/ /\ job[n].try # MaxAttempts
         /\ job' = [job EXCEPT ![n].pc = "put", ![n].try = @ + 1]
  BY DEF JobStep, Put, Reconcile
<1>7. /\ object' = [j \in Key |-> object'[j]] /\ flying' = [j \in Key |-> flying'[j]]
      /\ faults' \in 0..MaxFaults /\ harmed' \in BOOLEAN
      /\ \A j \in Key : object[j] # Missing => object'[j] = object[j]
  BY <1>2, <1>5, PutKeeps
<1>8. /\ job' \in [Slot -> JobRun] /\ job'[n].state # "NONE"
      /\ \A m \in Slot \ {n} : job'[m] = job[m]
  BY <1>1, <1>2, <1>6, JobGoesOn
<1>9. Monotone
  BY <1>1, <1>7, <1>8 DEF Monotone
<1>10. TableInv'
  BY <1>1, <1>2, <1>7, <1>8 DEF TableInv
<1>11. \A m \in Slot : /\ job'[m].state = "RUNNING" => job[m].state = "RUNNING"
                       /\ job[m].state = "NONE" => job'[m].state = "NONE"
  BY <1>1, <1>8
<1> QED BY <1>1, <1>9, <1>10, <1>11, OutsideStep

LEMMA JobFailsStep ==
  ASSUME IInv, NEW n \in Slot, JobFails(n)
  PROVE  IInv' /\ Monotone
<1>1. /\ job[n].state = "RUNNING" /\ Fault(TRUE) /\ Failed(n)
      /\ UNCHANGED <<sf, inv, ledger, binding, attempt, object, online, ptr, op,
                     calls, flying, input, admitted>>
  BY DEF JobFails, durable
<1>2. TableInv
  BY DEF IInv, TypeInv
<1>3. /\ job' \in [Slot -> JobRun] /\ job'[n].state # "NONE"
      /\ \A m \in Slot \ {n} : job'[m] = job[m]
  BY <1>1, <1>2, JobGoesOn
<1>4. faults' \in 0..MaxFaults /\ harmed' \in BOOLEAN
  BY <1>1, <1>2, FaultTypes
<1>5. Monotone
  BY <1>1, <1>3 DEF Monotone
<1>6. TableInv'
  BY <1>1, <1>2, <1>3, <1>4 DEF TableInv
<1>7. \A m \in Slot : /\ job'[m].state = "RUNNING" => job[m].state = "RUNNING"
                      /\ job[m].state = "NONE" => job'[m].state = "NONE"
  BY <1>1, <1>3
<1> QED BY <1>1, <1>5, <1>6, <1>7, OutsideStep

(* A put that was given up arrives, if the key is still free.              *)
LEMMA LandStep ==
  ASSUME IInv, NEW k \in Key, NEW body, Land(k, body)
  PROVE  IInv' /\ Monotone
<1>1. /\ flying' = [flying EXCEPT ![k] = @ \ {body}]
      /\ UNCHANGED <<sf, inv, ledger, binding, attempt, online, ptr, op, calls, job,
                     input, admitted, harmed, faults>>
  BY DEF Land
<1>2. /\ object = [j \in Key |-> object[j]] /\ flying = [j \in Key |-> flying[j]]
  BY DEF IInv, TypeInv, TableInv
<1>3. /\ object' = [j \in Key |-> object'[j]]
      /\ \A j \in Key : object[j] # Missing => object'[j] = object[j]
  <2>1. CASE UNCHANGED object
    BY <1>2, <2>1
  <2>2. CASE Create(k, body)
    <3>1. /\ object[k] = Missing
          /\ object' = [object EXCEPT ![k] = [body |-> body, version |-> 1]]
      BY <2>2 DEF Create
    <3>2. \A j \in Key : object[j] # Missing => object'[j] = object[j]
      BY <1>2, <3>1
    <3>3. object' = [j \in Key |-> object'[j]]
      BY <1>2, <3>1
    <3> QED BY <3>2, <3>3
  <2> QED BY <2>1, <2>2 DEF Land
<1>4. flying' = [j \in Key |-> flying'[j]]
  BY <1>1, <1>2
<1>5. Monotone
  BY <1>1, <1>3 DEF Monotone
<1>6. TableInv'
  BY <1>1, <1>3, <1>4 DEF IInv, TypeInv, TableInv
<1> QED BY <1>1, <1>5, <1>6, OutsideStep

LEMMA LapseStep ==
  ASSUME IInv, Lapse
  PROVE  IInv' /\ Monotone
<1>1. /\ Fault(TRUE) /\ admitted' = FALSE
      /\ UNCHANGED <<sf, inv, ledger, binding, attempt, object, online, ptr, op,
                     calls, job, flying, input>>
  BY DEF Lapse, durable
<1>2. faults' \in 0..MaxFaults /\ harmed' \in BOOLEAN
  BY <1>1, FaultTypes DEF IInv, TypeInv
<1>3. Monotone
  BY <1>1 DEF Monotone
<1>4. TableInv'
  BY <1>1, <1>2 DEF IInv, TypeInv, TableInv
<1> QED BY <1>1, <1>3, <1>4, OutsideStep

LEMMA ExpireRecordStep ==
  ASSUME IInv, ExpireRecord
  PROVE  IInv' /\ Monotone
<1>1. /\ Fault(TRUE) /\ online' = [online EXCEPT !.whole = FALSE]
      /\ UNCHANGED <<sf, inv, ledger, binding, attempt, object, ptr, op,
                     calls, job, flying, input, admitted>>
  BY DEF ExpireRecord
<1>2. faults' \in 0..MaxFaults /\ harmed' \in BOOLEAN
  BY <1>1, FaultTypes DEF IInv, TypeInv
<1>3. online' \in Online
  BY <1>1 DEF IInv, TypeInv, TableInv, Online
<1>4. Monotone
  BY <1>1 DEF Monotone
<1>5. TableInv'
  BY <1>1, <1>2, <1>3 DEF IInv, TypeInv, TableInv
<1> QED BY <1>1, <1>4, <1>5, OutsideStep

LEMMA OtherActivationStep ==
  ASSUME IInv, OtherActivation
  PROVE  IInv' /\ Monotone
<1>1. /\ Fault(TRUE) /\ ptr' = [gen |-> "other", version |-> ptr.version + 1]
      /\ ptr.gen # "other"
      /\ UNCHANGED <<sf, inv, ledger, binding, attempt, object, online, op,
                     calls, job, flying, input, admitted>>
  BY DEF OtherActivation
<1>2. faults' \in 0..MaxFaults /\ harmed' \in BOOLEAN
  BY <1>1, FaultTypes DEF IInv, TypeInv
<1>3. PICK v \in 0..2 : v = ptr.version + 1
  BY <1>1 DEF IInv, TypeInv, TableInv, Ptr
<1>4. ptr' = [gen |-> "other", version |-> v]
  BY <1>1, <1>3
<1>5. ptr' \in Ptr /\ ptr'.gen = "other"
  BY <1>4 DEF Ptr
<1>6. Monotone
  BY <1>1 DEF Monotone
<1>7. TableInv'
  BY <1>1, <1>2, <1>5 DEF IInv, TypeInv, TableInv
<1> QED BY <1>1, <1>6, <1>7, OutsideStep

----------------------------------------------------------------------------
(* The invariant.                                                          *)

LEMMA InitIInv == Init => IInv
<1> SUFFICES ASSUME Init PROVE IInv
  OBVIOUS
<1>1. /\ sf = [e \in Exec |-> [at |-> "ABSENT", tries |-> 0, inv |-> None, job |-> None]]
      /\ inv = [i \in Invocation |-> Idle]
      /\ ledger = [t \in Task |-> Free] /\ op = FALSE
      /\ attempt = [n \in Slot |-> "NONE"] /\ calls = [n \in Slot |-> 0]
      /\ job = [n \in Slot |-> NoJob]
  BY DEF Init
<1>2. \A e \in Exec : sf[e].at = "ABSENT" /\ sf[e].inv = None
  BY <1>1
<1>3. sf \in [Exec -> Execution] /\ inv \in [Invocation -> Call]
  <2>1. [at |-> "ABSENT", tries |-> 0, inv |-> None, job |-> None] \in Execution
    BY BoundAssumption DEF Execution
  <2> QED BY <1>1, <2>1, IdleIs
<1>4. TableInv
  <2>1. Free \in Entry
    BY DEF Free, Entry
  <2>2. NoJob \in JobRun
    BY BoundAssumption DEF NoJob, JobRun
  <2>3. online \in Online
    BY DEF Init, Online
  <2>4. ptr \in Ptr /\ ptr.gen = "none" /\ ptr.version = 0
    BY DEF Init, Ptr
  <2>5. object = [k \in Key |-> object[k]] /\ flying = [k \in Key |-> flying[k]]
    BY DEF Init
  <2>6. faults \in 0..MaxFaults /\ binding \in Exec \union {None}
    BY BoundAssumption DEF Init
  <2>7. op \in BOOLEAN /\ admitted \in BOOLEAN /\ harmed \in BOOLEAN
    BY DEF Init
  <2>8. input \in [agree: BOOLEAN, passes: BOOLEAN]
    BY DEF Init
  <2>9. /\ ledger \in [Task -> Entry] /\ job \in [Slot -> JobRun]
        /\ attempt \in [Slot -> {"NONE", "RESERVED", "COMPLETED"}]
        /\ calls \in [Slot -> Nat]
    BY <1>1, <2>1, <2>2
  <2> QED BY <2>3, <2>4, <2>5, <2>6, <2>7, <2>8, <2>9 DEF TableInv
<1>5. CallInv
  BY <1>1, IdleIs DEF CallInv
<1>6. HeardInv
  BY <1>2 DEF HeardInv
<1>7. CarriedInv
  BY <1>2, BeforeIs DEF CarriedInv, Behind
<1>8. \A t \in Task : ledger[t].state = "ABSENT"
  BY <1>1 DEF Free
<1>9. LedgerInv
  BY <1>8 DEF LedgerInv, Grounded, Done
<1>10. LaunchInv
  <2>1. \A n \in Slot : calls[n] = 0 /\ job[n].state = "NONE"
    BY <1>1 DEF NoJob
  <2>2. \A i \in Invocation : inv[i].pc = "idle"
    BY <1>1, IdleIs
  <2> QED BY <2>1, <2>2 DEF LaunchInv, Running
<1>11. MovedInv
  BY <1>1 DEF MovedInv
<1> QED BY <1>3, <1>4, <1>5, <1>6, <1>7, <1>9, <1>10, <1>11 DEF IInv, TypeInv

LEMMA InvocationStepStep ==
  ASSUME IInv, NEW i \in Invocation, InvocationStep(i)
  PROVE  IInv' /\ Monotone
<1>1. CASE Precheck(i)         BY <1>1, PrecheckStep
<1>2. CASE Verify(i)           BY <1>2, VerifyStep
<1>3. CASE Freeze(i)           BY <1>3, FreezeStep
<1>4. CASE Prior(i)            BY <1>4, PriorStep
<1>5. CASE BeginTask(i)        BY <1>5, BeginTaskStep
<1>6. CASE CompleteTask(i)     BY <1>6, CompleteTaskStep
<1>7. CASE BindLaunch(i)       BY <1>7, BindLaunchStep
<1>8. CASE ReadSlot(i)         BY <1>8, ReadSlotStep
<1>9. CASE Reserve(i)          BY <1>9, ReserveStep
<1>10. CASE Launch(i)          BY <1>10, LaunchStep
<1>11. CASE NoteLaunch(i)      BY <1>11, NoteLaunchStep
<1>12. CASE RecordGlue(i)      BY <1>12, RecordGlueStep
<1>13. CASE ClaimGeneration(i) BY <1>13, ClaimGenerationStep
<1>14. CASE FillGeneration(i)  BY <1>14, FillGenerationStep
<1>15. CASE CompareRecords(i)  BY <1>15, CompareRecordsStep
<1>16. CASE FreezeReport(i)    BY <1>16, FreezeReportStep
<1>17. CASE ConfirmParity(i)   BY <1>17, ConfirmParityStep
<1>18. CASE MovePointer(i)     BY <1>18, MovePointerStep
<1>19. CASE CompleteRun(i)     BY <1>19, CompleteRunStep
<1> QED
  BY <1>1, <1>2, <1>3, <1>4, <1>5, <1>6, <1>7, <1>8, <1>9, <1>10, <1>11, <1>12,
     <1>13, <1>14, <1>15, <1>16, <1>17, <1>18, <1>19, Zenon DEF InvocationStep

LEMMA NextIInv == IInv /\ [Next]_vars => IInv' /\ Monotone
<1> SUFFICES ASSUME IInv, [Next]_vars PROVE IInv' /\ Monotone
  OBVIOUS
<1>1. ASSUME NEW e \in Exec,
             Submit(e) \/ Invoke(e) \/ Throttle(e) \/ Poll(e) \/ Timeout(e)
      PROVE  IInv' /\ Monotone
  <2>1. CASE Submit(e)   BY <2>1, SubmitStep
  <2>2. CASE Invoke(e)   BY <2>2, InvokeStep
  <2>3. CASE Throttle(e) BY <2>3, ThrottleStep
  <2>4. CASE Poll(e)     BY <2>4, PollStep
  <2>5. CASE Timeout(e)  BY <2>5, TimeoutStep
  <2> QED BY <1>1, <2>1, <2>2, <2>3, <2>4, <2>5, Zenon
<1>2. ASSUME NEW i \in Invocation, InvocationStep(i) \/ Crash(i) \/ Abort(i) \/ Orphan(i)
      PROVE  IInv' /\ Monotone
  <2>1. CASE InvocationStep(i)     BY <2>1, InvocationStepStep
  <2>2. CASE Crash(i) \/ Abort(i)  BY <2>2, CrashStep
  <2>3. CASE Orphan(i)             BY <2>3, OrphanStep
  <2> QED BY <1>2, <2>1, <2>2, <2>3, Zenon
<1>3. ASSUME NEW n \in Slot, JobStep(n) \/ JobFails(n) PROVE IInv' /\ Monotone
  BY <1>3, JobStepStep, JobFailsStep
<1>4. ASSUME NEW k \in Key, NEW body \in flying[k], Land(k, body) PROVE IInv' /\ Monotone
  BY <1>4, LandStep
<1>5. CASE Lapse           BY <1>5, LapseStep
<1>6. CASE ExpireRecord    BY <1>6, ExpireRecordStep
<1>7. CASE OtherActivation BY <1>7, OtherActivationStep
<1>8. CASE UNCHANGED vars
  <2>1. UNCHANGED <<sf, inv>> /\ NothingWritten
    BY <1>8 DEF vars, NothingWritten
  <2>2. Monotone /\ TableInv' /\ UNCHANGED <<ledger, op, attempt, calls, job>>
    BY <2>1, NothingTables
  <2> QED BY <2>1, <2>2, OutsideStep
<1> QED BY <1>1, <1>2, <1>3, <1>4, <1>5, <1>6, <1>7, <1>8, Zenon DEF Next

THEOREM Invariance == Spec => []IInv
BY InitIInv, NextIInv, PTL DEF Spec

----------------------------------------------------------------------------
(* What follows from it.                                                   *)

(* Every table, execution and invocation has a value of its type, whatever *)
(* the code's handlers did in whatever order.                              *)
THEOREM TypeCorrect == Spec => []TypeOK
<1>1. IInv => TypeOK
  <2> SUFFICES ASSUME IInv PROVE TypeOK
    OBVIOUS
  <2>1. \A e \in Exec : /\ sf[e].at \in {"ABSENT", "WAIT"} \union Task \union Ended
                        /\ sf[e].tries \in 0..MaxRetries
                        /\ sf[e].inv \in Invocation \union {None}
                        /\ sf[e].job \in Slot \union {None}
    BY DEF IInv, TypeInv, Execution
  <2>2. ASSUME NEW i \in Invocation, inv[i] # Idle
        PROVE  /\ inv[i].exec \in Exec /\ inv[i].task \in Task
               /\ inv[i].pc \in Phase
               /\ inv[i].slot \in Slot /\ inv[i].try \in 1..MaxAttempts
               /\ inv[i].pc = "complete" => inv[i].out \in Results[inv[i].task]
    <3>1. inv[i].pc # "idle" /\ Called(inv[i]) /\ Placed(inv[i])
      BY <2>2 DEF IInv, CallInv
    <3>2. inv[i] \in Call
      BY DEF IInv, TypeInv
    <3> QED BY <3>1, <3>2 DEF Call, Called, Placed, Evidence
  <2>3. ASSUME NEW t \in Task
        PROVE  /\ ledger[t].state \in {"ABSENT", "STARTED", "COMPLETED"}
               /\ ledger[t].state # "ABSENT" => ledger[t].owner \in Exec
               /\ ledger[t].state = "COMPLETED" => ledger[t].result \in Results[t]
    <3>1. ledger[t] \in Entry /\ Grounded(t)
      BY DEF IInv, TypeInv, TableInv, LedgerInv
    <3> QED BY <3>1 DEF Entry, Grounded, Done, Evidence
  <2>4. /\ binding \in Exec \union {None}
        /\ attempt \in [Slot -> {"NONE", "RESERVED", "COMPLETED"}]
        /\ \A n \in Slot : job[n].state \in {"NONE", "RUNNING", "SUCCEEDED", "FAILED"}
        /\ DOMAIN object = Key
    BY DEF IInv, TypeInv, TableInv, JobRun
  <2>5. /\ online.state \in {"ABSENT", "WRITING", "VALIDATED"} /\ online.whole \in BOOLEAN
        /\ ptr \in [gen: {"none", "ours", "other"}, version: 0..2]
        /\ faults \in 0..MaxFaults
    BY DEF IInv, TypeInv, TableInv, Online, Ptr
  <2>6. {op, admitted, input.agree, input.passes} \subseteq BOOLEAN
    BY DEF IInv, TypeInv, TableInv
  <2> QED BY <2>1, <2>2, <2>3, <2>4, <2>5, <2>6 DEF TypeOK
<1> QED BY <1>1, Invariance, PTL

(* CarriedIsDurable: an execution of the Step Functions machine that is    *)
(* past a task finds that task completed under its own identity, and polls *)
(* the job that the ledger names.                                          *)
THEOREM CarriedHolds == Spec => []CarriedIsDurable
<1>1. IInv => CarriedIsDurable
  <2> SUFFICES ASSUME IInv, NEW e \in Exec
               PROVE  /\ \A n \in 1..(Place(sf[e].at) - 1) :
                           Done(Order[n]) /\ ledger[Order[n]].owner = e
                      /\ sf[e].at \in {"WAIT", "RECORD_GLUE"} =>
                           sf[e].job = ResultOf("START_GLUE")
    BY DEF CarriedIsDurable
  <2>1. Behind(e, sf[e].at)
    BY DEF IInv, CarriedInv
  <2>2. \A n \in 1..(Place(sf[e].at) - 1) : Order[n] \in Before(sf[e].at)
    BY DEF Before
  <2>3. sf[e].at \in {"WAIT", "RECORD_GLUE"} => sf[e].job = ResultOf("START_GLUE")
    BY DEF IInv, CarriedInv
  <2> QED BY <2>1, <2>2, <2>3 DEF Behind
<1> QED BY <1>1, Invariance, PTL

(* ActivatedIsProven: whoever retried or competed, a pointer that was      *)
(* moved has the recorded launch's outputs, the state frozen by the        *)
(* admitted execution and a comparison that passed behind it.              *)
THEOREM ActivatedHolds == Spec => []ActivatedIsProven
<1>1. IInv => ActivatedIsProven
  <2> SUFFICES ASSUME IInv, op
               PROVE  /\ Done("RECORD_GLUE")
                      /\ object["output-authority"].body = <<ResultOf("RECORD_GLUE")>>
                      /\ job[ResultOf("RECORD_GLUE")].state = "SUCCEEDED"
                      /\ object["expected-state"].body = <<ledger["PARITY"].owner>>
                      /\ input.agree /\ input.passes /\ ParityEligible
    BY DEF ActivatedIsProven
  <2>1. MoveReady
    BY DEF IInv, MovedInv
  <2>2. Done("VALIDATE") /\ Done("RECORD_GLUE") /\ Done("PARITY") /\ ParityEligible
    BY <2>1 DEF MoveReady, ParityEligible
  <2>3. "VALIDATE" \in Task /\ "RECORD_GLUE" \in Task /\ "PARITY" \in Task
    BY TaskSet
  <2>4. /\ Evidence("VALIDATE", ledger["VALIDATE"].owner, ResultOf("VALIDATE"))
        /\ Evidence("RECORD_GLUE", ledger["RECORD_GLUE"].owner, ResultOf("RECORD_GLUE"))
        /\ Evidence("PARITY", ledger["PARITY"].owner, ResultOf("PARITY"))
    BY <2>2, <2>3 DEF IInv, LedgerInv, Grounded, ResultOf
  <2>5. Behind(ledger["PARITY"].owner, "PARITY")
    BY <2>2, <2>3 DEF IInv, LedgerInv, Grounded, Done
  <2>6. ledger["VALIDATE"].owner = ledger["PARITY"].owner
    BY <2>5, BeforeIs DEF Behind
  <2>7. object["expected-state"].body = <<ledger["PARITY"].owner>>
    BY <2>1, <2>4, <2>6 DEF MoveReady, Evidence
  <2>8. input.passes
    BY <2>2, <2>4 DEF Evidence, ParityEligible, Decision
  <2>9. /\ object["output-authority"].body = <<ResultOf("RECORD_GLUE")>>
        /\ job[ResultOf("RECORD_GLUE")].state = "SUCCEEDED"
    BY <2>4 DEF Evidence
  <2> QED BY <2>1, <2>2, <2>7, <2>8, <2>9 DEF MoveReady
<1> QED BY <1>1, Invariance, PTL

(* LaunchBound: however many executions and retries there are, a slot of   *)
(* DurableGlueLauncher stands for at most one call of StartJobRun, and at  *)
(* most one run is under way.                                              *)
THEOREM LaunchBoundHolds == Spec => []LaunchBound
<1>1. IInv => LaunchBound
  <2> SUFFICES ASSUME IInv PROVE LaunchBound
    OBVIOUS
  <2>1. Cardinality(Running) <= 1
    <3>1. CASE Running = {}
      BY <3>1, FS_EmptySet
    <3>2. CASE Running # {}
      <4>1. PICK n \in Running : TRUE
        BY <3>2
      <4>2. Running = {n}
        BY <4>1 DEF IInv, LaunchInv
      <4>3. Cardinality({n}) = 1
        BY FS_Singleton
      <4> QED BY <4>2, <4>3
    <3> QED BY <3>1, <3>2
  <2> QED BY <2>1 DEF IInv, LaunchInv, LaunchBound
<1> QED BY <1>1, Invariance, PTL

(* WrittenOnce: no retry, late put, second execution or job run changes an *)
(* object that is there or the row of a completed task.                    *)
THEOREM WrittenOnceHolds == Spec => WrittenOnce
<1>1. Monotone => /\ \A k \in Key : object[k] # Missing => object'[k] = object[k]
                  /\ \A t \in Task : Done(t) => ledger'[t] = ledger[t]
  BY DEF Monotone
<1> QED BY <1>1, Invariance, NextIInv, PTL DEF Spec, WrittenOnce

----------------------------------------------------------------------------
(* The run implements ManagedRun.                                          *)

LEMMA InitRefines == Init => Abstract!Init
<1> SUFFICES ASSUME Init PROVE Abstract!Init
  OBVIOUS
<1>1. \A t \in Task : ~ Done(t)
  BY DEF Init, Free, Done
<1>2. TaskResults = [t \in Task |-> None]
  BY <1>1 DEF TaskResults
<1>3. Abstract!Task = Task
  BY DEF Abstract!Task, Abstract!Order, Task, Order
<1> QED BY <1>2, <1>3 DEF Init, Abstract!Init

(* The result that stands for a completed task.                            *)
LEMMA ResultThere ==
  ASSUME IInv, NEW t \in Task
  PROVE  /\ Done(t) => TaskResults[t] = ResultOf(t) /\ TaskResults[t] # None
         /\ ~ Done(t) => TaskResults[t] = None
<1>1. Done(t) => ResultOf(t) \in Results[t]
  BY DEF IInv, LedgerInv, Grounded, Evidence, ResultOf
<1> QED BY <1>1, NoneAssumption DEF TaskResults

LEMMA ResultsKept ==
  ASSUME \A t \in Task : /\ Done(t)' <=> Done(t)
                         /\ Done(t) => ResultOf(t)' = ResultOf(t)
  PROVE  UNCHANGED TaskResults
BY DEF TaskResults

(* A task obtains its result when all before it have theirs.               *)
LEMMA CompleteRefines ==
  ASSUME IInv, NEW i \in Invocation, CompleteTask(i)
  PROVE  Abstract!Next \/ UNCHANGED <<TaskResults, op>>
<1>1. inv[i].pc = "complete" /\ UNCHANGED op
  BY DEF CompleteTask, LedgerOnly
<1>2. Called(inv[i]) /\ Placed(inv[i])
  BY <1>1 DEF IInv, CallInv
<1>3. PICK t \in Task : t = inv[i].task
  BY <1>2 DEF Called
<1>4. PICK e \in Exec : e = inv[i].exec
  BY <1>2 DEF Called
<1>5. PICK r : r = inv[i].out
  OBVIOUS
<1>6. Evidence(t, e, r) /\ Behind(e, t)
  BY <1>1, <1>2, <1>3, <1>4, <1>5 DEF Placed, Called
<1>7. ledger \in [Task -> Entry]
  BY DEF IInv, TypeInv, TableInv
<1>8. \/ Done(t) /\ UNCHANGED ledger
      \/ ~ Done(t) /\ ledger' = [ledger EXCEPT ![t].state = "COMPLETED", ![t].result = r]
  BY <1>3, <1>5 DEF CompleteTask, Complete
<1>9. CASE UNCHANGED ledger
  BY <1>1, <1>9, ResultsKept DEF Done, ResultOf
<1>10. CASE /\ ~ Done(t)
            /\ ledger' = [ledger EXCEPT ![t].state = "COMPLETED", ![t].result = r]
  <2>1. r \in Outcome /\ r \in Results[t]
    BY <1>6 DEF Evidence, Outcome
  <2>2. PICK row \in Entry : /\ row.state = "COMPLETED" /\ row.result = r
                             /\ ledger' = [ledger EXCEPT ![t] = row]
    BY <1>7, <1>10, <2>1, CompletedRow
  <2>3. ledger'[t] = row /\ \A s \in Task \ {t} : ledger'[s] = ledger[s]
    BY <1>7, <2>2
  <2>4. TaskResults' = [TaskResults EXCEPT ![t] = r]
    <3>1. /\ Done(t)' /\ ResultOf(t)' = r
          /\ \A s \in Task \ {t} : /\ Done(s)' <=> Done(s)
                                  /\ ResultOf(s)' = ResultOf(s)
      BY <2>2, <2>3 DEF Done, ResultOf
    <3> QED BY <3>1 DEF TaskResults
  <2>5. PICK n \in 1..7 : Order[n] = t
    BY OrderAt DEF Task
  <2>6. Abstract!Order = Order /\ Len(Order) = 7
    BY OrderAt DEF Abstract!Order, Order
  <2>7. ~ Abstract!Done(t)
    BY <1>10, ResultThere DEF Abstract!Done
  <2>8. ASSUME NEW j \in 1..(n - 1) PROVE Abstract!Done(Order[j])
    <3>1. Place(t) = n
      BY <2>5, PlaceOf
    <3>2. Order[j] \in Before(t)
      BY <3>1 DEF Before
    <3>3. Order[j] \in Task
      BY <2>6 DEF Task
    <3> QED BY <1>6, <3>2, <3>3, ResultThere DEF Behind, Abstract!Done
  <2>9. t \in {"ACTIVATE", "COMPLETE"} => op
    <3>1. CASE t = "ACTIVATE"
      BY <1>6, <3>1 DEF Evidence
    <3>2. CASE t = "COMPLETE"
      <4>1. Done("ACTIVATE") /\ "ACTIVATE" \in Task
        BY <1>6, <3>2, BeforeIs, TaskSet DEF Behind
      <4> QED BY <4>1 DEF IInv, LedgerInv, Grounded, Evidence
    <3> QED BY <3>1, <3>2
  <2>10. t = "RECORD_GLUE" => r = TaskResults["START_GLUE"]
    <3> SUFFICES ASSUME t = "RECORD_GLUE" PROVE r = TaskResults["START_GLUE"]
      OBVIOUS
    <3>1. Done("START_GLUE") /\ "START_GLUE" \in Task
      BY <1>6, BeforeIs, TaskSet DEF Behind
    <3> QED BY <1>6, <3>1, ResultThere DEF Evidence
  <2>11. Abstract!Record(n)
    BY <1>1, <2>1, <2>4, <2>5, <2>6, <2>7, <2>8, <2>9, <2>10 DEF Abstract!Record
  <2> QED BY <2>6, <2>11 DEF Abstract!Next
<1> QED BY <1>8, <1>9, <1>10

(* A task that is begun has no result yet.                                 *)
LEMMA BeginStutters ==
  ASSUME IInv, NEW i \in Invocation, BeginTask(i)
  PROVE  UNCHANGED <<TaskResults, op>>
<1>1. inv[i].pc = "begin" /\ UNCHANGED op
  BY DEF BeginTask, LedgerOnly
<1>2. Called(inv[i])
  BY <1>1 DEF IInv, CallInv
<1>3. PICK t \in Task : t = inv[i].task
  BY <1>2 DEF Called
<1>4. PICK e \in Exec : e = inv[i].exec
  BY <1>2 DEF Called
<1>5. \/ UNCHANGED ledger
      \/ /\ ledger[t].state = "ABSENT"
         /\ ledger' = [ledger EXCEPT ![t] = [Free EXCEPT !.state = "STARTED", !.owner = e]]
  BY <1>3, <1>4 DEF BeginTask, Begin
<1>6. CASE UNCHANGED ledger
  BY <1>1, <1>6, ResultsKept DEF Done, ResultOf
<1>7. CASE /\ ledger[t].state = "ABSENT"
           /\ ledger' = [ledger EXCEPT ![t] = [Free EXCEPT !.state = "STARTED", !.owner = e]]
  <2>1. PICK row \in Entry : row.state = "STARTED" /\ ledger' = [ledger EXCEPT ![t] = row]
    <3>1. ledger' = [ledger EXCEPT ![t] = [Free EXCEPT !.state = "STARTED", !.owner = e]]
      BY <1>7
    <3>2. \E row \in Entry : /\ row.state = "STARTED" /\ row.owner = e
                            /\ ledger' = [ledger EXCEPT ![t] = row]
      BY <3>1, StartedRow
    <3> QED BY <3>2
  <2>2. ledger'[t] = row /\ \A s \in Task \ {t} : ledger'[s] = ledger[s]
    BY <2>1 DEF IInv, TypeInv, TableInv
  <2> QED BY <1>1, <1>7, <2>1, <2>2, ResultsKept DEF Done, ResultOf
<1> QED BY <1>5, <1>6, <1>7

(* The pointer is moved once, upon an eligible parity.                     *)
LEMMA MoveRefines ==
  ASSUME IInv, NEW i \in Invocation, MovePointer(i)
  PROVE  Abstract!Next \/ UNCHANGED <<TaskResults, op>>
<1>1. inv[i].pc = "move" /\ UNCHANGED ledger
  BY DEF MovePointer
<1>2. UNCHANGED TaskResults
  BY <1>1, ResultsKept DEF Done, ResultOf
<1>3. MoveReady
  BY <1>1 DEF IInv, CallInv, Placed
<1>4. TaskResults["PARITY"] = "ELIGIBLE"
  BY <1>3, TaskSet, ResultThere DEF MoveReady, ParityEligible
<1>5. (~ op /\ op' = TRUE) \/ UNCHANGED op
  BY DEF MovePointer
<1>6. CASE ~ op /\ op' = TRUE
  BY <1>2, <1>4, <1>6 DEF Abstract!Next, Abstract!Publish
<1> QED BY <1>2, <1>5, <1>6

(* No other step writes the ledger or the operation item.                  *)
LEMMA OthersStutter ==
  ASSUME [Next]_vars,
         ~ \E i \in Invocation : BeginTask(i) \/ CompleteTask(i) \/ MovePointer(i)
  PROVE  UNCHANGED <<ledger, op>>
<1>1. ASSUME NEW e \in Exec,
             Submit(e) \/ Invoke(e) \/ Throttle(e) \/ Poll(e) \/ Timeout(e)
      PROVE  UNCHANGED <<ledger, op>>
  BY <1>1 DEF Submit, Invoke, Throttle, Poll, Timeout, NothingWritten, durable
<1>2. ASSUME NEW i \in Invocation, Crash(i) \/ Abort(i) \/ Orphan(i)
      PROVE  UNCHANGED <<ledger, op>>
  BY <1>2 DEF Crash, Abort, Orphan, durable
<1>3. ASSUME NEW i \in Invocation, InvocationStep(i)
      PROVE  UNCHANGED <<ledger, op>>
  <2>1. CASE Precheck(i) \/ Verify(i) \/ Prior(i) \/ ReadSlot(i) \/ RecordGlue(i)
               \/ CompareRecords(i) \/ ConfirmParity(i) \/ CompleteRun(i)
    BY <2>1 DEF Precheck, Verify, Prior, ReadSlot, RecordGlue, CompareRecords,
                ConfirmParity, CompleteRun, NothingWritten, durable
  <2>2. CASE Freeze(i) \/ FreezeReport(i)
    BY <2>2 DEF Freeze, FreezeReport
  <2>3. CASE BindLaunch(i) \/ Reserve(i) \/ NoteLaunch(i)
    BY <2>3 DEF BindLaunch, Reserve, NoteLaunch
  <2>4. CASE Launch(i)
    BY <2>4 DEF Launch, durable
  <2>5. CASE ClaimGeneration(i) \/ FillGeneration(i)
    BY <2>5 DEF ClaimGeneration, FillGeneration
  <2> QED BY <1>3, <2>1, <2>2, <2>3, <2>4, <2>5, Zenon DEF InvocationStep
<1>4. ASSUME NEW n \in Slot, JobStep(n) \/ JobFails(n) PROVE UNCHANGED <<ledger, op>>
  BY <1>4 DEF JobStep, JobFails, durable
<1>5. ASSUME NEW k \in Key, NEW body \in flying[k], Land(k, body)
      PROVE  UNCHANGED <<ledger, op>>
  BY <1>5 DEF Land
<1>6. CASE Lapse \/ ExpireRecord \/ OtherActivation
  BY <1>6 DEF Lapse, ExpireRecord, OtherActivation, durable
<1>7. CASE UNCHANGED vars
  BY <1>7 DEF vars, durable
<1> QED BY <1>1, <1>2, <1>3, <1>4, <1>5, <1>6, <1>7, Zenon DEF Next

LEMMA NextRefines == IInv /\ [Next]_vars => [Abstract!Next]_<<TaskResults, op>>
<1> SUFFICES ASSUME IInv, [Next]_vars PROVE Abstract!Next \/ UNCHANGED <<TaskResults, op>>
  OBVIOUS
<1>1. CASE \E i \in Invocation : BeginTask(i) \/ CompleteTask(i) \/ MovePointer(i)
  BY <1>1, BeginStutters, CompleteRefines, MoveRefines
<1>2. CASE ~ \E i \in Invocation : BeginTask(i) \/ CompleteTask(i) \/ MovePointer(i)
  <2>1. UNCHANGED <<ledger, op>>
    BY <1>2, OthersStutter
  <2> QED BY <2>1, ResultsKept DEF Done, ResultOf
<1> QED BY <1>1, <1>2

(* The run implements ManagedRun: whatever the machine, its retries and    *)
(* its competitors do, each task obtains one result, in the order of the   *)
(* machine, RECORD_GLUE that of the launch, and the generation is          *)
(* published once and with an eligible parity before ACTIVATE is recorded. *)
THEOREM Refinement == Spec => ImplementsManagedRun
BY Invariance, InitRefines, NextRefines, PTL DEF Spec, ImplementsManagedRun, Abstract!Spec

-----------------------------------------------------------------------------

(***************************************************************************)
(* Retries are harmless.  As long as nothing harmful has happened, one     *)
(* execution of the machine works on the run, it awaits whatever           *)
(* invocation there is, the first slot is the only one taken, and what is  *)
(* recorded or stored, or is still on its way, is what anyone would write. *)
(***************************************************************************)

(* Nothing but faults that retries are meant for, and sound data.          *)
Quiet == ~ harmed /\ input.agree /\ input.passes

Alive(e) == e \in Exec /\ sf[e].at # "ABSENT"

(* What an object is, whoever writes it.                                   *)
Right(k, body) ==
  CASE k = "expected-state"   -> \E e \in Exec : Alive(e) /\ body = <<e>>
    [] k = "output-authority" -> body = <<1>>
    [] k = "parity-report"    -> body = <<"ELIGIBLE">>
    [] OTHER                  -> body = <<None>>

(* What the result r of the task t leaves behind.                          *)
Made(t, r) ==
  /\ t = "VALIDATE" => object["expected-state"] # Missing
  /\ t = "START_GLUE" => r = 1 /\ job[1].state # "NONE"
  /\ t = "MATERIALIZE_ONLINE" => online.state = "VALIDATED"
  /\ t = "PARITY" => object["parity-report"] # Missing

(* One execution, within its retries, and not stopped.                     *)
OneExecution ==
  /\ \A d, e \in Exec : Alive(d) /\ Alive(e) => d = e
  /\ \A e \in Exec : sf[e].at \notin {"QUARANTINED", "TIMED_OUT"} /\ sf[e].tries <= faults

(* The admission holds, the records are whole, and nobody else has moved   *)
(* the pointer.                                                            *)
NothingLapsed ==
  /\ admitted /\ online.whole
  /\ op \/ ptr = Expected

(* The ledger and the binding name that execution.                         *)
OneOwner ==
  /\ \A t \in Task :
       /\ IF ledger[t].state = "ABSENT" THEN ledger[t].owner = None ELSE Alive(ledger[t].owner)
       /\ Done(t) => Made(t, ResultOf(t))
  /\ binding = None \/ Alive(binding)

(* An invocation c finds its task undone and its way free; a put it has to *)
(* repeat has cost a fault each time.                                      *)
Unhindered(c) ==
  /\ c.slot = 1 /\ Alive(c.exec)
  /\ c.pc \in Begun => ~ Done(c.task)
  /\ c.pc = "complete" => Made(c.task, c.out)
  /\ c.task = "VALIDATE" /\ c.pc = "begin" => object["expected-state"] # Missing
  /\ c.pc = "slot" => attempt[1] # "RESERVED"
  /\ c.pc = "reserve" => attempt[1] = "NONE"
  /\ c.pc = "note" => job[1].state # "NONE"
  /\ c.try <= faults + 1
  /\ c.pc = "refreeze" /\ object["expected-state"] = Missing => c.try <= faults
  /\ c.pc = "rereport" /\ object["parity-report"] = Missing => c.try <= faults

OneInvocation ==
  \A i \in Invocation : inv[i].pc # "idle" => Heard(i) /\ Unhindered(inv[i])

(* The run x of the first slot has published what is before its place.     *)
Progress(x) ==
  /\ x.state # "FAILED"
  /\ x.try <= faults + 1
  /\ x.state = "NONE" => x = NoJob
  /\ x.state = "RUNNING" =>
       /\ \A m \in 1..3 : m < x.at => object[Outputs[m]] # Missing
       /\ x.pc = "reconcile" /\ object[Outputs[x.at]] = Missing => x.try <= faults
  /\ x.state = "SUCCEEDED" => \A m \in 1..3 : object[Outputs[m]] # Missing

OneLaunch ==
  /\ \A n \in Slot \ {1} : attempt[n] = "NONE"
  /\ attempt[1] = "RESERVED" => \E i \in Invocation : inv[i].pc \in {"launch", "note"}
  /\ attempt[1] = "COMPLETED" => job[1].state # "NONE"
  /\ Progress(job[1])

RightObjects ==
  \A k \in Key :
    /\ object[k] = Missing \/ Right(k, object[k].body)
    /\ \A body \in flying[k] : Right(k, body)

Harmless ==
  /\ OneExecution /\ NothingLapsed /\ OneOwner /\ OneInvocation /\ OneLaunch /\ RightObjects

(* What only grows.                                                        *)
Grow ==
  /\ Monotone
  /\ \A e \in Exec : Alive(e) => Alive(e)'
  /\ \A n \in Slot : job[n].state # "NONE" => job'[n].state # "NONE"
  /\ online.state = "VALIDATED" => online'.state = "VALIDATED"
  /\ faults \in Nat /\ faults' \in Nat /\ faults <= faults'

LEMMA FirstSlot == 1 \in Slot
BY BoundAssumption DEF Slot

LEMMA RightStable ==
  ASSUME Grow, NEW k, NEW body, Right(k, body)
  PROVE  Right(k, body)'
BY DEF Grow, Right

LEMMA MadeStable ==
  ASSUME Grow, NEW t, NEW r, Made(t, r)
  PROVE  Made(t, r)'
BY FirstSlot DEF Grow, Monotone, Made, Key

LEMMA ExecutionKept ==
  ASSUME OneExecution, Grow, TypeInv, UNCHANGED sf
  PROVE  OneExecution'
BY DEF OneExecution, Grow, Alive, TypeInv, Execution

LEMMA OwnerKept ==
  ASSUME OneOwner, Grow, UNCHANGED <<ledger, binding>>
  PROVE  OneOwner'
<1>1. ASSUME NEW t \in Task
      PROVE  /\ IF ledger'[t].state = "ABSENT" THEN ledger'[t].owner = None
                ELSE Alive(ledger[t].owner)'
             /\ Done(t)' => Made(t, ResultOf(t))'
  <2>1. PICK e : e = ledger[t].owner
    OBVIOUS
  <2>2. PICK r : r = ledger[t].result
    OBVIOUS
  <2>3. Alive(e) => Alive(e)'
    BY DEF Grow, Alive
  <2>4. Done(t) => Made(t, r)'
    BY <2>2, MadeStable DEF OneOwner, ResultOf
  <2> QED BY <2>1, <2>2, <2>3, <2>4 DEF OneOwner, Done, ResultOf, Alive
<1>2. binding' = None \/ Alive(binding)'
  BY DEF OneOwner, Alive, Grow
<1> QED BY <1>1, <1>2 DEF OneOwner

LEMMA ObjectsKept ==
  ASSUME RightObjects, Grow, UNCHANGED <<object, flying>>
  PROVE  RightObjects'
BY RightStable DEF RightObjects

LEMMA ProgressStable ==
  ASSUME Grow, NEW x \in JobRun, Progress(x)
  PROVE  Progress(x)'
<1>1. \A m \in 1..3 : Outputs[m] \in Key
  BY DEF Outputs, Key
<1>2. \A m \in 1..3 : object[Outputs[m]] # Missing => object'[Outputs[m]] # Missing
  BY <1>1 DEF Grow, Monotone
<1>3. x.try \in Int /\ faults \in Int /\ faults' \in Int /\ faults <= faults' /\ x.at \in 1..3
  BY BoundAssumption DEF JobRun, Grow
<1> QED BY <1>2, <1>3 DEF Progress

(* There is one invocation at a time.                                      *)
LEMMA Sole ==
  ASSUME OneExecution, OneInvocation, NEW i \in Invocation, NEW j \in Invocation,
         inv[i].pc # "idle", inv[j].pc # "idle"
  PROVE  i = j
<1>1. PICK d \in Exec : d = inv[i].exec /\ Alive(d) /\ sf[d].inv = i
  BY DEF OneInvocation, Unhindered, Heard, Alive
<1>2. PICK e \in Exec : e = inv[j].exec /\ Alive(e) /\ sf[e].inv = j
  BY DEF OneInvocation, Unhindered, Heard, Alive
<1>3. d = e
  BY <1>1, <1>2 DEF OneExecution
<1> QED BY <1>1, <1>2, <1>3

(* No slot is reserved but by the invocation that is about to launch.      *)
LEMMA NotReserved ==
  ASSUME IInv, Harmless, NEW i \in Invocation, inv[i].pc \notin {"idle", "launch", "note"}
  PROVE  attempt[1] # "RESERVED"
BY Sole DEF Harmless, OneLaunch

LEMMA OneContinues ==
  ASSUME IInv, Harmless, Grow, NEW i \in Invocation, inv[i].pc # "idle",
         NEW c, Continues(i, c), Unhindered(c)'
  PROVE  OneInvocation' /\ OneExecution'
<1>1. inv'[i] = c /\ \A j \in Invocation \ {i} : inv'[j] = inv[j]
  BY DEF Continues, IInv, TypeInv
<1>2. \A j \in Invocation \ {i} : inv[j].pc = "idle"
  BY Sole DEF Harmless
<1>3. Heard(i)'
  BY <1>1 DEF Heard, Continues, Harmless, OneInvocation
<1>4. OneInvocation'
  BY <1>1, <1>2, <1>3 DEF OneInvocation, Unhindered
<1>5. OneExecution'
  BY ExecutionKept DEF Harmless, IInv, Continues
<1> QED BY <1>4, <1>5

(* The invocation goes on, and no slot or run is touched.                  *)
LEMMA GoesOn ==
  ASSUME IInv, Harmless, Grow, NEW i \in Invocation,
         inv[i].pc \notin {"idle", "launch", "note"},
         NEW c, Continues(i, c), Unhindered(c)', UNCHANGED <<attempt, job>>,
         NothingLapsed', OneOwner', RightObjects'
  PROVE  Harmless'
<1>1. OneInvocation' /\ OneExecution'
  BY OneContinues
<1>2. attempt[1] # "RESERVED"
  BY NotReserved
<1>3. OneLaunch'
  <2>1. PICK x \in JobRun : x = job[1]
    BY FirstSlot DEF IInv, TypeInv, TableInv
  <2>2. Progress(x)'
    BY <2>1, ProgressStable DEF Harmless, OneLaunch
  <2>3. Progress(job[1])'
    BY <2>1, <2>2 DEF Progress
  <2> QED BY <1>2, <2>3 DEF Harmless, OneLaunch
<1> QED BY <1>1, <1>3 DEF Harmless

----------------------------------------------------------------------------
(* How the machine's state changes, in its plainest form.                  *)

LEMMA AdvanceIs ==
  ASSUME TypeInv, NEW e \in Exec, NEW t, NEW r, Advance(e, t, r)
  PROVE  /\ sf'[e].at = After(t, r) /\ sf'[e].tries = 0 /\ sf'[e].inv = None
         /\ \A d \in Exec \ {e} : sf'[d] = sf[d]
BY DEF Advance, TypeInv, Execution

LEMMA QuarantineIs ==
  ASSUME TypeInv, NEW e \in Exec, Quarantine(e)
  PROVE  /\ sf'[e].at = "QUARANTINED" /\ \A d \in Exec \ {e} : sf'[d] = sf[d]
BY DEF Quarantine, TypeInv, Execution

LEMMA RetryIs ==
  ASSUME TypeInv, NEW e \in Exec, Retry(e), sf[e].tries < MaxRetries
  PROVE  /\ sf'[e].at = sf[e].at /\ sf'[e].tries = sf[e].tries + 1 /\ sf'[e].inv = None
         /\ \A d \in Exec \ {e} : sf'[d] = sf[d]
BY DEF Retry, TypeInv, Execution

LEMMA RetryAlive ==
  ASSUME TypeInv, NEW e \in Exec, Retry(e)
  PROVE  \A d \in Exec : sf[d].at # "ABSENT" => sf'[d].at # "ABSENT"
BY RetryIs, QuarantineIs DEF Retry

(* Whoever was submitted remains so, whatever an invocation answers.       *)
LEMMA AnswerAlive ==
  ASSUME IInv, NEW i \in Invocation, inv[i].pc # "idle",
         (\E r : Return(i, r)) \/ Raise(i) \/ RaiseRetryable(i) \/ UNCHANGED sf
  PROVE  \A d \in Exec : sf[d].at # "ABSENT" => sf'[d].at # "ABSENT"
<1>1. PICK e \in Exec, t \in Task : e = inv[i].exec /\ t = inv[i].task
  BY DEF IInv, CallInv, Called
<1>2. CASE UNCHANGED sf
  BY <1>2
<1>3. CASE RaiseRetryable(i)
  BY <1>1, <1>3, RetryAlive DEF RaiseRetryable, IInv
<1>4. CASE Raise(i)
  BY <1>1, <1>4, QuarantineIs DEF Raise, IInv
<1>5. CASE \E r : Return(i, r)
  <2>1. PICK r : Return(i, r)
    BY <1>5
  <2>2. CASE Heard(i)
    <3>1. Advance(e, t, r)
      BY <1>1, <2>1, <2>2 DEF Return
    <3> QED BY <3>1, AdvanceIs, AfterBefore DEF IInv
  <2>3. CASE ~ Heard(i)
    BY <2>1, <2>3 DEF Return
  <2> QED BY <2>2, <2>3
<1> QED BY <1>2, <1>3, <1>4, <1>5

(* What grows besides what Monotone lists.                                 *)
OthersGrow ==
  /\ \A n \in Slot : job[n].state # "NONE" => job'[n].state # "NONE"
  /\ online.state = "VALIDATED" => online'.state = "VALIDATED"
  /\ faults' = faults \/ faults' = faults + 1
  /\ harmed => harmed'

LEMMA FaultGrows ==
  ASSUME NEW harm, Fault(harm)
  PROVE  faults' = faults + 1 /\ (harmed => harmed')
BY Zenon DEF Fault

LEMMA PutGrows ==
  ASSUME NEW k, NEW body, PutTables(k, body)
  PROVE  (faults' = faults \/ faults' = faults + 1) /\ (harmed => harmed')
<1>1. CASE Fault(FALSE)
  BY <1>1, FaultGrows
<1>2. CASE UNCHANGED <<faults, harmed>>
  BY <1>2
<1> QED BY <1>1, <1>2 DEF PutTables

LEMMA InvocationGrows ==
  ASSUME IInv, NEW i \in Invocation, InvocationStep(i)
  PROVE  /\ OthersGrow
         /\ \A d \in Exec : sf[d].at # "ABSENT" => sf'[d].at # "ABSENT"
<1> USE DEF Step, Goto, Finish
<1>1. CASE Precheck(i) \/ Verify(i) \/ Prior(i) \/ ReadSlot(i) \/ RecordGlue(i)
             \/ CompareRecords(i) \/ ConfirmParity(i) \/ CompleteRun(i)
  <2>1. UNCHANGED <<job, online, faults, harmed>>
    BY <1>1 DEF Precheck, Verify, Prior, ReadSlot, RecordGlue, CompareRecords,
                ConfirmParity, CompleteRun, NothingWritten, durable, world
  <2>2. inv[i].pc # "idle"
    BY <1>1 DEF Precheck, Verify, Prior, ReadSlot, RecordGlue, CompareRecords,
                ConfirmParity, CompleteRun, At
  <2>3. Raise(i) \/ UNCHANGED sf
    <3>1. CASE ReadSlot(i)
      <4>1. attempt[inv[i].slot] \in {"NONE", "RESERVED", "COMPLETED"}
        BY DEF IInv, TypeInv, TableInv, Call
      <4> QED BY <3>1, <4>1 DEF ReadSlot, NextSlot
    <3>2. CASE ~ ReadSlot(i)
      BY <1>1, <3>2 DEF Precheck, Verify, Prior, RecordGlue, CompareRecords,
                ConfirmParity, CompleteRun
    <3> QED BY <3>1, <3>2
  <2> QED BY <2>1, <2>2, <2>3, AnswerAlive DEF OthersGrow
<1>2. CASE Freeze(i) \/ FreezeReport(i)
  <2>1. UNCHANGED <<job, online>> /\ inv[i].pc # "idle"
    BY <1>2 DEF Freeze, FreezeReport
  <2>2. Raise(i) \/ UNCHANGED sf
    BY <1>2 DEF Freeze, FreezeReport, Put, Reconcile, Again
  <2>3. \E k, body : PutTables(k, body)
    <3>1. CASE Freeze(i)
      <4>1. PutTables("expected-state", Frozen(i))
        BY <3>1 DEF Freeze, Put, Reconcile, PutTables
      <4> QED BY <4>1
    <3>2. CASE FreezeReport(i)
      <4>1. PutTables("parity-report", <<Decision>>)
        BY <3>2 DEF FreezeReport, Put, Reconcile, PutTables
      <4> QED BY <4>1
    <3> QED BY <1>2, <3>1, <3>2
  <2>4. (faults' = faults \/ faults' = faults + 1) /\ (harmed => harmed')
    BY <2>3, PutGrows
  <2> QED BY <2>1, <2>2, <2>4, AnswerAlive DEF OthersGrow
<1>3. CASE BeginTask(i) \/ CompleteTask(i)
  <2>1. UNCHANGED <<job, online, faults, harmed>> /\ inv[i].pc # "idle"
    BY <1>3 DEF BeginTask, CompleteTask, LedgerOnly, world
  <2>2. (\E r : Return(i, r)) \/ Raise(i) \/ UNCHANGED sf
    BY <1>3, Zenon DEF BeginTask, CompleteTask, Begin, Complete
  <2> QED BY <2>1, <2>2, AnswerAlive DEF OthersGrow
<1>4. CASE BindLaunch(i) \/ Reserve(i) \/ NoteLaunch(i) \/ MovePointer(i)
  <2>1. UNCHANGED <<job, online, faults, harmed>> /\ inv[i].pc # "idle"
    BY <1>4 DEF BindLaunch, Reserve, NoteLaunch, MovePointer, world, At
  <2>2. Raise(i) \/ UNCHANGED sf
    BY <1>4 DEF BindLaunch, Reserve, NoteLaunch, MovePointer, NextSlot
  <2> QED BY <2>1, <2>2, AnswerAlive DEF OthersGrow
<1>5. CASE ClaimGeneration(i) \/ FillGeneration(i)
  <2>1. UNCHANGED <<job, faults, harmed>> /\ inv[i].pc # "idle"
    BY <1>5 DEF ClaimGeneration, FillGeneration, world, At
  <2>2. online.state = "VALIDATED" => online'.state = "VALIDATED"
    BY <1>5 DEF ClaimGeneration, FillGeneration, IInv, TypeInv, TableInv, Online
  <2>3. Raise(i) \/ UNCHANGED sf
    BY <1>5 DEF ClaimGeneration, FillGeneration
  <2> QED BY <2>1, <2>2, <2>3, AnswerAlive DEF OthersGrow
<1>6. CASE Launch(i)
  <2>1. UNCHANGED online /\ inv[i].pc # "idle" /\ (RaiseRetryable(i) \/ UNCHANGED sf)
    BY <1>6 DEF Launch, durable
  <2>2. \A n \in Slot : job[n].state # "NONE" => job'[n].state # "NONE"
    <3>1. UNCHANGED job \/ job' = [job EXCEPT ![inv[i].slot].state = "RUNNING"]
      BY <1>6 DEF Launch
    <3>2. job \in [Slot -> JobRun]
      BY DEF IInv, TypeInv, TableInv
    <3> QED BY <3>1, <3>2 DEF JobRun
  <2>3. (faults' = faults \/ faults' = faults + 1) /\ (harmed => harmed')
    <3>1. Fault(TRUE) \/ UNCHANGED <<harmed, faults>>
      BY <1>6 DEF Launch
    <3>2. CASE Fault(TRUE)
      BY <3>2, FaultGrows
    <3>3. CASE UNCHANGED <<harmed, faults>>
      BY <3>3
    <3> QED BY <3>1, <3>2, <3>3
  <2> QED BY <2>1, <2>2, <2>3, AnswerAlive DEF OthersGrow
<1> QED BY <1>1, <1>2, <1>3, <1>4, <1>5, <1>6, Zenon DEF InvocationStep

LEMMA JobGrows ==
  ASSUME IInv, NEW n \in Slot, JobStep(n)
  PROVE  OthersGrow
<1>1. UNCHANGED online
  BY DEF JobStep
<1>2. PutTables(Outputs[job[n].at], Body(n))
  BY DEF JobStep, Put, Reconcile, PutTables
<1>3. \/ Published(n) \/ Failed(n)
      \/ job' = [job EXCEPT ![n].pc = "reconcile"]
      \/ /\ job[n].try # MaxAttempts
         /\ job' = [job EXCEPT ![n].pc = "put", ![n].try = @ + 1]
  BY DEF JobStep, Put, Reconcile
<1>4. job'[n].state # "NONE" /\ \A m \in Slot \ {n} : job'[m] = job[m]
  BY <1>3, JobGoesOn DEF JobStep, IInv, TypeInv
<1>5. (faults' = faults \/ faults' = faults + 1) /\ (harmed => harmed')
  BY <1>2, PutGrows
<1> QED BY <1>1, <1>4, <1>5 DEF OthersGrow

LEMMA NextGrows ==
  ASSUME IInv, [Next]_vars
  PROVE  Grow /\ (harmed => harmed')
<1>1. OthersGrow /\ \A d \in Exec : sf[d].at # "ABSENT" => sf'[d].at # "ABSENT"
  <2>1. ASSUME NEW e \in Exec, Submit(e) \/ Invoke(e) \/ Throttle(e) \/ Poll(e) \/ Timeout(e)
        PROVE  OthersGrow /\ \A d \in Exec : sf[d].at # "ABSENT" => sf'[d].at # "ABSENT"
    <3>1. UNCHANGED <<job, online>>
      BY <2>1 DEF Submit, Invoke, Throttle, Poll, Timeout, NothingWritten, durable, world
    <3>2. (faults' = faults \/ faults' = faults + 1) /\ (harmed => harmed')
      <4>1. CASE Timeout(e)
        BY <4>1, FaultGrows DEF Timeout
      <4>2. CASE Submit(e)
        <5>1. UNCHANGED faults
          BY <4>2 DEF Submit
        <5>2. harmed => harmed'
          BY <4>2, Zenon DEF Submit
        <5> QED BY <5>1, <5>2
      <4>3. CASE Invoke(e) \/ Throttle(e) \/ Poll(e)
        BY <4>3 DEF Invoke, Throttle, Poll, NothingWritten, world
      <4> QED BY <2>1, <4>1, <4>2, <4>3
    <3>3. CASE Submit(e) \/ Invoke(e) \/ Timeout(e)
      <4>1. sf \in [Exec -> Execution]
        BY DEF IInv, TypeInv
      <4>2. \/ sf' = [sf EXCEPT ![e].at = "VALIDATE"]
            \/ \E i \in Invocation : sf' = [sf EXCEPT ![e].inv = i]
            \/ sf' = [sf EXCEPT ![e].at = "TIMED_OUT", ![e].inv = None]
        BY <3>3 DEF Submit, Invoke, Timeout
      <4>3. \A d \in Exec : sf[d].at # "ABSENT" => sf'[d].at # "ABSENT"
        BY <4>1, <4>2 DEF Execution
      <4> QED BY <3>1, <3>2, <4>3 DEF OthersGrow
    <3>4. CASE Throttle(e)
      BY <3>1, <3>2, <3>4, RetryAlive DEF Throttle, IInv, OthersGrow
    <3>5. CASE Poll(e)
      <4>1. sf \in [Exec -> Execution]
        BY DEF IInv, TypeInv
      <4>2. \/ sf' = [sf EXCEPT ![e].at = "RECORD_GLUE"]
            \/ sf' = [sf EXCEPT ![e].at = "QUARANTINED", ![e].inv = None]
        BY <3>5 DEF Poll, Quarantine
      <4>3. \A d \in Exec : sf[d].at # "ABSENT" => sf'[d].at # "ABSENT"
        BY <4>1, <4>2 DEF Execution
      <4> QED BY <3>1, <3>2, <4>3 DEF OthersGrow
    <3> QED BY <2>1, <3>1, <3>2, <3>3, <3>4, <3>5 DEF OthersGrow
  <2>2. ASSUME NEW i \in Invocation, Crash(i) \/ Abort(i) \/ Orphan(i)
        PROVE  OthersGrow /\ \A d \in Exec : sf[d].at # "ABSENT" => sf'[d].at # "ABSENT"
    <3>1. UNCHANGED <<job, online>> /\ inv[i].pc # "idle"
      BY <2>2, NotIdle DEF Crash, Abort, Orphan, durable, IInv
    <3>2. (faults' = faults \/ faults' = faults + 1) /\ (harmed => harmed')
      BY <2>2, FaultGrows DEF Crash, Abort, Orphan
    <3>3. CASE Crash(i) \/ Abort(i)
      BY <3>1, <3>2, <3>3, AnswerAlive DEF Crash, Abort, OthersGrow
    <3>4. CASE Orphan(i)
      <4>1. inv[i].exec \in Exec /\ Retry(inv[i].exec)
        BY <3>1, <3>4 DEF Orphan, IInv, CallInv, Called
      <4> QED BY <3>1, <3>2, <4>1, RetryAlive DEF OthersGrow, IInv
    <3> QED BY <2>2, <3>3, <3>4
  <2>3. ASSUME NEW n \in Slot, JobFails(n)
        PROVE  OthersGrow /\ UNCHANGED sf
    <3>1. job[n].state = "RUNNING" /\ Failed(n) /\ UNCHANGED <<sf, online>>
      BY <2>3 DEF JobFails, durable
    <3>2. job'[n].state # "NONE" /\ \A m \in Slot \ {n} : job'[m] = job[m]
      BY <3>1, JobGoesOn DEF IInv, TypeInv
    <3>3. faults' = faults + 1 /\ (harmed => harmed')
      BY <2>3, FaultGrows DEF JobFails
    <3> QED BY <3>1, <3>2, <3>3 DEF OthersGrow
  <2>4. ASSUME NEW k \in Key, NEW body \in flying[k], Land(k, body)
        PROVE  OthersGrow /\ UNCHANGED sf
    BY <2>4 DEF Land, OthersGrow
  <2>5. CASE Lapse \/ ExpireRecord \/ OtherActivation
    <3>1. faults' = faults + 1 /\ (harmed => harmed')
      BY <2>5, FaultGrows DEF Lapse, ExpireRecord, OtherActivation
    <3>2. UNCHANGED <<sf, job>>
      BY <2>5 DEF Lapse, ExpireRecord, OtherActivation
    <3>3. online.state = "VALIDATED" => online'.state = "VALIDATED"
      BY <2>5 DEF Lapse, ExpireRecord, OtherActivation, durable, IInv, TypeInv, TableInv, Online
    <3> QED BY <3>1, <3>2, <3>3 DEF OthersGrow
  <2>6. CASE UNCHANGED vars
    BY <2>6 DEF vars, durable, world, OthersGrow
  <2>7. ASSUME NEW n \in Slot, JobStep(n) PROVE OthersGrow /\ UNCHANGED sf
    BY <2>7, JobGrows DEF JobStep
  <2> QED BY <2>1, <2>2, <2>3, <2>4, <2>5, <2>6, <2>7, InvocationGrows, Zenon DEF Next
<1>2. IInv' /\ Monotone
  BY NextIInv
<1>3. faults \in Nat /\ faults' \in Nat /\ faults <= faults'
  <2>1. faults \in Nat /\ faults' \in Nat
    BY <1>2, BoundAssumption DEF IInv, TypeInv, TableInv
  <2> QED BY <1>1, <2>1 DEF OthersGrow
<1> QED BY <1>1, <1>2, <1>3 DEF Grow, OthersGrow, Alive

----------------------------------------------------------------------------
(* The one invocation.                                                     *)

(* It works for the execution that everything else names.                  *)
LEMMA Named ==
  ASSUME IInv, Harmless, NEW i \in Invocation, inv[i].pc # "idle"
  PROVE  \E e \in Exec :
           /\ e = inv[i].exec /\ Alive(e) /\ sf[e].inv = i /\ sf[e].at = inv[i].task
           /\ \A d \in Exec : Alive(d) => d = e
           /\ \A t \in Task : IF ledger[t].state = "ABSENT" THEN ledger[t].owner = None
                              ELSE ledger[t].owner = e
           /\ binding \in {None, e}
<1>1. PICK e \in Exec : e = inv[i].exec /\ Alive(e) /\ sf[e].inv = i
  BY DEF Harmless, OneInvocation, Unhindered, Heard, Alive
<1>2. sf[e].at = inv[i].task
  <2>1. sf[e].inv # None
    BY <1>1, NoneAssumption
  <2> QED BY <1>1, <2>1 DEF IInv, HeardInv
<1>3. \A d \in Exec : Alive(d) => d = e
  BY <1>1 DEF Harmless, OneExecution
<1>4. \A d : Alive(d) => d = e
  BY <1>3 DEF Alive
<1>5. \A t \in Task : IF ledger[t].state = "ABSENT" THEN ledger[t].owner = None
                      ELSE ledger[t].owner = e
  BY <1>4 DEF Harmless, OneOwner
<1>6. binding \in {None, e}
  BY <1>4 DEF Harmless, OneOwner
<1> QED BY <1>1, <1>2, <1>3, <1>5, <1>6

LEMMA GotoFree ==
  ASSUME IInv, Harmless, Grow, NEW i \in Invocation, inv[i].pc # "idle",
         NEW pc \in Phase, Goto(i, pc), pc # "complete",
         pc \in Begun => ledger'[inv[i].task].state # "COMPLETED",
         pc = "begin" => inv[i].task # "VALIDATE" \/ object'["expected-state"] # Missing,
         pc = "slot" => attempt'[1] # "RESERVED",
         pc = "reserve" => attempt'[1] = "NONE",
         pc = "note" => job'[1].state # "NONE",
         pc = "refreeze" => object'["expected-state"] # Missing \/ inv[i].try <= faults',
         pc = "rereport" => object'["parity-report"] # Missing \/ inv[i].try <= faults'
  PROVE  \E c \in Call : Continues(i, c) /\ Unhindered(c)'
<1>1. PICK c \in Call : /\ Continues(i, c) /\ c.pc = pc /\ c.slot = inv[i].slot
                        /\ c.try = inv[i].try
  BY GotoIs DEF IInv
<1>2. c.exec = inv[i].exec /\ c.task = inv[i].task
  BY <1>1 DEF Continues
<1>3. Unhindered(inv[i])
  BY DEF Harmless, OneInvocation
<1>4. Alive(c.exec)'
  BY <1>2, <1>3 DEF Unhindered, Grow, Alive
<1>5. c.try <= faults' + 1
  <2>1. c.try \in Nat /\ faults \in Nat /\ faults' \in Nat /\ faults <= faults'
    BY BoundAssumption DEF Grow, Call
  <2> QED BY <1>1, <1>3, <2>1 DEF Unhindered
<1>6. c.slot = 1
  BY <1>1, <1>3 DEF Unhindered
<1>7. c.pc \in Begun => ~ Done(c.task)'
  BY <1>1, <1>2 DEF Done
<1>8. Unhindered(c)'
  BY <1>1, <1>2, <1>4, <1>5, <1>6, <1>7 DEF Unhindered, Done
<1> QED BY <1>1, <1>8

LEMMA FinishFree ==
  ASSUME IInv, Harmless, Grow, NEW i \in Invocation, inv[i].pc # "idle",
         NEW t, t = inv[i].task, ledger'[t].state # "COMPLETED",
         NEW r \in Outcome, Finish(i, r), Made(t, r)'
  PROVE  \E c \in Call : Continues(i, c) /\ Unhindered(c)'
<1>1. PICK c \in Call : /\ Continues(i, c) /\ c.pc = "complete" /\ c.out = r
                        /\ c.slot = inv[i].slot /\ c.try = inv[i].try
  BY FinishIs DEF IInv
<1>2. c.exec = inv[i].exec /\ c.task = inv[i].task
  BY <1>1 DEF Continues
<1>3. Unhindered(inv[i])
  BY DEF Harmless, OneInvocation
<1>4. Alive(c.exec)'
  BY <1>2, <1>3 DEF Unhindered, Grow, Alive
<1>5. c.try <= faults' + 1
  <2>1. c.try \in Nat /\ faults \in Nat /\ faults' \in Nat /\ faults <= faults'
    BY BoundAssumption DEF Grow, Call
  <2> QED BY <1>1, <1>3, <2>1 DEF Unhindered
<1>6. Made(c.task, c.out)'
  BY <1>1, <1>2 DEF Made
<1>7. ~ Done(c.task)'
  BY <1>2 DEF Done
<1>8. c.slot = 1
  BY <1>1, <1>3 DEF Unhindered
<1>9. Unhindered(c)'
  BY <1>1, <1>4, <1>5, <1>6, <1>7, <1>8 DEF Unhindered
<1> QED BY <1>1, <1>9

(* The invocation goes on and nothing is written.                          *)
LEMMA ReadsOn ==
  ASSUME IInv, Harmless, Grow, NEW i \in Invocation,
         inv[i].pc \notin {"idle", "launch", "note"}, NothingWritten,
         \E c \in Call : Continues(i, c) /\ Unhindered(c)'
  PROVE  Harmless'
<1>1. UNCHANGED <<ledger, binding, attempt, object, flying, online, ptr, op, job, admitted>>
  BY DEF NothingWritten, durable, world
<1>2. NothingLapsed'
  BY <1>1 DEF Harmless, NothingLapsed
<1>3. OneOwner' /\ RightObjects'
  BY <1>1, OwnerKept, ObjectsKept DEF Harmless
<1> QED BY <1>1, <1>2, <1>3, GoesOn

(* An outcome that is evidenced is one.                                    *)
LEMMA OutcomeOf ==
  ASSUME NEW t \in Task, NEW r \in Results[t]
  PROVE  r \in Outcome
BY DEF Outcome

(* What the execution has behind it is done, by it, and what that made is  *)
(* there.                                                                  *)
LEMMA DoneBehind ==
  ASSUME IInv, Harmless, NEW i \in Invocation, inv[i].pc # "idle",
         NEW t \in Before(inv[i].task)
  PROVE  t \in Task /\ Done(t) /\ Made(t, ResultOf(t)) /\ Evidence(t, inv[i].exec, ResultOf(t))
<1>1. inv[i].task \in Task /\ Behind(inv[i].exec, inv[i].task)
  BY DEF IInv, CallInv, Called
<1>2. t \in Task
  BY <1>1, BeforeIsTask
<1>3. Done(t) /\ ledger[t].owner = inv[i].exec
  BY <1>1 DEF Behind
<1> QED BY <1>2, <1>3 DEF Harmless, OneOwner, IInv, LedgerInv, Grounded, ResultOf

(* The plan holds after RECORD_GLUE.                                       *)
LEMMA PlanThere ==
  ASSUME IInv, Harmless, Quiet, NEW i \in Invocation, inv[i].pc # "idle",
         {"VALIDATE", "RECORD_GLUE"} \subseteq Before(inv[i].task)
  PROVE  PlanHolds
<1>1. PICK e \in Exec : e = inv[i].exec /\ \A d \in Exec : Alive(d) => d = e
  BY Named
<1>2. /\ Done("VALIDATE") /\ Done("RECORD_GLUE")
      /\ ResultOf("VALIDATE")[1] = e /\ object["expected-state"] # Missing
  BY <1>1, DoneBehind DEF Evidence, Made
<1>3. Right("expected-state", object["expected-state"].body)
  BY <1>2 DEF Harmless, RightObjects, Key
<1>4. object["expected-state"].body = <<e>>
  BY <1>1, <1>3 DEF Right
<1> QED BY <1>2, <1>4 DEF PlanHolds, Quiet

(* A run that has succeeded leaves its three outputs.                      *)
LEMMA OutputsThere ==
  ASSUME IInv, Harmless, NEW i \in Invocation, inv[i].pc # "idle",
         "START_GLUE" \in Before(inv[i].task), PastWait(inv[i].exec)
  PROVE  /\ object["rows"] # Missing /\ object["manifest"] # Missing
         /\ object["output-authority"] # Missing /\ object["output-authority"].body = <<1>>
<1>1. sf[inv[i].exec].job \in Slot /\ job[sf[inv[i].exec].job].state = "SUCCEEDED"
  BY DEF PastWait
<1>2. job[1].state = "SUCCEEDED"
  <2>1. \A n \in Slot \ {1} : job[n].state = "NONE"
    BY DEF Harmless, OneLaunch, IInv, LaunchInv, TypeInv, TableInv
  <2> QED BY <1>1, <2>1
<1>3. \A m \in 1..3 : object[Outputs[m]] # Missing
  BY <1>2 DEF Harmless, OneLaunch, Progress
<1>4. Outputs[1] = "rows" /\ Outputs[2] = "manifest" /\ Outputs[3] = "output-authority"
  BY DEF Outputs
<1>5. object["output-authority"] # Missing
  BY <1>3, <1>4
<1> QED BY <1>3, <1>4, <1>5 DEF Harmless, RightObjects, Key, Right

----------------------------------------------------------------------------
(* The steps that only read do not fail.                                   *)

LEMMA Undone ==
  ASSUME Harmless, NEW i \in Invocation, inv[i].pc \in Begun
  PROVE  ledger[inv[i].task].state # "COMPLETED"
<1>1. inv[i].pc # "idle"
  BY DEF Begun
<1> QED BY <1>1 DEF Harmless, OneInvocation, Unhindered, Done

LEMMA PrecheckHarmless ==
  ASSUME IInv, Harmless, Grow, NEW i \in Invocation, Precheck(i)
  PROVE  Harmless'
<1>1. inv[i].pc = "precheck" /\ NothingWritten
  BY DEF Precheck, At
<1>2. ledger["VALIDATE"].owner \in {None, inv[i].exec}
  BY <1>1, TaskSet, Named
<1>3. Goto(i, "verify")
  BY <1>2 DEF Precheck
<1>4. \E c \in Call : Continues(i, c) /\ Unhindered(c)'
  BY <1>1, <1>3, GotoFree, PhaseSet DEF Begun
<1> QED BY <1>1, <1>4, ReadsOn

LEMMA VerifyHarmless ==
  ASSUME IInv, Harmless, Grow, NEW i \in Invocation, Verify(i)
  PROVE  Harmless'
<1>1. inv[i].pc = "verify" /\ NothingWritten
  BY DEF Verify, At
<1>2. PICK r \in Reading : Step(i, [inv[i] EXCEPT !.pc = "freeze", !.reading = r])
  BY DEF Verify, Harmless, NothingLapsed
<1> DEFINE c == [inv[i] EXCEPT !.pc = "freeze", !.reading = r]
<1>3. inv[i] \in Call
  BY DEF IInv, TypeInv
<1>4. /\ c \in Call /\ c.pc = "freeze" /\ c.exec = inv[i].exec /\ c.task = inv[i].task
      /\ c.slot = inv[i].slot /\ c.try = inv[i].try
  BY <1>3, PhaseSet DEF Call
<1>5. inv' = [inv EXCEPT ![i] = c] /\ UNCHANGED sf
  BY <1>2 DEF Step
<1> HIDE DEF c
<1>6. PICK d \in Call : d = c
  BY <1>4
<1>7. Unhindered(inv[i])
  BY <1>1 DEF Harmless, OneInvocation
<1>8. Alive(d.exec)'
  BY <1>4, <1>6, <1>7 DEF Unhindered, Grow, Alive
<1>9. d.try <= faults' + 1
  <2>1. d.try \in Nat /\ faults \in Nat /\ faults' \in Nat /\ faults <= faults'
    BY BoundAssumption DEF Grow, Call
  <2> QED BY <1>4, <1>6, <1>7, <2>1 DEF Unhindered
<1>10. Unhindered(d)'
  BY <1>4, <1>6, <1>7, <1>8, <1>9 DEF Unhindered, Begun
<1>11. Continues(i, d)
  BY <1>4, <1>5, <1>6 DEF Continues
<1> QED BY <1>1, <1>10, <1>11, ReadsOn

LEMMA PriorHarmless ==
  ASSUME IInv, Harmless, Grow, NEW i \in Invocation, Prior(i)
  PROVE  Harmless'
<1>1. inv[i].pc = "prior" /\ NothingWritten
  BY DEF Prior
<1>2. inv[i].task \in Task /\ inv[i].task # "VALIDATE"
  BY <1>1 DEF IInv, CallInv, Called, Placed, Suits
<1>3. "VALIDATE" \in Before(inv[i].task)
  BY <1>2, TaskSet, BeforeIs
<1>4. Done("VALIDATE") /\ admitted
  BY <1>1, <1>3, DoneBehind DEF Harmless, NothingLapsed
<1>5. Goto(i, "begin")
  BY <1>4 DEF Prior
<1>6. \E c \in Call : Continues(i, c) /\ Unhindered(c)'
  BY <1>1, <1>2, <1>5, GotoFree, PhaseSet DEF Begun
<1> QED BY <1>1, <1>6, ReadsOn

LEMMA ReadSlotHarmless ==
  ASSUME IInv, Harmless, Grow, NEW i \in Invocation, ReadSlot(i)
  PROVE  Harmless'
<1>1. inv[i].pc = "slot" /\ NothingWritten
  BY DEF ReadSlot
<1>2. inv[i].slot = 1 /\ attempt[1] # "RESERVED" /\ 1 \in Slot
  BY <1>1, FirstSlot DEF Harmless, OneInvocation, Unhindered
<1>3. attempt[1] \in {"NONE", "COMPLETED"}
  BY <1>2 DEF IInv, TypeInv, TableInv
<1>4. UNCHANGED <<ledger, attempt, job>>
  BY <1>1 DEF NothingWritten, durable, world
<1>5. PICK t : t = inv[i].task
  OBVIOUS
<1>6. t = "START_GLUE" /\ ledger[t].state # "COMPLETED"
  BY <1>1, <1>5, Undone DEF Begun, IInv, CallInv, Placed, Suits
<1>7. CASE attempt[1] = "COMPLETED"
  <2>1. Finish(i, 1)
    BY <1>2, <1>7 DEF ReadSlot
  <2>2. job[1].state # "NONE"
    BY <1>7 DEF Harmless, OneLaunch
  <2>3. Made(t, 1)'
    BY <1>4, <1>6, <2>2 DEF Made
  <2>4. 1 \in Outcome
    BY <1>2, TaskSet, OutcomeOf DEF Results
  <2>5. \E c \in Call : Continues(i, c) /\ Unhindered(c)'
    BY <1>1, <1>4, <1>5, <1>6, <2>1, <2>3, <2>4, FinishFree
  <2> QED BY <1>1, <2>5, ReadsOn
<1>8. CASE attempt[1] = "NONE"
  <2>1. Goto(i, "reserve")
    BY <1>2, <1>8 DEF ReadSlot
  <2>2. \E c \in Call : Continues(i, c) /\ Unhindered(c)'
    BY <1>1, <1>4, <1>5, <1>6, <1>8, <2>1, GotoFree, PhaseSet
  <2> QED BY <1>1, <2>2, ReadsOn
<1> QED BY <1>3, <1>7, <1>8

(* It finishes with r, or goes on to the next part of a task it has begun. *)
LEMMA FinishReads ==
  ASSUME IInv, Harmless, Grow, NEW i \in Invocation,
         inv[i].pc \in Begun \ {"launch", "note"}, NothingWritten,
         NEW r \in Results[inv[i].task], Finish(i, r), Made(inv[i].task, r)
  PROVE  Harmless'
<1>1. PICK t : t = inv[i].task
  OBVIOUS
<1>2. t \in Task /\ inv[i].pc # "idle"
  BY <1>1 DEF IInv, CallInv, Called, Begun
<1>3. ledger'[t].state # "COMPLETED"
  BY <1>1, Undone DEF NothingWritten, durable
<1>4. Made(t, r)'
  BY <1>1, MadeStable
<1>5. r \in Outcome
  BY <1>1, <1>2, OutcomeOf
<1>6. \E c \in Call : Continues(i, c) /\ Unhindered(c)'
  BY <1>1, <1>2, <1>3, <1>4, <1>5, FinishFree
<1> QED BY <1>2, <1>6, ReadsOn

LEMMA GotoReads ==
  ASSUME IInv, Harmless, Grow, NEW i \in Invocation,
         inv[i].pc \in Begun \ {"launch", "note"}, NothingWritten,
         NEW pc \in {"report", "move"}, Goto(i, pc)
  PROVE  Harmless'
<1>1. inv[i].pc # "idle"
  BY DEF Begun
<1>2. ledger'[inv[i].task].state # "COMPLETED"
  BY Undone DEF NothingWritten, durable
<1>3. \E c \in Call : Continues(i, c) /\ Unhindered(c)'
  BY <1>1, <1>2, GotoFree, PhaseSet
<1> QED BY <1>1, <1>3, ReadsOn

LEMMA RecordGlueHarmless ==
  ASSUME IInv, Harmless, Grow, NEW i \in Invocation, RecordGlue(i)
  PROVE  Harmless'
<1>1. inv[i].task = "RECORD_GLUE" /\ inv[i].pc = "execute" /\ NothingWritten
  BY DEF RecordGlue, At
<1>2. PICK e \in Exec : e = inv[i].exec /\ sf[e].at = "RECORD_GLUE"
  BY <1>1, Named
<1>3. "START_GLUE" \in Before(inv[i].task)
  BY <1>1, BeforeIs
<1>4. Done("START_GLUE") /\ ResultOf("START_GLUE") = 1
  BY <1>1, <1>3, DoneBehind DEF Made
<1>5. sf[e].job = ResultOf("START_GLUE")
  BY <1>2 DEF IInv, CarriedInv
<1>6. PastWait(inv[i].exec)
  BY <1>1 DEF IInv, CallInv, Called
<1>7. /\ object["rows"] # Missing /\ object["manifest"] # Missing
      /\ object["output-authority"].body = <<1>>
  BY <1>1, <1>3, <1>6, OutputsThere
<1>8. Finish(i, 1)
  BY <1>2, <1>4, <1>5, <1>7 DEF RecordGlue
<1>9. 1 \in Results[inv[i].task] /\ Made(inv[i].task, 1)
  BY <1>1, FirstSlot DEF Results, Made
<1> QED BY <1>1, <1>8, <1>9, FinishReads DEF Begun

LEMMA RecordsThere ==
  ASSUME IInv, Harmless, NEW i \in Invocation, inv[i].pc # "idle",
         "MATERIALIZE_ONLINE" \in Before(inv[i].task)
  PROVE  Done("MATERIALIZE_ONLINE") /\ RecordsWhole
BY DoneBehind DEF Made, RecordsWhole, Harmless, NothingLapsed

LEMMA CompareRecordsHarmless ==
  ASSUME IInv, Harmless, Quiet, Grow, NEW i \in Invocation, CompareRecords(i)
  PROVE  Harmless'
<1>1. inv[i].task = "PARITY" /\ inv[i].pc = "execute" /\ NothingWritten
  BY DEF CompareRecords, At
<1>2. Done("MATERIALIZE_ONLINE") /\ PlanHolds /\ RecordsWhole
  BY <1>1, BeforeIs, PlanThere, RecordsThere
<1>3. Goto(i, "report")
  BY <1>2 DEF CompareRecords
<1> QED BY <1>1, <1>3, GotoReads DEF Begun

(* The parity recorded, and its report, are eligible.                      *)
LEMMA ParityThere ==
  ASSUME IInv, Harmless, Quiet, NEW i \in Invocation, inv[i].pc # "idle",
         "PARITY" \in Before(inv[i].task)
  PROVE  ParityEligible /\ object["parity-report"] # Missing
<1>1. /\ Done("PARITY") /\ ResultOf("PARITY") = Decision
      /\ object["parity-report"] # Missing
  BY DoneBehind DEF Evidence, Made
<1>2. Decision = "ELIGIBLE"
  BY DEF Decision, Quiet
<1>3. object["parity-report"].body = <<"ELIGIBLE">>
  BY <1>1 DEF Harmless, RightObjects, Key, Right
<1> QED BY <1>1, <1>2, <1>3 DEF ParityEligible

LEMMA ConfirmParityHarmless ==
  ASSUME IInv, Harmless, Quiet, Grow, NEW i \in Invocation, ConfirmParity(i)
  PROVE  Harmless'
<1>1. inv[i].task = "ACTIVATE" /\ inv[i].pc = "execute" /\ NothingWritten
  BY DEF ConfirmParity, At
<1>2. ParityEligible /\ Done("MATERIALIZE_ONLINE") /\ PlanHolds /\ RecordsWhole
  BY <1>1, BeforeIs, PlanThere, RecordsThere, ParityThere
<1>3. Goto(i, "move")
  BY <1>2 DEF ConfirmParity
<1> QED BY <1>1, <1>3, GotoReads DEF Begun

LEMMA CompleteRunHarmless ==
  ASSUME IInv, Harmless, Quiet, Grow, NEW i \in Invocation, CompleteRun(i)
  PROVE  Harmless'
<1>1. inv[i].task = "COMPLETE" /\ inv[i].pc = "execute" /\ NothingWritten
  BY DEF CompleteRun, At
<1>2. \A t \in Task \ {"COMPLETE"} : Done(t)
  BY <1>1, TaskSet, BeforeIs, DoneBehind
<1>3. PastWait(inv[i].exec)
  <2>1. PICK e \in Exec : e = inv[i].exec /\ sf[e].at = "COMPLETE"
    BY <1>1, Named
  <2> QED BY <2>1 DEF IInv, CarriedInv
<1>4. \A k \in Key : object[k] # Missing
  <2>1. object["expected-state"] # Missing
    BY <1>1, BeforeIs, DoneBehind DEF Made
  <2>2. /\ object["rows"] # Missing /\ object["manifest"] # Missing
        /\ object["output-authority"] # Missing
    BY <1>1, <1>3, BeforeIs, OutputsThere
  <2>3. object["parity-report"] # Missing
    BY <1>1, BeforeIs, ParityThere
  <2> QED BY <2>1, <2>2, <2>3 DEF Key
<1>5. Finish(i, "RECEIPT")
  BY <1>2, <1>4 DEF CompleteRun
<1>6. "RECEIPT" \in Results[inv[i].task] /\ Made(inv[i].task, "RECEIPT")
  BY <1>1 DEF Results, Made
<1> QED BY <1>1, <1>5, <1>6, FinishReads DEF Begun

----------------------------------------------------------------------------
(* The puts.                                                               *)

(* As many faults as retries make good.                                    *)
WithinBudget == MaxFaults <= MaxRetries /\ MaxFaults < MaxAttempts

LEMMA PutRight ==
  ASSUME TableInv, RightObjects, Grow, NEW k \in Key, NEW body, Right(k, body),
         PutTables(k, body)
  PROVE  RightObjects'
<1>1. /\ object = [j \in Key |-> object[j]] /\ flying = [j \in Key |-> flying[j]]
  BY DEF TableInv
<1>2. Right(k, body)'
  BY RightStable
<1>3. CASE Create(k, body) /\ UNCHANGED <<flying, faults, harmed>>
  <2>1. object' = [object EXCEPT ![k] = [body |-> body, version |-> 1]]
    BY <1>3 DEF Create
  <2>2. object'[k].body = body /\ \A j \in Key \ {k} : object'[j] = object[j]
    BY <1>1, <2>1
  <2>3. PICK b : b = object'[k].body
    OBVIOUS
  <2>4. Right(k, b)'
    BY <1>2, <2>2, <2>3
  <2>5. ASSUME NEW j \in Key
        PROVE  /\ object'[j] = Missing \/ Right(j, object[j].body)'
               /\ \A x \in flying'[j] : Right(j, x)'
    <3>1. \A x \in flying[j] : Right(j, x)'
      BY RightStable DEF RightObjects
    <3>2. CASE j = k
      BY <1>3, <2>2, <2>3, <2>4, <3>1, <3>2 DEF Right
    <3>3. CASE j # k
      <4>1. PICK c : c = object[j].body
        OBVIOUS
      <4>2. object[j] = Missing \/ Right(j, c)'
        BY <4>1, RightStable DEF RightObjects
      <4>3. object'[j] = object[j] /\ object'[j].body = c
        BY <2>2, <3>3, <4>1
      <4> QED BY <1>3, <3>1, <4>2, <4>3 DEF Right
    <3> QED BY <3>2, <3>3
  <2> QED BY <2>5 DEF RightObjects
<1>4. CASE UNCHANGED <<object, flying, faults, harmed>>
  BY <1>4, ObjectsKept
<1>5. CASE /\ Fault(FALSE) /\ UNCHANGED object
           /\ flying' = [flying EXCEPT ![k] = @ \union {body}]
  <2>1. /\ flying'[k] = flying[k] \union {body}
        /\ \A j \in Key \ {k} : flying'[j] = flying[j]
    BY <1>1, <1>5
  <2>2. ASSUME NEW j \in Key
        PROVE  /\ object[j] = Missing \/ Right(j, object[j].body)'
               /\ \A x \in flying'[j] : Right(j, x)'
    <3>1. \A x \in flying[j] : Right(j, x)'
      BY RightStable DEF RightObjects
    <3>2. \A x \in flying'[j] : Right(j, x)'
      BY <1>2, <2>1, <3>1
    <3>3. PICK c : c = object[j].body
      OBVIOUS
    <3>4. object[j] = Missing \/ Right(j, c)'
      BY <3>3, RightStable DEF RightObjects
    <3> QED BY <1>5, <3>2, <3>3, <3>4 DEF Right
  <2> QED BY <1>5, <2>2 DEF RightObjects
<1> QED BY <1>3, <1>4, <1>5 DEF PutTables

(* What follows from a put, or a look at what is there, when the object    *)
(* can only be right and each further attempt has cost a fault.            *)
LEMMA PutFree ==
  ASSUME TableInv, RightObjects, NEW k \in Key, NEW body,
         \A x : Right(k, x) => x = body
  PROVE  /\ object[k] # Missing => object[k].body = body
         /\ Create(k, body) => object'[k] # Missing
<1>1. object[k] # Missing => object[k].body = body
  BY DEF RightObjects
<1>2. ASSUME Create(k, body) PROVE object'[k] # Missing
  <2>1. object'[k] = [body |-> body, version |-> 1]
    BY <1>2 DEF Create, TableInv
  <2>2. object'[k].version = 1 /\ Missing.version = 0
    BY <2>1 DEF Missing
  <2> QED BY <2>2
<1> QED BY <1>1, <1>2

LEMMA AgainFree ==
  ASSUME IInv, Harmless, Grow, NEW i \in Invocation, inv[i].pc # "idle",
         NEW pc \in {"freeze", "report"}, Again(i, pc), inv[i].try # MaxAttempts,
         inv[i].try <= faults,
         pc \in Begun => ledger'[inv[i].task].state # "COMPLETED"
  PROVE  \E c \in Call : Continues(i, c) /\ Unhindered(c)'
<1>1. inv[i] \in Call /\ pc \in Phase /\ pc # "idle"
  BY PhaseSet DEF IInv, TypeInv
<1>2. PICK n \in 1..MaxAttempts : n = inv[i].try + 1
  BY <1>1, BoundAssumption DEF Call
<1> DEFINE c == [inv[i] EXCEPT !.pc = pc, !.try = n]
<1>3. /\ c \in Call /\ c.pc = pc /\ c.try = n /\ c.slot = inv[i].slot
      /\ c.exec = inv[i].exec /\ c.task = inv[i].task
  BY <1>1 DEF Call
<1>4. inv' = [inv EXCEPT ![i] = c] /\ UNCHANGED sf
  BY <1>1, <1>2 DEF Again, Step, Call
<1> HIDE DEF c
<1>5. PICK d \in Call : d = c
  BY <1>3
<1>6. Unhindered(inv[i])
  BY DEF Harmless, OneInvocation
<1>7. Alive(d.exec)'
  BY <1>3, <1>5, <1>6 DEF Unhindered, Grow, Alive
<1>8. d.try <= faults' + 1
  <2>1. inv[i].try \in Nat /\ faults \in Nat /\ faults' \in Nat /\ faults <= faults'
    BY <1>1, BoundAssumption DEF Grow, Call
  <2> QED BY <1>2, <1>3, <1>5, <2>1
<1>9. d.slot = 1 /\ (d.pc \in Begun => ~ Done(d.task)')
  BY <1>3, <1>5, <1>6 DEF Unhindered, Done
<1>10. Unhindered(d)'
  BY <1>3, <1>5, <1>7, <1>8, <1>9 DEF Unhindered
<1> QED BY <1>1, <1>3, <1>4, <1>5, <1>10 DEF Continues

LEMMA FreezeHarmless ==
  ASSUME WithinBudget, IInv, Harmless, Grow, NEW i \in Invocation, Freeze(i)
  PROVE  Harmless'
<1>1. /\ inv[i].task = "VALIDATE" /\ inv[i].pc \in {"freeze", "refreeze"}
      /\ UNCHANGED <<ledger, binding, attempt, online, ptr, op, job, admitted>>
  BY DEF Freeze
<1>2. PICK e \in Exec : e = inv[i].exec /\ Alive(e) /\ \A d \in Exec : Alive(d) => d = e
  BY <1>1, Named
<1>3. PICK k \in Key : k = "expected-state"
  BY DEF Key
<1>4. PICK body : body = Frozen(i)
  OBVIOUS
<1>5. body = <<e>> /\ \A x : Right(k, x) <=> x = body
  BY <1>2, <1>3, <1>4 DEF Frozen, Right
<1>6. PutTables(k, body)
  BY <1>3, <1>4 DEF Freeze, Put, Reconcile, PutTables
<1>7. RightObjects'
  BY <1>5, <1>6, PutRight DEF IInv, TypeInv, Harmless
<1>8. /\ object[k] # Missing => object[k].body = body
      /\ Create(k, body) => object'[k] # Missing
  BY <1>5, PutFree DEF IInv, TypeInv, Harmless
<1>9. /\ inv[i].try \in Nat /\ faults \in 0..MaxFaults /\ inv[i].try <= faults + 1
      /\ inv[i].pc = "refreeze" /\ object[k] = Missing => inv[i].try <= faults
  <2>1. inv[i].try \in Nat /\ faults \in 0..MaxFaults
    BY BoundAssumption DEF IInv, TypeInv, TableInv, Call
  <2> QED BY <1>1, <1>3, <2>1 DEF Harmless, OneInvocation, Unhindered
<1>10. \/ Goto(i, "begin") /\ object'[k] # Missing
       \/ Goto(i, "refreeze") /\ (object'[k] # Missing \/ inv[i].try <= faults')
       \/ Again(i, "freeze") /\ inv[i].try # MaxAttempts /\ inv[i].try <= faults
  <2>1. CASE inv[i].pc = "freeze"
    <3>1. Put(k, body, Goto(i, "begin"), Goto(i, "refreeze"))
      BY <1>3, <1>4, <2>1 DEF Freeze
    <3>2. CASE Fault(FALSE) /\ Goto(i, "refreeze")
      BY <1>9, <3>2 DEF Fault
    <3>3. CASE Create(k, body) /\ Goto(i, "begin")
      BY <1>8, <3>3
    <3>4. CASE object[k] # Missing /\ Goto(i, "refreeze") /\ UNCHANGED object
      BY <3>4
    <3> QED BY <3>1, <3>2, <3>3, <3>4 DEF Put
  <2>2. CASE inv[i].pc = "refreeze"
    <3>1. Reconcile(k, body, inv[i].try, Goto(i, "begin"), Again(i, "freeze"), Raise(i))
      BY <1>3, <1>4, <2>2 DEF Freeze
    <3>2. CASE object[k] = Missing
      <4>1. inv[i].try <= faults /\ inv[i].try # MaxAttempts
        BY <1>9, <2>2, <3>2, BoundAssumption DEF WithinBudget
      <4> QED BY <3>1, <3>2, <4>1 DEF Reconcile
    <3>3. CASE object[k] # Missing
      BY <1>8, <3>1, <3>3 DEF Reconcile
    <3> QED BY <3>2, <3>3
  <2> QED BY <1>1, <2>1, <2>2
<1>11. \E c \in Call : Continues(i, c) /\ Unhindered(c)'
  <2>1. CASE Goto(i, "begin") /\ object'[k] # Missing
    BY <1>1, <1>3, <2>1, GotoFree, PhaseSet DEF Begun
  <2>2. CASE Goto(i, "refreeze") /\ (object'[k] # Missing \/ inv[i].try <= faults')
    BY <1>1, <1>3, <2>2, GotoFree, PhaseSet DEF Begun
  <2>3. CASE Again(i, "freeze") /\ inv[i].try # MaxAttempts /\ inv[i].try <= faults
    BY <1>1, <2>3, AgainFree DEF Begun
  <2> QED BY <1>10, <2>1, <2>2, <2>3
<1>12. NothingLapsed' /\ OneOwner'
  BY <1>1, OwnerKept DEF Harmless, NothingLapsed
<1> QED BY <1>1, <1>7, <1>11, <1>12, GoesOn

LEMMA FreezeReportHarmless ==
  ASSUME WithinBudget, IInv, Harmless, Quiet, Grow, NEW i \in Invocation, FreezeReport(i)
  PROVE  Harmless'
<1>1. /\ inv[i].pc \in {"report", "rereport"}
      /\ UNCHANGED <<ledger, binding, attempt, online, ptr, op, job, admitted>>
  BY DEF FreezeReport
<1>2. inv[i].task = "PARITY"
  BY <1>1 DEF IInv, CallInv, Placed, Suits
<1>3. PICK k \in Key : k = "parity-report"
  BY DEF Key
<1>4. PICK decision : decision = Decision
  OBVIOUS
<1>5. decision = "ELIGIBLE"
  BY <1>4 DEF Decision, Quiet
<1>6. PICK body : body = <<decision>>
  OBVIOUS
<1>7. \A x : Right(k, x) <=> x = body
  BY <1>3, <1>5, <1>6 DEF Right
<1>8. PutTables(k, body)
  BY <1>3, <1>4, <1>6 DEF FreezeReport, Put, Reconcile, PutTables
<1>9. RightObjects'
  BY <1>7, <1>8, PutRight DEF IInv, TypeInv, Harmless
<1>10. /\ object[k] # Missing => object[k].body = body
       /\ Create(k, body) => object'[k] # Missing
  BY <1>7, PutFree DEF IInv, TypeInv, Harmless
<1>11. /\ inv[i].try \in Nat /\ faults \in 0..MaxFaults /\ inv[i].try <= faults + 1
       /\ inv[i].pc = "rereport" /\ object[k] = Missing => inv[i].try <= faults
  <2>1. inv[i].try \in Nat /\ faults \in 0..MaxFaults
    BY BoundAssumption DEF IInv, TypeInv, TableInv, Call
  <2> QED BY <1>1, <1>3, <2>1 DEF Harmless, OneInvocation, Unhindered
<1>12. \/ Finish(i, decision) /\ object'[k] # Missing
       \/ Goto(i, "rereport") /\ (object'[k] # Missing \/ inv[i].try <= faults')
       \/ Again(i, "report") /\ inv[i].try # MaxAttempts /\ inv[i].try <= faults
  <2>1. CASE inv[i].pc = "report"
    <3>1. Put(k, body, Finish(i, decision), Goto(i, "rereport"))
      BY <1>3, <1>4, <1>6, <2>1 DEF FreezeReport
    <3>2. CASE Fault(FALSE) /\ Goto(i, "rereport")
      BY <1>11, <3>2 DEF Fault
    <3>3. CASE Create(k, body) /\ Finish(i, decision)
      BY <1>10, <3>3
    <3>4. CASE object[k] # Missing /\ Goto(i, "rereport") /\ UNCHANGED object
      BY <3>4
    <3> QED BY <3>1, <3>2, <3>3, <3>4 DEF Put
  <2>2. CASE inv[i].pc = "rereport"
    <3>1. Reconcile(k, body, inv[i].try, Finish(i, decision), Again(i, "report"), Raise(i))
      BY <1>3, <1>4, <1>6, <2>2 DEF FreezeReport
    <3>2. CASE object[k] = Missing
      <4>1. inv[i].try <= faults /\ inv[i].try # MaxAttempts
        BY <1>11, <2>2, <3>2, BoundAssumption DEF WithinBudget
      <4> QED BY <3>1, <3>2, <4>1 DEF Reconcile
    <3>3. CASE object[k] # Missing
      BY <1>10, <3>1, <3>3 DEF Reconcile
    <3> QED BY <3>2, <3>3
  <2> QED BY <1>1, <2>1, <2>2
<1>13. ledger'["PARITY"].state # "COMPLETED"
  BY <1>1, <1>2, Undone DEF Begun
<1>14. \E c \in Call : Continues(i, c) /\ Unhindered(c)'
  <2>1. CASE Goto(i, "rereport") /\ (object'[k] # Missing \/ inv[i].try <= faults')
    BY <1>1, <1>2, <1>3, <1>13, <2>1, GotoFree, PhaseSet
  <2>2. CASE Again(i, "report") /\ inv[i].try # MaxAttempts /\ inv[i].try <= faults
    BY <1>1, <1>2, <1>13, <2>2, AgainFree
  <2>3. CASE Finish(i, decision) /\ object'[k] # Missing
    <3>1. PICK t : t = inv[i].task
      OBVIOUS
    <3>2. Made(t, decision)'
      BY <1>2, <1>3, <2>3, <3>1 DEF Made
    <3>3. decision \in Outcome
      BY <1>5, TaskSet, OutcomeOf DEF Results
    <3> QED BY <1>1, <1>2, <1>13, <2>3, <3>1, <3>2, <3>3, FinishFree
  <2> QED BY <1>12, <2>1, <2>2, <2>3
<1>15. NothingLapsed' /\ OneOwner'
  BY <1>1, OwnerKept DEF Harmless, NothingLapsed
<1> QED BY <1>1, <1>9, <1>14, <1>15, GoesOn

----------------------------------------------------------------------------
(* The other writes.                                                       *)

LEMMA BindLaunchHarmless ==
  ASSUME IInv, Harmless, Grow, NEW i \in Invocation, BindLaunch(i)
  PROVE  Harmless'
<1>1. /\ inv[i].task = "START_GLUE" /\ inv[i].pc = "execute"
      /\ UNCHANGED <<ledger, attempt, object, flying, online, ptr, op, job, admitted>>
  BY DEF BindLaunch, At, world
<1>2. PICK e \in Exec : e = inv[i].exec /\ Alive(e) /\ binding \in {None, e}
  BY <1>1, Named
<1>3. ResultOf("VALIDATE")[1] = e
  BY <1>1, <1>2, BeforeIs, DoneBehind DEF Evidence
<1>4. Goto(i, "slot") /\ binding' = e
  BY <1>2, <1>3, NoneAssumption DEF BindLaunch
<1>5. attempt[1] # "RESERVED"
  BY <1>1, NotReserved
<1>6. ledger'[inv[i].task].state # "COMPLETED"
  BY <1>1, Undone DEF Begun
<1>7. \E c \in Call : Continues(i, c) /\ Unhindered(c)'
  BY <1>1, <1>4, <1>5, <1>6, GotoFree, PhaseSet
<1>8. OneOwner'
  <2>1. Alive(e)'
    BY <1>2 DEF Grow
  <2>2. Alive(binding)'
    BY <1>4, <2>1 DEF Alive
  <2>3. ASSUME NEW t \in Task
        PROVE  /\ IF ledger'[t].state = "ABSENT" THEN ledger'[t].owner = None
                  ELSE Alive(ledger[t].owner)'
               /\ Done(t)' => Made(t, ResultOf(t))'
    <3>1. PICK d : d = ledger[t].owner
      OBVIOUS
    <3>2. PICK r : r = ledger[t].result
      OBVIOUS
    <3>3. Alive(d) => Alive(d)'
      BY DEF Grow, Alive
    <3>4. Done(t) => Made(t, r)'
      BY <3>2, MadeStable DEF Harmless, OneOwner, ResultOf
    <3> QED BY <1>1, <3>1, <3>2, <3>3, <3>4 DEF Harmless, OneOwner, Done, ResultOf, Alive
  <2> QED BY <2>2, <2>3 DEF OneOwner
<1>9. NothingLapsed' /\ RightObjects'
  BY <1>1, ObjectsKept DEF Harmless, NothingLapsed
<1> QED BY <1>1, <1>7, <1>8, <1>9, GoesOn

LEMMA ClaimGenerationHarmless ==
  ASSUME IInv, Harmless, Quiet, Grow, NEW i \in Invocation, ClaimGeneration(i)
  PROVE  Harmless'
<1>1. /\ inv[i].task = "MATERIALIZE_ONLINE" /\ inv[i].pc = "execute"
      /\ UNCHANGED <<ledger, binding, attempt, object, flying, ptr, op, job, admitted>>
  BY DEF ClaimGeneration, At, world
<1>2. PlanHolds
  BY <1>1, BeforeIs, PlanThere
<1>3. /\ Goto(i, "fill")
      /\ online' = IF online.state = "ABSENT" THEN [online EXCEPT !.state = "WRITING"] ELSE online
  BY <1>2 DEF ClaimGeneration
<1>4. online'.whole = online.whole
  BY <1>3 DEF IInv, TypeInv, TableInv, Online
<1>5. ledger'[inv[i].task].state # "COMPLETED"
  BY <1>1, Undone DEF Begun
<1>6. \E c \in Call : Continues(i, c) /\ Unhindered(c)'
  BY <1>1, <1>3, <1>5, GotoFree, PhaseSet
<1>7. OneOwner' /\ RightObjects'
  BY <1>1, OwnerKept, ObjectsKept DEF Harmless
<1>8. NothingLapsed'
  BY <1>1, <1>4 DEF Harmless, NothingLapsed
<1> QED BY <1>1, <1>6, <1>7, <1>8, GoesOn

LEMMA FillGenerationHarmless ==
  ASSUME IInv, Harmless, Grow, NEW i \in Invocation, FillGeneration(i)
  PROVE  Harmless'
<1>1. /\ inv[i].pc = "fill"
      /\ UNCHANGED <<ledger, binding, attempt, object, flying, ptr, op, job, admitted>>
  BY DEF FillGeneration, world
<1>2. PICK t : t = inv[i].task
  OBVIOUS
<1>3. t = "MATERIALIZE_ONLINE"
  BY <1>1, <1>2 DEF IInv, CallInv, Placed, Suits
<1>4. Finish(i, "VALIDATED") /\ online' = [online EXCEPT !.state = "VALIDATED"]
  BY DEF FillGeneration, Harmless, NothingLapsed
<1>5. online'.whole = online.whole /\ online'.state = "VALIDATED"
  BY <1>4 DEF IInv, TypeInv, TableInv, Online
<1>6. ledger'[t].state # "COMPLETED"
  BY <1>1, <1>2, Undone DEF Begun
<1>7. Made(t, "VALIDATED")'
  BY <1>3, <1>5 DEF Made
<1>8. "VALIDATED" \in Outcome
  BY TaskSet, OutcomeOf DEF Results
<1>9. \E c \in Call : Continues(i, c) /\ Unhindered(c)'
  BY <1>1, <1>2, <1>4, <1>6, <1>7, <1>8, FinishFree
<1>10. OneOwner' /\ RightObjects'
  BY <1>1, OwnerKept, ObjectsKept DEF Harmless
<1>11. NothingLapsed'
  BY <1>1, <1>5 DEF Harmless, NothingLapsed
<1> QED BY <1>1, <1>9, <1>10, <1>11, GoesOn

LEMMA MovePointerHarmless ==
  ASSUME IInv, Harmless, Grow, NEW i \in Invocation, MovePointer(i)
  PROVE  Harmless'
<1>1. /\ inv[i].pc = "move"
      /\ UNCHANGED <<ledger, binding, attempt, object, flying, online, job, admitted>>
  BY DEF MovePointer, world
<1>2. PICK t : t = inv[i].task
  OBVIOUS
<1>3. t = "ACTIVATE"
  BY <1>1, <1>2 DEF IInv, CallInv, Placed, Suits
<1>4. op \/ ptr = Expected
  BY DEF Harmless, NothingLapsed
<1>5. Finish(i, "ACTIVATED") /\ op'
  BY <1>4 DEF MovePointer
<1>6. ledger'[t].state # "COMPLETED"
  BY <1>1, <1>2, Undone DEF Begun
<1>7. Made(t, "ACTIVATED")'
  BY <1>3 DEF Made
<1>8. "ACTIVATED" \in Outcome
  BY TaskSet, OutcomeOf DEF Results
<1>9. \E c \in Call : Continues(i, c) /\ Unhindered(c)'
  BY <1>1, <1>2, <1>5, <1>6, <1>7, <1>8, FinishFree
<1>10. OneOwner' /\ RightObjects'
  BY <1>1, OwnerKept, ObjectsKept DEF Harmless
<1>11. NothingLapsed'
  BY <1>1, <1>5 DEF Harmless, NothingLapsed
<1> QED BY <1>1, <1>9, <1>10, <1>11, GoesOn

----------------------------------------------------------------------------
(* The launch.                                                             *)

LEMMA LaunchKeeps ==
  ASSUME IInv, OneLaunch, Grow, UNCHANGED job,
         \A n \in Slot \ {1} : attempt'[n] = "NONE",
         attempt'[1] = "RESERVED" => \E i \in Invocation : inv'[i].pc \in {"launch", "note"},
         attempt'[1] = "COMPLETED" => job[1].state # "NONE"
  PROVE  OneLaunch'
<1>1. PICK x \in JobRun : x = job[1]
  BY FirstSlot DEF IInv, TypeInv, TableInv
<1>2. Progress(x)'
  BY <1>1, ProgressStable DEF OneLaunch
<1>3. Progress(job[1])'
  BY <1>1, <1>2 DEF Progress
<1> QED BY <1>3 DEF OneLaunch

LEMMA AtSlot ==
  ASSUME IInv, Harmless, NEW i \in Invocation, inv[i].pc \in {"reserve", "launch", "note"}
  PROVE  /\ inv[i].slot = 1 /\ inv[i].task = "START_GLUE"
         /\ ledger["START_GLUE"].state # "COMPLETED"
<1>1. inv[i].pc # "idle" /\ inv[i].pc \in Begun
  BY DEF Begun
<1>2. inv[i].slot = 1
  BY <1>1 DEF Harmless, OneInvocation, Unhindered
<1>3. inv[i].task = "START_GLUE"
  BY DEF IInv, CallInv, Placed, Suits
<1> QED BY <1>1, <1>2, <1>3, Undone

LEMMA ReserveHarmless ==
  ASSUME IInv, Harmless, Grow, NEW i \in Invocation, Reserve(i)
  PROVE  Harmless'
<1>1. /\ inv[i].pc = "reserve"
      /\ UNCHANGED <<ledger, binding, object, flying, online, ptr, op, job, admitted>>
  BY DEF Reserve, world
<1>2. inv[i].slot = 1 /\ attempt[1] = "NONE"
  BY <1>1, AtSlot DEF Harmless, OneInvocation, Unhindered
<1>3. attempt' = [attempt EXCEPT ![1] = "RESERVED"] /\ Goto(i, "launch")
  BY <1>2 DEF Reserve
<1>4. ledger'[inv[i].task].state # "COMPLETED"
  BY <1>1, AtSlot
<1>5. PICK c \in Call : Continues(i, c) /\ Unhindered(c)' /\ inv'[i].pc = "launch"
  <2>1. \E c \in Call : Continues(i, c) /\ Unhindered(c)'
    BY <1>1, <1>3, <1>4, GotoFree, PhaseSet
  <2>2. inv'[i].pc = "launch"
    BY <1>3, PhaseSet DEF Goto, Step, IInv, TypeInv, Call
  <2> QED BY <2>1, <2>2
<1>6. OneInvocation' /\ OneExecution'
  BY <1>1, <1>5, OneContinues
<1>7. OneLaunch'
  <2>1. attempt'[1] = "RESERVED" /\ \A n \in Slot \ {1} : attempt'[n] = "NONE"
    BY <1>3, FirstSlot DEF Harmless, OneLaunch, IInv, TypeInv, TableInv
  <2> QED BY <1>1, <1>5, <2>1, LaunchKeeps DEF Harmless
<1>8. OneOwner' /\ RightObjects' /\ NothingLapsed'
  BY <1>1, OwnerKept, ObjectsKept DEF Harmless, NothingLapsed
<1> QED BY <1>6, <1>7, <1>8 DEF Harmless

LEMMA NoteLaunchHarmless ==
  ASSUME IInv, Harmless, Grow, NEW i \in Invocation, NoteLaunch(i)
  PROVE  Harmless'
<1>1. /\ inv[i].pc = "note"
      /\ UNCHANGED <<ledger, binding, object, flying, online, ptr, op, job, admitted>>
  BY DEF NoteLaunch, world
<1>2. PICK t : t = inv[i].task
  OBVIOUS
<1>3. inv[i].slot = 1 /\ t = "START_GLUE" /\ ledger'[t].state # "COMPLETED"
  BY <1>1, <1>2, AtSlot
<1>4. attempt' = [attempt EXCEPT ![1] = "COMPLETED"] /\ Finish(i, 1)
  BY <1>3 DEF NoteLaunch
<1>5. job[1].state # "NONE"
  BY <1>1 DEF Harmless, OneInvocation, Unhindered
<1>6. Made(t, 1)'
  BY <1>1, <1>3, <1>5 DEF Made
<1>7. 1 \in Outcome
  BY FirstSlot, TaskSet, OutcomeOf DEF Results
<1>8. \E c \in Call : Continues(i, c) /\ Unhindered(c)'
  BY <1>1, <1>2, <1>3, <1>4, <1>6, <1>7, FinishFree
<1>9. OneInvocation' /\ OneExecution'
  BY <1>1, <1>8, OneContinues
<1>10. OneLaunch'
  <2>1. attempt'[1] = "COMPLETED" /\ \A n \in Slot \ {1} : attempt'[n] = "NONE"
    BY <1>4, FirstSlot DEF Harmless, OneLaunch, IInv, TypeInv, TableInv
  <2> QED BY <1>1, <1>5, <2>1, LaunchKeeps DEF Harmless
<1>11. OneOwner' /\ RightObjects' /\ NothingLapsed'
  BY <1>1, OwnerKept, ObjectsKept DEF Harmless, NothingLapsed
<1> QED BY <1>9, <1>10, <1>11 DEF Harmless

LEMMA LaunchHarmless ==
  ASSUME IInv, Harmless, Grow, NEW i \in Invocation, Launch(i), ~ harmed'
  PROVE  Harmless'
<1>1. /\ inv[i].pc = "launch"
      /\ UNCHANGED <<ledger, binding, attempt, object, flying, online, ptr, op, admitted>>
  BY DEF Launch, durable
<1>2. inv[i].slot = 1 /\ inv[i].task = "START_GLUE" /\ ledger'[inv[i].task].state # "COMPLETED"
  BY <1>1, AtSlot
<1>3. attempt[1] = "RESERVED" /\ job[1].state = "NONE"
  BY <1>1, <1>2, FirstSlot DEF IInv, LaunchInv
<1>4. Running = {}
  <2>1. \A n \in Slot : job[n].state = "NONE"
    BY <1>3 DEF Harmless, OneLaunch, IInv, LaunchInv, TypeInv, TableInv
  <2> QED BY <2>1 DEF Running
<1>5. ~ Fault(TRUE)
  BY DEF Fault
<1>6. job' = [job EXCEPT ![1].state = "RUNNING"] /\ Goto(i, "note")
  BY <1>2, <1>4, <1>5 DEF Launch
<1>7. job[1] = NoJob
  BY <1>3 DEF Harmless, OneLaunch, Progress
<1>8. /\ job'[1].state = "RUNNING" /\ job'[1].at = 1 /\ job'[1].pc = "put" /\ job'[1].try = 1
  BY <1>6, <1>7, FirstSlot DEF NoJob, IInv, TypeInv, TableInv
<1>9. OneLaunch'
  <2>1. Progress(job[1])'
    BY <1>8 DEF Progress, Grow
  <2>2. inv'[i].pc = "note"
    BY <1>6, PhaseSet DEF Goto, Step, IInv, TypeInv, Call
  <2> QED BY <1>1, <1>3, <2>1, <2>2 DEF Harmless, OneLaunch
<1>10. \E c \in Call : Continues(i, c) /\ Unhindered(c)'
  BY <1>1, <1>2, <1>6, <1>8, GotoFree, PhaseSet
<1>11. OneInvocation' /\ OneExecution'
  BY <1>1, <1>10, OneContinues
<1>12. OneOwner' /\ RightObjects' /\ NothingLapsed'
  BY <1>1, OwnerKept, ObjectsKept DEF Harmless, NothingLapsed
<1> QED BY <1>9, <1>11, <1>12 DEF Harmless

----------------------------------------------------------------------------
(* The ledger.                                                             *)

LEMMA OwnerSet ==
  ASSUME OneOwner, Grow, UNCHANGED binding, NEW t \in Task,
         \A s \in Task \ {t} : ledger'[s] = ledger[s],
         NEW e, e = ledger'[t].owner, Alive(e), ledger'[t].state # "ABSENT",
         NEW r, r = ledger'[t].result, ledger'[t].state = "COMPLETED" => Made(t, r)'
  PROVE  OneOwner'
<1>1. Alive(e)'
  BY DEF Grow, Alive
<1>2. ASSUME NEW s \in Task
      PROVE  /\ IF ledger'[s].state = "ABSENT" THEN ledger'[s].owner = None
                ELSE Alive(ledger[s].owner)'
             /\ Done(s)' => Made(s, ResultOf(s))'
  <2>1. CASE s = t
    BY <1>1, <2>1 DEF Done, ResultOf, Made, Alive
  <2>2. CASE s # t
    <3>1. PICK d : d = ledger[s].owner
      OBVIOUS
    <3>2. PICK q : q = ledger[s].result
      OBVIOUS
    <3>3. Alive(d) => Alive(d)'
      BY DEF Grow, Alive
    <3>4. Done(s) => Made(s, q)'
      BY <3>2, MadeStable DEF OneOwner, ResultOf
    <3> QED BY <2>2, <3>1, <3>2, <3>3, <3>4 DEF OneOwner, Done, ResultOf, Alive
  <2> QED BY <2>1, <2>2
<1>3. binding' = None \/ Alive(binding)'
  BY DEF OneOwner, Alive, Grow
<1> QED BY <1>2, <1>3 DEF OneOwner

(* No task but an ineligible PARITY leads to the quarantine.               *)
LEMMA AfterFree ==
  ASSUME NEW t \in Task, NEW r, t = "PARITY" => r = "ELIGIBLE"
  PROVE  After(t, r) \notin {"QUARANTINED", "TIMED_OUT"}
<1>1. After(t, r) = Succ[t]
  BY DEF After
<1> QED BY <1>1, TaskSet DEF Succ

(* The invocation answers, and the machine advances.                       *)
LEMMA ReturnHarmless ==
  ASSUME IInv, Harmless, Grow, NEW i \in Invocation,
         inv[i].pc \notin {"idle", "launch", "note"},
         NEW r, Return(i, r), inv[i].task = "PARITY" => r = "ELIGIBLE",
         UNCHANGED <<attempt, job, object, flying, online, ptr, op, admitted>>, OneOwner'
  PROVE  Harmless'
<1>1. PICK e \in Exec : /\ e = inv[i].exec /\ Alive(e) /\ sf[e].inv = i
                        /\ \A d \in Exec : Alive(d) => d = e
  BY Named
<1>2. PICK t \in Task : t = inv[i].task
  BY DEF IInv, CallInv, Called
<1>3. inv' = [inv EXCEPT ![i] = Idle] /\ Advance(e, t, r)
  BY <1>1, <1>2 DEF Return, Heard
<1>4. /\ sf'[e].at = After(t, r) /\ sf'[e].tries = 0
      /\ \A d \in Exec \ {e} : sf'[d] = sf[d]
  BY <1>3, AdvanceIs DEF IInv
<1>5. After(t, r) \notin {"QUARANTINED", "TIMED_OUT"}
  BY <1>2, AfterFree
<1>6. OneExecution'
  <2>1. \A d \in Exec : Alive(d)' => d = e
    BY <1>1, <1>4 DEF Alive
  <2>2. \A d \in Exec : sf'[d].at \notin {"QUARANTINED", "TIMED_OUT"} /\ sf'[d].tries <= faults'
    BY <1>4, <1>5 DEF Harmless, OneExecution, Grow, IInv, TypeInv, Execution
  <2> QED BY <2>1, <2>2 DEF OneExecution
<1>7. OneInvocation'
  <2>1. \A j \in Invocation \ {i} : inv[j].pc = "idle"
    BY Sole DEF Harmless
  <2>2. \A j \in Invocation : inv'[j].pc = "idle"
    BY <1>3, <2>1, IdleIs DEF IInv, TypeInv
  <2> QED BY <2>2 DEF OneInvocation
<1>8. OneLaunch'
  <2>1. attempt[1] # "RESERVED"
    BY NotReserved
  <2> QED BY <2>1, LaunchKeeps DEF Harmless, OneLaunch
<1>9. NothingLapsed' /\ RightObjects'
  BY ObjectsKept DEF Harmless, NothingLapsed
<1> QED BY <1>6, <1>7, <1>8, <1>9 DEF Harmless

LEMMA BeginTaskHarmless ==
  ASSUME IInv, Harmless, Quiet, Grow, NEW i \in Invocation, BeginTask(i)
  PROVE  Harmless'
<1>1. /\ inv[i].pc = "begin"
      /\ UNCHANGED <<binding, attempt, object, flying, online, ptr, op, job, admitted>>
  BY DEF BeginTask, LedgerOnly, world
<1>2. Called(inv[i]) /\ Placed(inv[i]) /\ Unhindered(inv[i])
  BY <1>1 DEF IInv, CallInv, Harmless, OneInvocation
<1>3. PICK t \in Task : t = inv[i].task
  BY <1>2 DEF Called
<1>4. PICK e \in Exec :
        /\ e = inv[i].exec /\ Alive(e)
        /\ \A s \in Task : IF ledger[s].state = "ABSENT" THEN ledger[s].owner = None
                           ELSE ledger[s].owner = e
  BY <1>1, Named
<1> DEFINE started == IF t = "VALIDATE" THEN Finish(i, <<e, inv[i].reading>>)
                      ELSE Goto(i, "execute")
<1>5. ledger \in [Task -> Entry]
  BY DEF IInv, TypeInv, TableInv
<1>6. \/ /\ ledger[t].state = "ABSENT" /\ started
         /\ ledger' = [ledger EXCEPT ![t] = [Free EXCEPT !.state = "STARTED", !.owner = e]]
      \/ ledger[t].state # "ABSENT" /\ UNCHANGED ledger /\ Done(t) /\ Return(i, ResultOf(t))
      \/ ledger[t].state # "ABSENT" /\ UNCHANGED ledger /\ ~ Done(t) /\ started
  <2>1. ledger[t].state # "ABSENT" => ledger[t].owner = e
    BY <1>4
  <2> QED BY <1>3, <1>4, <2>1 DEF BeginTask, Begin
<1>7. ASSUME started, ledger'[t].state # "COMPLETED"
      PROVE  \E c \in Call : Continues(i, c) /\ Unhindered(c)'
  <2>1. CASE t = "VALIDATE"
    <3>1. inv[i].reading \in Reading
      BY <1>1, <1>2, <1>3, <2>1 DEF Placed
    <3> DEFINE p == <<e, inv[i].reading>>
    <3>2. p \in Exec \X Reading
      BY <3>1
    <3>3. Finish(i, p)
      BY <1>7, <2>1
    <3> HIDE DEF p
    <3>4. PICK r \in Exec \X Reading : r = p
      BY <3>2
    <3>5. r \in Outcome
      BY <2>1, OutcomeOf DEF Results
    <3>6. Made(t, r)'
      BY <1>1, <1>2, <1>3, <2>1 DEF Unhindered, Made
    <3> QED BY <1>1, <1>3, <1>7, <3>3, <3>4, <3>5, <3>6, FinishFree
  <2>2. CASE t # "VALIDATE"
    BY <1>1, <1>3, <1>7, <2>2, GotoFree, PhaseSet
  <2> QED BY <2>1, <2>2
<1>8. NothingLapsed' /\ RightObjects'
  BY <1>1, ObjectsKept DEF Harmless, NothingLapsed
<1>9. CASE /\ ledger[t].state = "ABSENT" /\ started
           /\ ledger' = [ledger EXCEPT ![t] = [Free EXCEPT !.state = "STARTED", !.owner = e]]
  <2>1. PICK row \in Entry :
          /\ row.state = "STARTED" /\ row.owner = e
          /\ ledger' = [ledger EXCEPT ![t] = row]
    <3>1. ledger' = [ledger EXCEPT ![t] = [Free EXCEPT !.state = "STARTED", !.owner = e]]
      BY <1>9
    <3> QED BY <3>1, StartedRow
  <2>2. /\ ledger'[t].state = "STARTED" /\ ledger'[t].owner = e
        /\ \A s \in Task \ {t} : ledger'[s] = ledger[s]
    BY <1>5, <2>1
  <2>3. OneOwner'
    <3>1. PICK r : r = ledger'[t].result
      OBVIOUS
    <3> QED BY <1>1, <1>4, <2>2, <3>1, OwnerSet DEF Harmless
  <2>4. \E c \in Call : Continues(i, c) /\ Unhindered(c)'
    BY <1>7, <1>9, <2>2
  <2> QED BY <1>1, <1>8, <2>3, <2>4, GoesOn
<1>10. CASE ledger[t].state # "ABSENT" /\ UNCHANGED ledger /\ ~ Done(t) /\ started
  <2>1. OneOwner'
    BY <1>1, <1>10, OwnerKept DEF Harmless
  <2>2. \E c \in Call : Continues(i, c) /\ Unhindered(c)'
    BY <1>7, <1>10 DEF Done
  <2> QED BY <1>1, <1>8, <2>1, <2>2, GoesOn
<1>11. CASE ledger[t].state # "ABSENT" /\ UNCHANGED ledger /\ Done(t) /\ Return(i, ResultOf(t))
  <2>1. OneOwner'
    BY <1>1, <1>11, OwnerKept DEF Harmless
  <2>2. PICK r : r = ResultOf(t)
    OBVIOUS
  <2>3. t = "PARITY" => r = "ELIGIBLE"
    <3>1. Evidence(t, ledger[t].owner, ledger[t].result)
      BY <1>11 DEF IInv, LedgerInv, Grounded
    <3> QED BY <2>2, <3>1 DEF Evidence, ResultOf, Decision, Quiet
  <2> QED BY <1>1, <1>3, <1>11, <2>1, <2>2, <2>3, ReturnHarmless
<1> QED BY <1>6, <1>9, <1>10, <1>11

LEMMA CompleteTaskHarmless ==
  ASSUME IInv, Harmless, Quiet, Grow, NEW i \in Invocation, CompleteTask(i)
  PROVE  Harmless'
<1>1. /\ inv[i].pc = "complete"
      /\ UNCHANGED <<binding, attempt, object, flying, online, ptr, op, job, admitted>>
  BY DEF CompleteTask, LedgerOnly, world
<1>2. Called(inv[i]) /\ Placed(inv[i]) /\ Unhindered(inv[i])
  BY <1>1 DEF IInv, CallInv, Harmless, OneInvocation
<1>3. PICK t \in Task : t = inv[i].task
  BY <1>2 DEF Called
<1>4. PICK e : e = inv[i].exec
  OBVIOUS
<1>5. PICK r : r = inv[i].out
  OBVIOUS
<1>6. /\ ledger[t].state # "ABSENT" /\ ledger[t].owner = e /\ Alive(e)
      /\ Evidence(t, e, r) /\ Made(t, r) /\ ~ Done(t)
  BY <1>1, <1>2, <1>3, <1>4, <1>5 DEF Placed, Unhindered, Begun
<1>7. ledger \in [Task -> Entry] /\ r \in Outcome
  BY <1>6 DEF IInv, TypeInv, TableInv, Evidence, Outcome
<1>8. /\ Return(i, r)
      /\ ledger' = [ledger EXCEPT ![t].state = "COMPLETED", ![t].result = r]
  <2>1. Complete(t, r, Return(i, r), Raise(i))
    BY <1>3, <1>5 DEF CompleteTask
  <2> QED BY <1>6, <2>1, Zenon DEF Complete
<1>9. PICK row \in Entry :
        /\ row.state = "COMPLETED" /\ row.owner = e /\ row.result = r
        /\ ledger' = [ledger EXCEPT ![t] = row]
  <2>1. \E row \in Entry : /\ row.state = "COMPLETED" /\ row.owner = ledger[t].owner
                          /\ row.result = r /\ ledger' = [ledger EXCEPT ![t] = row]
    BY <1>7, <1>8, CompletedRow
  <2> QED BY <1>6, <2>1
<1>10. /\ ledger'[t] = row /\ \A s \in Task \ {t} : ledger'[s] = ledger[s]
  BY <1>7, <1>9
<1>11. Made(t, r)'
  BY <1>6, MadeStable
<1>12. OneOwner'
  BY <1>1, <1>6, <1>9, <1>10, <1>11, OwnerSet DEF Harmless
<1>13. t = "PARITY" => r = "ELIGIBLE"
  BY <1>6 DEF Evidence, Decision, Quiet
<1> QED BY <1>1, <1>3, <1>8, <1>12, <1>13, ReturnHarmless

----------------------------------------------------------------------------
(* The machine, and the faults that retries make good.                     *)

(* When no invocation is under way, no slot is reserved.                   *)
LEMMA NoneUnderWay ==
  ASSUME OneLaunch, \A i \in Invocation : inv[i].pc = "idle"
  PROVE  attempt[1] # "RESERVED"
BY DEF OneLaunch

LEMMA AllIdle ==
  ASSUME IInv, Harmless, NEW e \in Exec,
         \/ \A d \in Exec : ~ Alive(d)
         \/ Alive(e) /\ sf[e].inv = None
  PROVE  \A i \in Invocation : inv[i].pc = "idle" /\ inv[i] = Idle
<1> SUFFICES ASSUME NEW i \in Invocation, inv[i].pc # "idle" PROVE FALSE
  BY DEF IInv, CallInv
<1>1. PICK d \in Exec : Alive(d) /\ sf[d].inv = i /\ \A c \in Exec : Alive(c) => c = d
  BY Named
<1> QED BY <1>1, NoneAssumption

LEMMA SubmitHarmless ==
  ASSUME IInv, Harmless, Grow, NEW e \in Exec, Submit(e), ~ harmed'
  PROVE  Harmless'
<1>1. /\ sf[e].at = "ABSENT" /\ sf' = [sf EXCEPT ![e].at = "VALIDATE"]
      /\ UNCHANGED <<inv, ledger, binding, attempt, object, flying, online, ptr, op, job,
                     admitted, faults>>
  BY DEF Submit, durable
<1>2. ~ \E d \in Exec \ {e} : sf[d].at # "ABSENT"
  BY Zenon DEF Submit
<1>3. \A d \in Exec : ~ Alive(d)
  BY <1>1, <1>2 DEF Alive
<1>4. \A i \in Invocation : inv[i].pc = "idle"
  BY <1>3, AllIdle
<1>5. /\ sf'[e].at = "VALIDATE" /\ sf'[e].tries = sf[e].tries
      /\ \A d \in Exec \ {e} : sf'[d] = sf[d]
  BY <1>1 DEF IInv, TypeInv, Execution
<1>6. OneExecution'
  <2>1. \A d \in Exec : Alive(d)' => d = e
    BY <1>2, <1>5 DEF Alive
  <2>2. \A d \in Exec : sf'[d].at \notin {"QUARANTINED", "TIMED_OUT"} /\ sf'[d].tries <= faults'
    BY <1>1, <1>5 DEF Harmless, OneExecution
  <2> QED BY <2>1, <2>2 DEF OneExecution
<1>7. OneInvocation'
  BY <1>1, <1>4 DEF OneInvocation
<1>8. OneLaunch'
  BY <1>1, <1>4, NoneUnderWay, LaunchKeeps DEF Harmless, OneLaunch
<1>9. OneOwner' /\ RightObjects' /\ NothingLapsed'
  BY <1>1, OwnerKept, ObjectsKept DEF Harmless, NothingLapsed
<1> QED BY <1>6, <1>7, <1>8, <1>9 DEF Harmless

LEMMA InvokeHarmless ==
  ASSUME IInv, Harmless, Grow, NEW e \in Exec, Invoke(e)
  PROVE  Harmless'
<1>1. /\ sf[e].at \in Task /\ sf[e].inv = None
      /\ UNCHANGED <<ledger, binding, attempt, object, flying, online, ptr, op, job,
                     admitted, faults>>
  BY DEF Invoke, Waiting, NothingWritten, durable, world
<1>2. Alive(e)
  BY <1>1, TaskSet DEF Alive
<1>3. \A i \in Invocation : inv[i].pc = "idle" /\ inv[i] = Idle
  BY <1>1, <1>2, AllIdle
<1>4. PICK pc \in {"precheck", "prior"} :
        pc = IF sf[e].at = "VALIDATE" THEN "precheck" ELSE "prior"
  OBVIOUS
<1>5. PICK t \in Task : t = sf[e].at
  BY <1>1
<1> DEFINE x == [Idle EXCEPT !.exec = e, !.task = t, !.pc = pc]
<1>6. PICK i \in Invocation :
        inv' = [inv EXCEPT ![i] = x] /\ sf' = [sf EXCEPT ![e].inv = i]
  BY <1>4, <1>5 DEF Invoke
<1>7. x.exec = e /\ x.task = t /\ x.pc = pc /\ x.slot = 1 /\ x.try = 1
  BY DEF Idle
<1> HIDE DEF x
<1>8. inv'[i] = x /\ \A j \in Invocation \ {i} : inv'[j].pc = "idle"
  BY <1>3, <1>6 DEF IInv, TypeInv
<1>9. /\ sf'[e].at = sf[e].at /\ sf'[e].tries = sf[e].tries /\ sf'[e].inv = i
      /\ \A d \in Exec \ {e} : sf'[d] = sf[d]
  BY <1>6 DEF IInv, TypeInv, Execution
<1>10. OneExecution'
  BY <1>1, <1>9 DEF Harmless, OneExecution, Alive
<1>11. OneInvocation'
  <2>1. Heard(i)'
    BY <1>7, <1>8, <1>9 DEF Heard
  <2>2. PICK c : c = x
    OBVIOUS
  <2>3. Alive(c.exec)'
    BY <1>2, <1>7, <2>2 DEF Grow
  <2>4. c.try <= faults' + 1
    BY <1>7, <2>2 DEF Grow
  <2>5. Unhindered(c)'
    BY <1>7, <2>2, <2>3, <2>4 DEF Unhindered, Begun
  <2>6. Unhindered(inv[i])'
    BY <1>8, <2>2, <2>5 DEF Unhindered, Done, Made, Alive
  <2> QED BY <1>8, <2>1, <2>6 DEF OneInvocation
<1>12. OneLaunch'
  BY <1>1, <1>3, NoneUnderWay, LaunchKeeps DEF Harmless, OneLaunch
<1>13. OneOwner' /\ RightObjects' /\ NothingLapsed'
  BY <1>1, OwnerKept, ObjectsKept DEF Harmless, NothingLapsed
<1> QED BY <1>10, <1>11, <1>12, <1>13 DEF Harmless

(* Nobody is throttled: what occupies the concurrency is heard.            *)
LEMMA NotThrottled ==
  ASSUME IInv, Harmless, Invocation # {}, NEW e \in Exec, Throttle(e)
  PROVE  FALSE
<1>1. sf[e].at \in Task /\ sf[e].inv = None /\ \A i \in Invocation : inv[i] # Idle
  BY DEF Throttle, Waiting
<1>2. Alive(e)
  BY <1>1, TaskSet DEF Alive
<1> QED BY <1>1, <1>2, AllIdle

LEMMA PollHarmless ==
  ASSUME IInv, Harmless, Grow, NEW e \in Exec, Poll(e)
  PROVE  Harmless'
<1>1. /\ sf[e].at = "WAIT"
      /\ UNCHANGED <<inv, ledger, binding, attempt, object, flying, online, ptr, op, job,
                     admitted, faults>>
  BY DEF Poll, NothingWritten, durable, world
<1>2. sf[e].job = ResultOf("START_GLUE") /\ Done("START_GLUE") /\ "START_GLUE" \in Task
  BY <1>1, BeforeIs, TaskSet DEF IInv, CarriedInv, Behind
<1>3. sf[e].job = 1 /\ job[1].state # "NONE"
  BY <1>2 DEF Harmless, OneOwner, Made
<1>4. job[1].state # "FAILED"
  BY DEF Harmless, OneLaunch, Progress
<1>5. sf' = [sf EXCEPT ![e].at = "RECORD_GLUE"]
  BY <1>3, <1>4 DEF Poll
<1>6. /\ sf'[e].at = "RECORD_GLUE" /\ sf'[e].tries = sf[e].tries /\ sf'[e].inv = sf[e].inv
      /\ \A d \in Exec \ {e} : sf'[d] = sf[d]
  BY <1>5 DEF IInv, TypeInv, Execution
<1>7. OneExecution'
  BY <1>1, <1>6 DEF Harmless, OneExecution, Alive
<1>8. sf[e].inv = None
  <2>1. ASSUME sf[e].inv # None PROVE FALSE
    <3>1. PICK i \in Invocation : i = sf[e].inv
      BY <2>1 DEF IInv, TypeInv, Execution
    <3>2. inv[i].pc # "idle" /\ inv[i].task = "WAIT"
      BY <1>1, <2>1, <3>1 DEF IInv, HeardInv
    <3>3. inv[i].task \in Task
      BY <3>2 DEF IInv, CallInv, Called
    <3> QED BY <3>2, <3>3, TaskSet
  <2> QED BY <2>1
<1>9. \A i \in Invocation : inv[i].pc = "idle"
  BY <1>1, <1>8, AllIdle DEF Alive
<1>10. OneInvocation'
  BY <1>1, <1>9 DEF OneInvocation
<1>11. OneLaunch'
  BY <1>1, <1>9, NoneUnderWay, LaunchKeeps DEF Harmless, OneLaunch
<1>12. OneOwner' /\ RightObjects' /\ NothingLapsed'
  BY <1>1, OwnerKept, ObjectsKept DEF Harmless, NothingLapsed
<1> QED BY <1>7, <1>10, <1>11, <1>12 DEF Harmless

LEMMA CrashHarmless ==
  ASSUME WithinBudget, IInv, Harmless, Grow, NEW i \in Invocation, Crash(i), ~ harmed'
  PROVE  Harmless'
<1>1. /\ inv[i].pc # "idle" /\ faults' = faults + 1 /\ faults < MaxFaults
      /\ UNCHANGED <<ledger, binding, attempt, object, flying, online, ptr, op, job, admitted>>
  BY NotIdle DEF Crash, Fault, durable
<1>2. inv[i].pc \notin {"launch", "note"}
  BY Zenon DEF Crash, Fault
<1>3. PICK e \in Exec : /\ e = inv[i].exec /\ Alive(e) /\ sf[e].inv = i
                        /\ \A d \in Exec : Alive(d) => d = e
  BY <1>1, Named
<1>4. inv' = [inv EXCEPT ![i] = Idle] /\ Retry(e)
  BY <1>3 DEF Crash, RaiseRetryable, Heard
<1>5. sf[e].tries < MaxRetries
  <2>1. sf[e].tries \in Nat /\ faults \in Nat
    BY BoundAssumption DEF IInv, TypeInv, Execution, Grow
  <2> QED BY <1>1, <2>1, BoundAssumption DEF Harmless, OneExecution, WithinBudget
<1>6. /\ sf'[e].at = sf[e].at /\ sf'[e].tries = sf[e].tries + 1
      /\ \A d \in Exec \ {e} : sf'[d] = sf[d]
  BY <1>4, <1>5, RetryIs DEF IInv
<1>7. OneExecution'
  <2>1. \A d \in Exec : sf[d].tries \in Nat /\ sf[d].tries <= faults /\ faults \in Nat
    BY BoundAssumption DEF IInv, TypeInv, Execution, Grow, Harmless, OneExecution
  <2> QED BY <1>1, <1>6, <2>1 DEF Harmless, OneExecution, Alive
<1>8. \A j \in Invocation : inv'[j].pc = "idle"
  <2>1. \A j \in Invocation \ {i} : inv[j].pc = "idle"
    BY <1>1, Sole DEF Harmless
  <2> QED BY <1>4, <2>1, IdleIs DEF IInv, TypeInv
<1>9. OneInvocation'
  BY <1>8 DEF OneInvocation
<1>10. OneLaunch'
  <2>1. attempt[1] # "RESERVED"
    BY <1>1, <1>2, NotReserved
  <2> QED BY <1>1, <2>1, LaunchKeeps DEF Harmless, OneLaunch
<1>11. OneOwner' /\ RightObjects' /\ NothingLapsed'
  BY <1>1, OwnerKept, ObjectsKept DEF Harmless, NothingLapsed
<1> QED BY <1>7, <1>9, <1>10, <1>11 DEF Harmless

----------------------------------------------------------------------------
(* The job and the objects.                                                *)

LEMMA UnhinderedStable ==
  ASSUME Grow, UNCHANGED <<ledger, attempt>>, NEW c \in Call, Unhindered(c)
  PROVE  Unhindered(c)'
<1>1. Alive(c.exec)'
  BY DEF Unhindered, Grow, Alive
<1>2. c.pc = "complete" => Made(c.task, c.out)'
  BY MadeStable DEF Unhindered
<1>3. /\ c.try \in Nat /\ faults \in Nat /\ faults' \in Nat /\ faults <= faults'
      /\ \A k \in Key : object[k] # Missing => object'[k] # Missing
      /\ job[1].state # "NONE" => job'[1].state # "NONE"
  BY BoundAssumption, FirstSlot DEF Grow, Monotone, Call
<1>4. object["expected-state"] # Missing => object'["expected-state"] # Missing
  BY <1>3 DEF Key
<1>5. object["parity-report"] # Missing => object'["parity-report"] # Missing
  BY <1>3 DEF Key
<1>6. c.try <= faults' + 1 /\ (c.try <= faults => c.try <= faults')
  BY <1>3 DEF Unhindered
<1> QED BY <1>1, <1>2, <1>3, <1>4, <1>5, <1>6 DEF Unhindered, Done

(* Something other than the machine and its invocations makes a step.      *)
LEMMA OutsideHarmless ==
  ASSUME IInv, Harmless, Grow,
         UNCHANGED <<sf, inv, ledger, binding, attempt, online, ptr, op, admitted>>,
         Progress(job[1])', RightObjects'
  PROVE  Harmless'
<1>1. OneExecution'
  BY ExecutionKept DEF Harmless, IInv
<1>2. OneInvocation'
  <2> SUFFICES ASSUME NEW i \in Invocation, inv[i].pc # "idle"
               PROVE  Heard(i)' /\ Unhindered(inv[i])'
    BY DEF OneInvocation
  <2>1. PICK c \in Call : c = inv[i]
    BY DEF IInv, TypeInv
  <2>2. Unhindered(c)'
    BY <2>1, UnhinderedStable DEF Harmless, OneInvocation
  <2>3. Unhindered(inv[i])'
    BY <2>1, <2>2 DEF Unhindered, Done, Made, Alive
  <2> QED BY <2>3 DEF Harmless, OneInvocation, Heard
<1>3. OneLaunch'
  BY FirstSlot DEF Harmless, OneLaunch, Grow
<1>4. OneOwner' /\ NothingLapsed'
  BY OwnerKept DEF Harmless, NothingLapsed
<1> QED BY <1>1, <1>2, <1>3, <1>4 DEF Harmless

LEMMA JobStepHarmless ==
  ASSUME WithinBudget, IInv, Harmless, Grow, NEW n \in Slot, JobStep(n)
  PROVE  Harmless'
<1>1. /\ job[n].state = "RUNNING"
      /\ UNCHANGED <<sf, inv, ledger, binding, attempt, online, ptr, op, admitted>>
  BY DEF JobStep
<1>2. n = 1
  <2>1. \A m \in Slot \ {1} : job[m].state = "NONE"
    BY DEF Harmless, OneLaunch, IInv, LaunchInv, TypeInv, TableInv
  <2> QED BY <1>1, <2>1
<1>3. PICK x \in JobRun : x = job[1] /\ x.state = "RUNNING" /\ Progress(x)
  BY <1>1, <1>2 DEF IInv, TypeInv, TableInv, Harmless, OneLaunch
<1>4. PICK k \in Key : k = Outputs[x.at]
  BY <1>2, <1>3, JobAt DEF IInv, TypeInv
<1>5. PICK body : body = Body(1)
  OBVIOUS
<1>6. \A y : Right(k, y) <=> y = body
  BY <1>3, <1>4, <1>5 DEF Body, Right, Outputs, JobRun
<1>7. PutTables(k, body)
  BY <1>2, <1>3, <1>4, <1>5 DEF JobStep, Put, Reconcile, PutTables
<1>8. RightObjects'
  BY <1>6, <1>7, PutRight DEF IInv, TypeInv, Harmless
<1>9. /\ object[k] # Missing => object[k].body = body
      /\ Create(k, body) => object'[k] # Missing
  BY <1>6, PutFree DEF IInv, TypeInv, Harmless
<1>10. /\ x.try \in Nat /\ faults \in 0..MaxFaults /\ faults' \in Nat /\ faults <= faults'
       /\ x.try <= faults + 1
       /\ x.pc = "reconcile" /\ object[k] = Missing => x.try <= faults
  <2>1. x.try \in Nat /\ faults \in 0..MaxFaults
    BY BoundAssumption DEF IInv, TypeInv, TableInv, JobRun
  <2> QED BY <1>3, <1>4, <2>1 DEF Progress, Grow
<1>11. \/ Published(1) /\ object'[k] # Missing
       \/ /\ job' = [job EXCEPT ![1].pc = "reconcile"]
          /\ object'[k] # Missing \/ x.try <= faults'
       \/ /\ job' = [job EXCEPT ![1].pc = "put", ![1].try = @ + 1]
          /\ x.try <= faults /\ x.try # MaxAttempts
  <2>1. CASE x.pc = "put"
    <3>1. Put(k, body, Published(1), job' = [job EXCEPT ![1].pc = "reconcile"])
      BY <1>2, <1>3, <1>4, <1>5, <2>1 DEF JobStep
    <3>2. CASE Fault(FALSE) /\ job' = [job EXCEPT ![1].pc = "reconcile"]
      BY <1>10, <3>2 DEF Fault
    <3>3. CASE Create(k, body) /\ Published(1)
      BY <1>9, <3>3
    <3>4. CASE object[k] # Missing /\ job' = [job EXCEPT ![1].pc = "reconcile"] /\ UNCHANGED object
      BY <3>4
    <3> QED BY <3>1, <3>2, <3>3, <3>4 DEF Put
  <2>2. CASE x.pc = "reconcile"
    <3>1. Reconcile(k, body, x.try, Published(1),
                    job' = [job EXCEPT ![1].pc = "put", ![1].try = @ + 1], Failed(1))
      BY <1>2, <1>3, <1>4, <1>5, <2>2 DEF JobStep
    <3>2. CASE object[k] = Missing
      <4>1. x.try <= faults /\ x.try # MaxAttempts
        BY <1>10, <2>2, <3>2, BoundAssumption DEF WithinBudget
      <4> QED BY <3>1, <3>2, <4>1 DEF Reconcile
    <3>3. CASE object[k] # Missing
      BY <1>9, <3>1, <3>3 DEF Reconcile
    <3> QED BY <3>2, <3>3
  <2> QED BY <1>3, <2>1, <2>2 DEF JobRun
<1>12. /\ \A m \in 1..3 : m < x.at => object'[Outputs[m]] # Missing
       /\ x.at \in 1..3 /\ Len(Outputs) = 3
  <2>1. \A m \in 1..3 : Outputs[m] \in Key
    BY DEF Outputs, Key
  <2> QED BY <1>3, <2>1 DEF Progress, Grow, Monotone, JobRun, Outputs
<1>13. job \in [Slot -> JobRun] /\ 1 \in Slot
  BY FirstSlot DEF IInv, TypeInv, TableInv
<1>14. 1 <= faults' + 1
  <2>1. \A f \in Nat : 1 <= f + 1
    OBVIOUS
  <2> QED BY <2>1, Zenon DEF Grow
<1>15. Progress(job[1])'
  <2>1. CASE Published(1) /\ object'[k] # Missing
    <3>1. CASE x.at = 3
      <4>1. job' = [job EXCEPT ![1] = [NoJob EXCEPT !.state = "SUCCEEDED"]]
        BY <1>3, <1>12, <2>1, <3>1 DEF Published
      <4>2. job'[1].state = "SUCCEEDED"
        BY <1>13, <4>1 DEF NoJob
      <4>3. job'[1].try = 1
        BY <1>13, <4>1 DEF NoJob
      <4>4. \A m \in 1..3 : object'[Outputs[m]] # Missing
        BY <1>4, <1>12, <2>1, <3>1
      <4>5. job'[1].try <= faults' + 1
        BY <1>14, <4>3
      <4> QED BY <4>2, <4>4, <4>5 DEF Progress
    <3>2. CASE x.at # 3
      <4>1. PICK a \in 1..3 : a = x.at + 1
        BY <1>12, <3>2
      <4>2. job' = [job EXCEPT ![1] = [NoJob EXCEPT !.state = "RUNNING", !.at = a]]
        BY <1>3, <1>12, <2>1, <3>2, <4>1 DEF Published
      <4>3. job'[1].state = "RUNNING" /\ job'[1].pc = "put" /\ job'[1].at = a
        BY <1>13, <4>2 DEF NoJob
      <4>4. job'[1].try = 1
        BY <1>13, <4>2 DEF NoJob
      <4>5. \A m \in 1..3 : m < a => object'[Outputs[m]] # Missing
        BY <1>4, <1>12, <2>1, <4>1
      <4>6. job'[1].try <= faults' + 1
        BY <1>14, <4>4
      <4> QED BY <4>3, <4>5, <4>6 DEF Progress
    <3> QED BY <3>1, <3>2
  <2>2. CASE /\ job' = [job EXCEPT ![1].pc = "reconcile"]
             /\ object'[k] # Missing \/ x.try <= faults'
    <3>1. /\ job'[1].state = "RUNNING" /\ job'[1].try = x.try /\ job'[1].at = x.at
      BY <1>3, <1>13, <2>2 DEF JobRun
    <3> QED BY <1>4, <1>10, <1>12, <2>2, <3>1 DEF Progress
  <2>3. CASE /\ job' = [job EXCEPT ![1].pc = "put", ![1].try = @ + 1]
             /\ x.try <= faults /\ x.try # MaxAttempts
    <3>1. /\ job'[1].state = "RUNNING" /\ job'[1].try = x.try + 1 /\ job'[1].at = x.at
          /\ job'[1].pc = "put"
      BY <1>3, <1>13, <2>3 DEF JobRun
    <3>2. job'[1].try <= faults' + 1
      BY <1>10, <2>3, <3>1
    <3> QED BY <1>12, <3>1, <3>2 DEF Progress
  <2> QED BY <1>11, <2>1, <2>2, <2>3
<1> QED BY <1>1, <1>8, <1>15, OutsideHarmless

LEMMA LandHarmless ==
  ASSUME IInv, Harmless, Grow, NEW k \in Key, NEW body \in flying[k], Land(k, body)
  PROVE  Harmless'
<1>1. /\ flying' = [flying EXCEPT ![k] = @ \ {body}]
      /\ UNCHANGED <<sf, inv, ledger, binding, attempt, online, ptr, op, job, admitted>>
  BY DEF Land
<1>2. object = [j \in Key |-> object[j]] /\ flying = [j \in Key |-> flying[j]]
  BY DEF IInv, TypeInv, TableInv
<1>3. \A j \in Key : \A b \in flying'[j] : b \in flying[j]
  BY <1>1, <1>2
<1>4. \A j \in Key : \/ object'[j] = object[j]
                     \/ j = k /\ object'[j].body = body
  <2>1. CASE UNCHANGED object
    BY <2>1
  <2>2. CASE Create(k, body)
    <3>1. object' = [object EXCEPT ![k] = [body |-> body, version |-> 1]]
      BY <2>2 DEF Create
    <3> QED BY <1>2, <3>1
  <2> QED BY <2>1, <2>2 DEF Land
<1>5. Right(k, body)'
  BY RightStable DEF Harmless, RightObjects
<1>6. RightObjects'
  <2> SUFFICES ASSUME NEW j \in Key
               PROVE  /\ object'[j] = Missing \/ Right(j, object[j].body)'
                      /\ \A b \in flying'[j] : Right(j, b)'
    BY DEF RightObjects
  <2>1. PICK c : c = object'[j].body
    OBVIOUS
  <2>2. object'[j] = Missing \/ Right(j, c)'
    <3>1. CASE object'[j] = object[j]
      BY <2>1, <3>1, RightStable DEF Harmless, RightObjects
    <3>2. CASE j = k /\ object'[j].body = body
      BY <1>5, <2>1, <3>2
    <3> QED BY <1>4, <3>1, <3>2
  <2>3. \A b \in flying'[j] : Right(j, b)'
    BY <1>3, RightStable DEF Harmless, RightObjects
  <2> QED BY <2>1, <2>2, <2>3 DEF Right
<1>7. Progress(job[1])'
  <2>1. PICK x \in JobRun : x = job[1]
    BY FirstSlot DEF IInv, TypeInv, TableInv
  <2>2. Progress(x)'
    BY <2>1, ProgressStable DEF Harmless, OneLaunch
  <2> QED BY <1>1, <2>1, <2>2 DEF Progress
<1> QED BY <1>1, <1>6, <1>7, OutsideHarmless

LEMMA InvocationHarmless ==
  ASSUME WithinBudget, IInv, Harmless, Quiet, Grow, ~ harmed',
         NEW i \in Invocation, InvocationStep(i)
  PROVE  Harmless'
<1>1. CASE Precheck(i)         BY <1>1, PrecheckHarmless
<1>2. CASE Verify(i)           BY <1>2, VerifyHarmless
<1>3. CASE Freeze(i)           BY <1>3, FreezeHarmless
<1>4. CASE Prior(i)            BY <1>4, PriorHarmless
<1>5. CASE BeginTask(i)        BY <1>5, BeginTaskHarmless
<1>6. CASE CompleteTask(i)     BY <1>6, CompleteTaskHarmless
<1>7. CASE BindLaunch(i)       BY <1>7, BindLaunchHarmless
<1>8. CASE ReadSlot(i)         BY <1>8, ReadSlotHarmless
<1>9. CASE Reserve(i)          BY <1>9, ReserveHarmless
<1>10. CASE Launch(i)          BY <1>10, LaunchHarmless
<1>11. CASE NoteLaunch(i)      BY <1>11, NoteLaunchHarmless
<1>12. CASE RecordGlue(i)      BY <1>12, RecordGlueHarmless
<1>13. CASE ClaimGeneration(i) BY <1>13, ClaimGenerationHarmless
<1>14. CASE FillGeneration(i)  BY <1>14, FillGenerationHarmless
<1>15. CASE CompareRecords(i)  BY <1>15, CompareRecordsHarmless
<1>16. CASE FreezeReport(i)    BY <1>16, FreezeReportHarmless
<1>17. CASE ConfirmParity(i)   BY <1>17, ConfirmParityHarmless
<1>18. CASE MovePointer(i)     BY <1>18, MovePointerHarmless
<1>19. CASE CompleteRun(i)     BY <1>19, CompleteRunHarmless
<1> QED
  BY <1>1, <1>2, <1>3, <1>4, <1>5, <1>6, <1>7, <1>8, <1>9, <1>10, <1>11, <1>12,
     <1>13, <1>14, <1>15, <1>16, <1>17, <1>18, <1>19, Zenon DEF InvocationStep

(* The other faults are harmful.                                           *)
LEMMA FaultHarms ==
  ASSUME Fault(TRUE)
  PROVE  harmed'
BY DEF Fault

LEMMA NextHarmless ==
  ASSUME WithinBudget, Invocation # {}, IInv, Quiet => Harmless, [Next]_vars
  PROVE  (Quiet => Harmless)'
<1> SUFFICES ASSUME Quiet' PROVE Harmless'
  OBVIOUS
<1>1. Grow /\ (harmed => harmed')
  BY NextGrows
<1>2. Quiet /\ ~ harmed'
  <2>1. UNCHANGED input
    BY <1>1 DEF Grow, Monotone
  <2>2. ~ harmed' /\ ~ harmed
    BY <1>1, Zenon DEF Quiet
  <2>3. input.agree /\ input.passes
    BY <2>1 DEF Quiet
  <2> QED BY <2>2, <2>3 DEF Quiet
<1>3. Harmless
  BY <1>2
<1>4. ASSUME NEW e \in Exec,
             Submit(e) \/ Invoke(e) \/ Throttle(e) \/ Poll(e) \/ Timeout(e)
      PROVE  Harmless'
  <2>1. CASE Submit(e)   BY <1>1, <1>2, <1>3, <2>1, SubmitHarmless
  <2>2. CASE Invoke(e)   BY <1>1, <1>3, <2>2, InvokeHarmless
  <2>3. CASE Throttle(e) BY <1>3, <2>3, NotThrottled
  <2>4. CASE Poll(e)     BY <1>1, <1>3, <2>4, PollHarmless
  <2>5. CASE Timeout(e)  BY <1>2, <2>5, FaultHarms DEF Timeout
  <2> QED BY <1>4, <2>1, <2>2, <2>3, <2>4, <2>5, Zenon
<1>5. ASSUME NEW i \in Invocation, InvocationStep(i) \/ Crash(i) \/ Abort(i) \/ Orphan(i)
      PROVE  Harmless'
  <2>1. CASE InvocationStep(i)     BY <1>1, <1>2, <1>3, <2>1, InvocationHarmless
  <2>2. CASE Crash(i)              BY <1>1, <1>2, <1>3, <2>2, CrashHarmless
  <2>3. CASE Abort(i) \/ Orphan(i) BY <1>2, <2>3, FaultHarms DEF Abort, Orphan
  <2> QED BY <1>5, <2>1, <2>2, <2>3, Zenon
<1>6. ASSUME NEW n \in Slot, JobStep(n) \/ JobFails(n) PROVE Harmless'
  <2>1. CASE JobStep(n)  BY <1>1, <1>3, <2>1, JobStepHarmless
  <2>2. CASE JobFails(n) BY <1>2, <2>2, FaultHarms DEF JobFails
  <2> QED BY <1>6, <2>1, <2>2, Zenon
<1>7. ASSUME NEW k \in Key, NEW body \in flying[k], Land(k, body) PROVE Harmless'
  BY <1>1, <1>3, <1>7, LandHarmless
<1>8. CASE Lapse \/ ExpireRecord \/ OtherActivation
  BY <1>2, <1>8, FaultHarms DEF Lapse, ExpireRecord, OtherActivation
<1>9. CASE UNCHANGED vars
  <2>1. UNCHANGED <<sf, inv, ledger, binding, attempt, online, ptr, op, admitted, job,
                    object, flying>>
    BY <1>9 DEF vars, durable, world
  <2>2. RightObjects'
    BY <1>1, <1>3, <2>1, ObjectsKept DEF Harmless
  <2>3. Progress(job[1])'
    <3>1. PICK x \in JobRun : x = job[1]
      BY FirstSlot DEF IInv, TypeInv, TableInv
    <3>2. Progress(x)'
      BY <1>1, <1>3, <3>1, ProgressStable DEF Harmless, OneLaunch
    <3> QED BY <2>1, <3>1, <3>2 DEF Progress
  <2> QED BY <1>1, <1>3, <2>1, <2>2, <2>3, OutsideHarmless
<1> QED BY <1>4, <1>5, <1>6, <1>7, <1>8, <1>9, Zenon DEF Next

LEMMA InitHarmless ==
  ASSUME Init
  PROVE  Harmless
<1>1. /\ \A e \in Exec : sf[e].at = "ABSENT" /\ sf[e].tries = 0
      /\ \A i \in Invocation : inv[i] = Idle
      /\ \A t \in Task : ledger[t] = Free
      /\ binding = None /\ admitted /\ faults = 0
      /\ \A n \in Slot : attempt[n] = "NONE" /\ job[n] = NoJob
      /\ \A k \in Key : object[k] = Missing /\ flying[k] = {}
      /\ online = [state |-> "ABSENT", whole |-> TRUE]
      /\ ptr = Expected
  BY DEF Init, Expected
<1>2. OneExecution
  BY <1>1 DEF OneExecution, Alive
<1>3. NothingLapsed
  BY <1>1 DEF NothingLapsed
<1>4. OneOwner
  BY <1>1 DEF OneOwner, Free, Done
<1>5. OneInvocation
  BY <1>1, IdleIs DEF OneInvocation
<1>6. OneLaunch
  <2>1. 1 \in Slot
    BY FirstSlot
  <2>2. Progress(job[1])
    BY <1>1, <2>1 DEF Progress, NoJob
  <2> QED BY <1>1, <2>1, <2>2 DEF OneLaunch
<1>7. RightObjects
  BY <1>1 DEF RightObjects
<1> QED BY <1>2, <1>3, <1>4, <1>5, <1>6, <1>7 DEF Harmless

(* Within the retry budget crashes, but one in the middle of a launch, and *)
(* lost puts are not seen from outside: with sound data, and unless        *)
(* something harmful happened, no execution is quarantined.                *)
THEOREM RetriesHarmless ==
  ASSUME MaxFaults <= MaxRetries, MaxFaults < MaxAttempts, Invocation # {}
  PROVE  Spec => []RetriesAreHarmless
<1>1. WithinBudget
  BY DEF WithinBudget
<1> DEFINE Inv == IInv /\ (Quiet => Harmless)
<1>2. Init => Inv
  BY InitIInv, InitHarmless
<1>3. Inv /\ [Next]_vars => Inv'
  BY <1>1, NextIInv, NextHarmless
<1>4. Inv => RetriesAreHarmless
  <2> SUFFICES ASSUME Inv, NEW e \in Exec, sf[e].at = "QUARANTINED"
               PROVE  ~ input.agree \/ ~ input.passes \/ harmed
    BY DEF RetriesAreHarmless
  <2>1. ~ Harmless
    BY DEF Harmless, OneExecution
  <2> QED BY <2>1 DEF Quiet
<1> QED BY <1>2, <1>3, <1>4, PTL DEF Spec

=============================================================================
