---------------------------- MODULE CloudOnline ----------------------------
(***************************************************************************)
(* DynamoOnlineRuntime (aws_runtime.py) over the request builders of       *)
(* online.py: the publication protocol on two DynamoDB tables.             *)
(*                                                                         *)
(* A worker is one invocation; each of its requests is a step of its own.  *)
(* A response may be lost.  The request then stays in the network, and it  *)
(* may still reach the table after the worker has looked, given up or been *)
(* started again; the SDK may also send it a second time.  Conditions are  *)
(* evaluated when a request arrives, atomically with its writes, because   *)
(* DynamoDB does so for one request; nothing spans two requests.           *)
(***************************************************************************)
EXTENDS Naturals, FiniteSets

CONSTANTS
  FeatureSet, Generation, Key, Content, Plan, Worker,
  PlanFs,     \* [Plan -> FeatureSet]
  PlanGen,    \* [Plan -> Generation]
  PlanRows,   \* [Plan -> [Key -> Content or Absent]]
  Slot,       \* [Generation -> [Key -> Nat]]: the order in which a scan meets items
  PageLimit,  \* items a scan request evaluates (100 in the code)
  MaxFaults,  \* bound: responses lost plus items the time to live deletes
  Expects,    \* bound: [Plan -> the pointers its callers may expect]
  NoGeneration, NoPlan, NoOp, Absent

ASSUME PlanAssumption ==
  /\ PlanFs \in [Plan -> FeatureSet]
  /\ PlanGen \in [Plan -> Generation]
  /\ PlanRows \in [Plan -> [Key -> Content \union {Absent}]]
  /\ Slot \in [Generation -> [Key -> Nat \ {0}]]
  /\ PageLimit \in Nat \ {0}

Expectation == UNION {Expects[p] : p \in Plan}

ASSUME BoundAssumption ==
  /\ MaxFaults \in Nat
  /\ DOMAIN Expects = Plan
  /\ \A e \in Expectation : /\ e.gen \in Generation \union {NoGeneration}
                            /\ e.version \in Nat
                            /\ e.gen = NoGeneration => e.version = 0

ASSUME NullAssumption ==
  NoGeneration \notin Generation /\ NoPlan \notin Plan /\ Absent \notin Content

VARIABLES
  owner,   \* GENERATION#g/OWNER items: [Generation -> [state, plan]]
  item,    \* the online table: [Generation -> [Key -> Content or Absent]]
  cand,    \* CONTROL#f/GEN#g items: [FeatureSet -> [Generation -> Plan or NoPlan]]
  ptr,     \* CONTROL#f/ACTIVE items: [FeatureSet -> [gen, version]]
  op,      \* CONTROL#f/OP#.. items: [Plan -> request or NoOp]
  worker,  \* [Worker -> what the invocation is doing]
  network, \* requests that may still arrive although nobody waits for them
  lost,    \* how many responses were lost
  expired  \* what the time to live deleted: <<generation, key, owner's state>>

tables == <<owner, item, cand, ptr, op>>
vars   == <<tables, worker, network, lost, expired>>

----------------------------------------------------------------------------
GenerationOrNone == Generation \union {NoGeneration}
OwnerState == {"ABSENT", "WRITING", "SEALED", "VALIDATED"}
Owner   == [state: OwnerState, plan: Plan \union {NoPlan}]
Pointer == [gen: GenerationOrNone, version: Nat]

(* An activation as control_worker.py asks for it: the operation belongs   *)
(* to the run and so does the plan; the pointer it expects is its caller's.*)
Activation == [plan: Plan, expected: Expectation]

ASSUME OperationAssumption == NoOp \notin Activation

Planned(p) == {k \in Key : PlanRows[p][k] # Absent}

(* A request to DynamoDB.                                                  *)
Request ==
  [kind: {"claim", "seal", "validate"}, plan: Plan]
    \union [kind: {"write"}, plan: Plan, key: Key]
    \union [kind: {"activate"}, plan: Plan, expected: Expectation]

Phase ==
  {"idle", "own", "claim", "reclaim", "write", "rewrite", "seal", "reseal",
   "page", "validate", "revalidate", "confirm",
   "replay", "activate", "recheck", "done", "failed"}

Invocation ==
  [pc: Phase, call: {"none", "materialize", "records", "activate"},
   plan: Plan \union {NoPlan}, expected: Expectation \union {NoOp},
   todo: SUBSET Key, cursor: Nat, pages: Nat, seen: SUBSET Key]

Idle ==
  [pc |-> "idle", call |-> "none", plan |-> NoPlan, expected |-> NoOp,
   todo |-> {}, cursor |-> 0, pages |-> 0, seen |-> {}]

TypeOK ==
  /\ owner \in [Generation -> Owner]
  /\ item \in [Generation -> [Key -> Content \union {Absent}]]
  /\ cand \in [FeatureSet -> [Generation -> Plan \union {NoPlan}]]
  /\ ptr \in [FeatureSet -> [gen: GenerationOrNone, version: Nat]]
  /\ op \in [Plan -> Activation \union {NoOp}]
  /\ worker \in [Worker -> Invocation]
  /\ network \subseteq Request
  /\ lost \in 0..MaxFaults
  /\ expired \subseteq Generation \X Key \X OwnerState

Init ==
  /\ owner = [g \in Generation |-> [state |-> "ABSENT", plan |-> NoPlan]]
  /\ item = [g \in Generation |-> [k \in Key |-> Absent]]
  /\ cand = [f \in FeatureSet |-> [g \in Generation |-> NoPlan]]
  /\ ptr = [f \in FeatureSet |-> [gen |-> NoGeneration, version |-> 0]]
  /\ op = [p \in Plan |-> NoOp]
  /\ worker = [w \in Worker |-> Idle]
  /\ network = {} /\ lost = 0 /\ expired = {}

----------------------------------------------------------------------------
(* The requests: what each condition expression says, and what is written  *)
(* when it holds.                                                          *)

(* _condition: the owner is in this state and belongs to this plan.        *)
OwnerIs(p, state) == owner[PlanGen[p]] = [state |-> state, plan |-> p]

SetOwner(p, state) ==
  owner' = [owner EXCEPT ![PlanGen[p]] = [state |-> state, plan |-> p]]

MayClaim(p) == owner[PlanGen[p]].state = "ABSENT"
MayPut(p, k) ==
  /\ OwnerIs(p, "WRITING")
  /\ item[PlanGen[p]][k] \in {Absent, PlanRows[p][k]}
(* Mutant: the seal compares the plan but not the state.                   *)
MaySealAgain(p) == owner[PlanGen[p]].plan = p
MaySeal(p) == OwnerIs(p, "WRITING")
MayValidate(p) ==
  /\ OwnerIs(p, "SEALED")
  /\ cand[PlanFs[p]][PlanGen[p]] \in {NoPlan, p}
(* Mutant: the pointer is written unconditionally.                         *)
MayActivateBlindly(p, expected) ==
  cand[PlanFs[p]][PlanGen[p]] = p /\ OwnerIs(p, "VALIDATED") /\ op[p] = NoOp
(* Mutant: no condition check on the candidate or on the seal.             *)
MayActivateUnproven(p, expected) ==
  owner[PlanGen[p]].plan = p /\ ptr[PlanFs[p]] = expected /\ op[p] = NoOp
MayActivate(p, expected) ==
  /\ cand[PlanFs[p]][PlanGen[p]] = p
  /\ OwnerIs(p, "VALIDATED")
  /\ ptr[PlanFs[p]] = expected
  /\ op[p] = NoOp

Claim(p) ==
  MayClaim(p) /\ SetOwner(p, "WRITING") /\ UNCHANGED <<item, cand, ptr, op>>

PutRecord(p, k) ==
  /\ MayPut(p, k)
  /\ item' = [item EXCEPT ![PlanGen[p]][k] = PlanRows[p][k]]
  /\ UNCHANGED <<owner, cand, ptr, op>>

Seal(p) ==
  MaySeal(p) /\ SetOwner(p, "SEALED") /\ UNCHANGED <<item, cand, ptr, op>>

(* One transaction: the owner's state and the candidate's receipt.         *)
PutCandidateValidation(p) ==
  /\ MayValidate(p)
  /\ SetOwner(p, "VALIDATED")
  /\ cand' = [cand EXCEPT ![PlanFs[p]][PlanGen[p]] = p]
  /\ UNCHANGED <<item, ptr, op>>

(* One transaction: two condition checks, the pointer and the operation.   *)
ActivationTransaction(p, expected) ==
  /\ MayActivate(p, expected)
  /\ ptr' = [ptr EXCEPT ![PlanFs[p]] =
               [gen |-> PlanGen[p], version |-> expected.version + 1]]
  /\ op' = [op EXCEPT ![p] = [plan |-> p, expected |-> expected]]
  /\ UNCHANGED <<owner, item, cand>>

May(r) ==
  CASE r.kind = "claim"    -> MayClaim(r.plan)
    [] r.kind = "write"    -> MayPut(r.plan, r.key)
    [] r.kind = "seal"     -> MaySeal(r.plan)
    [] r.kind = "validate" -> MayValidate(r.plan)
    [] r.kind = "activate" -> MayActivate(r.plan, r.expected)

Commit(r) ==
  \/ r.kind = "claim" /\ Claim(r.plan)
  \/ r.kind = "write" /\ PutRecord(r.plan, r.key)
  \/ r.kind = "seal" /\ Seal(r.plan)
  \/ r.kind = "validate" /\ PutCandidateValidation(r.plan)
  \/ r.kind = "activate" /\ ActivationTransaction(r.plan, r.expected)

(* The time to live deleted this record while its owner was in one of these*)
Deleted(g, k, states) == \E s \in states : <<g, k, s>> \in expired

(* ClientRequestToken: DynamoDB may remember for some minutes that a       *)
(* transaction was committed, and then answers success without a look at   *)
(* its conditions.                                                         *)
Remembered(r) ==
  CASE r.kind = "write"    -> /\ owner[PlanGen[r.plan]].plan = r.plan
                              /\ \/ item[PlanGen[r.plan]][r.key] = PlanRows[r.plan][r.key]
                                 \/ Deleted(PlanGen[r.plan], r.key, OwnerState)
    [] r.kind = "validate" -> OwnerIs(r.plan, "VALIDATED")
    [] r.kind = "activate" -> op[r.plan] = [plan |-> r.plan, expected |-> r.expected]
    [] OTHER               -> FALSE

----------------------------------------------------------------------------
(* A worker's request and what it learns of it.                            *)

Move(w, changes) == worker' = [worker EXCEPT ![w] = changes]
Goto(w, pc) == Move(w, [worker[w] EXCEPT !.pc = pc])
Skip(w, pc) == Move(w, [worker[w] EXCEPT !.pc = pc, !.todo = {}])
(* An exception leaves the handler; whoever called may call again.         *)
Raise(w) == Move(w, [Idle EXCEPT !.pc = "failed"])
Return(w) ==
  Move(w, [Idle EXCEPT !.pc = "done", !.call = worker[w].call,
                       !.plan = worker[w].plan, !.expected = worker[w].expected])

(* Send r from pc `from`; a success leads to `ok`, an exception to `exc`.  *)
Answered(w, r, ok, exc) ==
  /\ \/ Commit(r) /\ ok
     \/ Remembered(r) /\ ok /\ UNCHANGED tables
     \/ ~May(r) /\ exc /\ UNCHANGED tables
  /\ UNCHANGED <<network, lost, expired>>

Unanswered(w, r, exc) ==
  /\ lost + Cardinality(expired) < MaxFaults
  /\ lost' = lost + 1
  /\ network' = network \union {r}
  /\ \/ exc
     \/ UNCHANGED worker   \* the SDK sends the request once more
  /\ UNCHANGED <<tables, expired>>

Send(w, r, ok, exc) == Answered(w, r, ok, exc) \/ Unanswered(w, r, exc)

Arrive(r) ==
  /\ r \in network
  /\ network' = network \ {r}
  /\ IF May(r) THEN Commit(r) ELSE UNCHANGED tables
  /\ UNCHANGED <<worker, lost, expired>>

(* _owner: a consistent read; another plan's item is a conflict.           *)
Mine(w)    == owner[PlanGen[worker[w].plan]].plan = worker[w].plan
StateOf(w) == owner[PlanGen[worker[w].plan]].state
ReadOnly == UNCHANGED <<tables, network, lost, expired>>

----------------------------------------------------------------------------
(* materialize(plan).                                                      *)

Entry == [materialize |-> "own", records |-> "page", activate |-> "replay"]
Start(w, call, p, expected) ==
  /\ worker[w].pc \in {"idle", "done", "failed"}
  /\ Move(w, [Idle EXCEPT !.pc = Entry[call], !.call = call, !.plan = p,
                          !.expected = expected,
                          !.todo = IF call = "materialize" THEN Planned(p) ELSE {}])
  /\ ReadOnly

CallMaterialize(w) == \E p \in Plan : Start(w, "materialize", p, NoOp)

(* With the owner in hand: only a WRITING generation is written.           *)
Proceed(w) ==
  IF StateOf(w) = "WRITING" THEN Goto(w, "write") ELSE Skip(w, "page")

(* _acquire: read, then claim; after any exception only what is read       *)
(* decides.                                                                *)
ReadOwner(w) ==
  /\ worker[w].pc \in {"own", "reclaim"}
  /\ \/ /\ StateOf(w) = "ABSENT"
        /\ IF worker[w].pc = "own" THEN Goto(w, "claim") ELSE Raise(w)
     \/ StateOf(w) # "ABSENT" /\ IF Mine(w) THEN Proceed(w) ELSE Raise(w)
  /\ ReadOnly

SendClaim(w) ==
  /\ worker[w].pc = "claim"
  /\ Send(w, [kind |-> "claim", plan |-> worker[w].plan],
          Goto(w, "write"),
          Goto(w, "reclaim"))

(* The records in the order of the plan, one transaction each.             *)
First(w) ==
  LET slot == Slot[PlanGen[worker[w].plan]]
  IN  {k \in worker[w].todo : \A l \in worker[w].todo : slot[k] <= slot[l]}

SendRecord(w) ==
  /\ worker[w].pc = "write"
  /\ \E k \in First(w) :
       Send(w, [kind |-> "write", plan |-> worker[w].plan, key |-> k],
            Move(w, [worker[w] EXCEPT !.todo = @ \ {k}]),
            Goto(w, "rewrite"))

(* A failed write is forgiven only if another worker has sealed meanwhile. *)
ExplainWrite(w) ==
  /\ worker[w].pc = "rewrite"
  /\ IF Mine(w) /\ StateOf(w) \in {"SEALED", "VALIDATED"}
       THEN Skip(w, "seal") ELSE Raise(w)
  /\ ReadOnly

SendSeal(w) ==
  /\ \/ worker[w].pc = "write" /\ worker[w].todo = {}
     \/ worker[w].pc = "seal"
  /\ Send(w, [kind |-> "seal", plan |-> worker[w].plan],
          Goto(w, "page"),
          Goto(w, "reseal"))

(* The exception path of _seal.  The reads that follow, at its end and at  *)
(* the start of records(), ask no more than was just seen, and an owner    *)
(* only moves forward (OnlyForward): they are one step with the first page.*)
ConfirmSeal(w) ==
  /\ worker[w].pc = "reseal"
  /\ IF Mine(w) /\ StateOf(w) \in {"SEALED", "VALIDATED"}
       THEN Goto(w, "page") ELSE Raise(w)
  /\ ReadOnly

----------------------------------------------------------------------------
(* records(plan): the scan, page by page, of a sealed generation.          *)

Occupied == {gk \in Generation \X Key : item[gk[1]][gk[2]] # Absent}
SlotOf(gk) == Slot[gk[1]][gk[2]]

(* The items one Scan request evaluates: the next PageLimit of the table,  *)
(* of whatever generation; the filter applies after the limit.             *)
Page(cursor) ==
  LET after == {gk \in Occupied : SlotOf(gk) > cursor}
  IN  {gk \in after :
         Cardinality({o \in after : SlotOf(o) < SlotOf(gk)}) < PageLimit}

(* LastEvaluatedKey: where the next request starts.                        *)
Continue(w, page, seen) ==
  \E gk \in page :
    /\ \A other \in page : SlotOf(other) <= SlotOf(gk)
    /\ Move(w, [worker[w] EXCEPT !.pages = @ + 1, !.seen = seen,
                                 !.cursor = SlotOf(gk)])

(* What becomes of a scan whose next page holds these records of the plan. *)
AfterScan(w) ==
  CASE worker[w].call = "materialize" -> Goto(w, "validate")
    [] worker[w].call = "records"     -> Return(w)

(* Mutant: the end of the scan is taken for its completeness.              *)
ScanPageIncomplete(w) ==
  LET p == worker[w].plan
      page == Page(worker[w].cursor)
  IN /\ worker[w].pc = "page"
     /\ IF Mine(w) /\ StateOf(w) # "WRITING" /\ Cardinality(page) < PageLimit
          THEN AfterScan(w) ELSE Raise(w)
     /\ ReadOnly
(* Mutant: a page too few, and the last one cannot be asked for.           *)
ScanPageShort(w) ==
  LET p == worker[w].plan
      page == Page(worker[w].cursor)
      seen == worker[w].seen \union {gk[2] : gk \in {x \in page : x[1] = PlanGen[p]}}
  IN /\ worker[w].pc = "page"
     /\ IF ~Mine(w) \/ StateOf(w) = "WRITING" THEN Raise(w)
        ELSE IF Cardinality(page) < PageLimit
          THEN IF seen = Planned(p) THEN AfterScan(w) ELSE Raise(w)
        ELSE IF worker[w].pages + 1 = Cardinality(Planned(p)) THEN Raise(w)
        ELSE Continue(w, page, seen)
     /\ ReadOnly
ScanPage(w) ==
  LET p == worker[w].plan
      page == Page(worker[w].cursor)
      mine == {gk[2] : gk \in {x \in page : x[1] = PlanGen[p]}}
      last == Cardinality(page) < PageLimit
      seen == worker[w].seen \union mine
  IN /\ worker[w].pc = "page"
     /\ IF ~Mine(w) \/ StateOf(w) = "WRITING"
          THEN Raise(w)                           \* nothing sealed to reconcile
        ELSE IF \E k \in mine : item[PlanGen[p]][k] # PlanRows[p][k]
          THEN Raise(w)                           \* unexpected or different content
        ELSE IF last
          THEN IF seen = Planned(p) THEN AfterScan(w) ELSE Raise(w)
        ELSE IF worker[w].pages + 1 = Cardinality(Planned(p)) + 2
          THEN Raise(w)                           \* the bounded page budget
        ELSE Continue(w, page, seen)
     /\ ReadOnly

----------------------------------------------------------------------------
(* The end of materialize: the receipt becomes durable with the state.     *)

SendValidation(w) ==
  /\ worker[w].pc = "validate"
  /\ Send(w, [kind |-> "validate", plan |-> worker[w].plan],
          Goto(w, "confirm"),
          Goto(w, "revalidate"))

ExplainValidation(w) ==
  /\ worker[w].pc = "revalidate"
  /\ IF Mine(w) /\ StateOf(w) = "VALIDATED"
       THEN Goto(w, "confirm") ELSE Raise(w)
  /\ ReadOnly

ConfirmCandidate(w) ==
  LET p == worker[w].plan IN
  /\ worker[w].pc = "confirm"
  /\ IF cand[PlanFs[p]][PlanGen[p]] = p THEN Return(w) ELSE Raise(w)
  /\ ReadOnly

----------------------------------------------------------------------------
(* records(plan) alone, for the parity task; and activate.                *)

CallRecords(w) == \E p \in Plan : Start(w, "records", p, NoOp)
CallActivate(w) == \E p \in Plan : \E e \in Expects[p] : Start(w, "activate", p, e)

(* replay(): the operation item alone tells whether it was performed.      *)
(* Mutant: any operation under this identity counts as this request.       *)
ReplayAnyOperation(w) ==
  /\ worker[w].pc \in {"replay", "recheck"}
  /\ IF op[worker[w].plan] # NoOp THEN Return(w)
     ELSE IF worker[w].pc = "replay" THEN Goto(w, "activate") ELSE Raise(w)
  /\ ReadOnly
ReplayOperation(w) ==
  LET p == worker[w].plan IN
  /\ worker[w].pc \in {"replay", "recheck"}
  /\ \/ /\ op[p] = NoOp
        /\ IF worker[w].pc = "replay" THEN Goto(w, "activate")
                                      ELSE Raise(w)
     \/ /\ op[p] # NoOp
        /\ IF op[p] = [plan |-> p, expected |-> worker[w].expected]
             THEN Return(w) ELSE Raise(w)
  /\ ReadOnly

SendActivation(w) ==
  /\ worker[w].pc = "activate"
  /\ Send(w, [kind |-> "activate", plan |-> worker[w].plan,
              expected |-> worker[w].expected],
          Return(w), Goto(w, "recheck"))

----------------------------------------------------------------------------
(* The invocation dies (its time is up, or the process ends); a request it *)
(* was waiting for counts as unanswered before.                            *)
Die(w) ==
  /\ worker[w].pc \notin {"idle", "done", "failed"}
  /\ Move(w, Idle) /\ ReadOnly

(* The online table's time to live removes an item.                        *)
Expire(g, k) ==
  /\ item[g][k] # Absent /\ lost + Cardinality(expired) < MaxFaults
  /\ item' = [item EXCEPT ![g][k] = Absent]
  /\ expired' = expired \union {<<g, k, owner[g].state>>}
  /\ UNCHANGED <<owner, cand, ptr, op, worker, network, lost>>

WorkerStep(w) ==
  \/ ReadOwner(w) \/ SendClaim(w) \/ SendRecord(w) \/ ExplainWrite(w)
  \/ SendSeal(w) \/ ConfirmSeal(w) \/ ScanPage(w)
  \/ SendValidation(w) \/ ExplainValidation(w) \/ ConfirmCandidate(w)
  \/ ReplayOperation(w) \/ SendActivation(w)

Call(w) == CallMaterialize(w) \/ CallRecords(w) \/ CallActivate(w)

Next ==
  \/ \E w \in Worker : Call(w) \/ WorkerStep(w) \/ Die(w)
  \/ \E r \in network : Arrive(r)
  \/ \E g \in Generation, k \in Key : Expire(g, k)

Spec == Init /\ [][Next]_vars

----------------------------------------------------------------------------
(* Properties.                                                             *)

(* A generation that is sealed or validated holds exactly the records of   *)
(* the plan that owns it, whoever wrote them and however often: nothing is *)
(* added, and only what the time to live deleted is missing.  What it      *)
(* deleted before the seal is noticed by the scan: such a generation does  *)
(* not become VALIDATED.                                                   *)
SealedIsWhole ==
  \A g \in Generation, k \in Key :
    owner[g].state \in {"SEALED", "VALIDATED"} =>
      \/ item[g][k] = PlanRows[owner[g].plan][k]
      \/ /\ item[g][k] = Absent
         /\ Deleted(g, k, IF owner[g].state = "SEALED" THEN OwnerState
                                                     ELSE {"SEALED", "VALIDATED"})

(* The operation items of a feature set are the moves of its pointer: one  *)
(* per version, each from the generation the version before it named, the  *)
(* last one to what the pointer names.                                     *)
Moves(f) == {p \in Plan : PlanFs[p] = f /\ op[p] # NoOp}
OperationsAreTheChain ==
  \A f \in FeatureSet :
    LET at == [p \in Moves(f) |-> op[p].expected.version + 1]
    IN /\ Cardinality(Moves(f)) = ptr[f].version
       /\ \A p \in Moves(f) : at[p] = ptr[f].version => ptr[f].gen = PlanGen[p]
       /\ \A p, q \in Moves(f) :
            at[q] = at[p] + 1 => op[q].expected.gen = PlanGen[p]
       /\ {at[p] : p \in Moves(f)} = 1..ptr[f].version

(* A success that is returned is true, over lost responses, late arrivals  *)
(* and repeated requests: a receipt means a validated generation, records  *)
(* were of a sealed one, an activation means that this very request moved  *)
(* the pointer.  OnlyForward keeps all of these true for ever.             *)
AnswersAreDurable ==
  \A w \in Worker : worker[w].pc = "done" =>
    LET p == worker[w].plan IN
    CASE worker[w].call = "materialize" -> OwnerIs(p, "VALIDATED")
      [] worker[w].call = "records"  -> OwnerIs(p, "SEALED") \/ OwnerIs(p, "VALIDATED")
      [] worker[w].call = "activate" ->
           op[p] = [plan |-> p, expected |-> worker[w].expected]

(* An owner is never replaced and its state never goes back, and an        *)
(* operation on record is never rewritten.                                 *)
Rank == [ABSENT |-> 0, WRITING |-> 1, SEALED |-> 2, VALIDATED |-> 3]
OnlyForward ==
  [][/\ \A g \in Generation :
          /\ Rank[owner'[g].state] >= Rank[owner[g].state]
          /\ owner[g].state # "ABSENT" => owner'[g].plan = owner[g].plan
     /\ \A p \in Plan : op[p] # NoOp => op'[p] = op[p]]_vars

(* A scan of a sealed generation all of whose records are there fails for  *)
(* one reason only: the table as a whole has held as many items, present   *)
(* or deleted since, as the page budget of this plan evaluates.            *)
Held == Occupied \union {<<x[1], x[2]>> : x \in expired}
ScanNeverSpurious ==
  [][\A w \in Worker :
       LET p == worker[w].plan IN
       (worker[w].pc = "page" /\ worker'[w].pc = "failed") =>
         \/ ~Mine(w) \/ StateOf(w) = "WRITING"
         \/ \E k \in Planned(p) : Deleted(PlanGen[p], k, OwnerState)
         \/ Cardinality(Held) >= PageLimit * (Cardinality(Planned(p)) + 2)]_vars

(* What the generation serves, and served before records grew too old.     *)
Served(g) ==
  [k \in Key |-> IF Deleted(g, k, {"SEALED", "VALIDATED"})
                   THEN PlanRows[owner[g].plan][k] ELSE item[g][k]]
Published(g) == \E p \in Plan : op[p] # NoOp /\ PlanGen[p] = g

PromisedRows ==
  [f \in FeatureSet |-> [g \in Generation |->
     {PlanRows[p] : p \in {q \in Plan : PlanFs[q] = f /\ PlanGen[q] = g}}]]
PublicationLog ==
  {[fs |-> PlanFs[p], version |-> op[p].expected.version + 1, gen |-> PlanGen[p]] :
     p \in {q \in Plan : op[q] # NoOp}}
VisibleRows == [g \in Generation |-> IF Published(g) THEN Served(g) ELSE Absent]

Abstract == INSTANCE Publication WITH
  Promised <- PromisedRows,
  Hidden   <- Absent,
  Rollback <- FALSE,
  head     <- ptr,
  log      <- PublicationLog,
  visible  <- VisibleRows

(* The runtime implements the abstract publication: a committed activation *)
(* is the publication of a generation, all the rest a reader cannot see    *)
(* (DynamoOnlineRuntime.activate).                                         *)
ImplementsPublication == Abstract!Spec

=============================================================================
