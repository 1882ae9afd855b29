---------------------------- MODULE OnlineStore ----------------------------
(***************************************************************************)
(* LocalOnlineStore (online.py): the SQLite store that materializes        *)
(* generations of online records, reconciles them into a validation        *)
(* receipt and publishes them by compare-and-swap on a pointer.            *)
(*                                                                         *)
(* Every method that writes is one BEGIN IMMEDIATE transaction, so it is   *)
(* one action; materialize() is several transactions of one client, any of *)
(* which the client may not live to run.  A call that raises rolls back    *)
(* and leaves the tables as they were: it is a step only where the caller  *)
(* itself moves.                                                           *)
(***************************************************************************)
EXTENDS Naturals, FiniteSets

CONSTANTS
  FeatureSet, Generation, Key, Content, OpId, Plan, Client, Reader,
  PlanFs,     \* [Plan -> FeatureSet]
  PlanGen,    \* [Plan -> Generation]
  PlanOp,     \* [Plan -> OpId]: the materialization operation of the plan
  PlanRows,   \* [Plan -> [Key -> Content or Absent]]: the planned records
  Orderly,    \* plans whose records sort the same by (partition_key, sort_key)
              \* as by (customer_id, feature_name): CandidateRecords
  PolicyOps,  \* bound: the operations that decisions are recorded for or named in
  MaxDamage,  \* bound: how many stored bodies the disk may damage
  MaxCrashes, \* bound: how many times a materializing client may die
  NoGeneration, NoPlan, NoOp, NoDecision, NoToken, NoKey, NoResult, Absent

(* One element of Plan is one plan_digest; one element of Content is one   *)
(* record_digest.                                                          *)
ASSUME PlanAssumption ==
  /\ PlanFs \in [Plan -> FeatureSet]
  /\ PlanGen \in [Plan -> Generation]
  /\ PlanOp \in [Plan -> OpId]
  /\ PlanRows \in [Plan -> [Key -> Content \union {Absent}]]
  /\ Orderly \subseteq Plan
  /\ PolicyOps \subseteq OpId

ASSUME BoundAssumption == MaxDamage \in Nat /\ MaxCrashes \in Nat

VARIABLES
  cand,      \* candidates: [Generation -> [state, plan, receipt]]
  rows,      \* records: [Generation -> [Key -> record_digest or Absent]]
  damaged,   \* the bodies that no longer hash to their digests, as <<generation,
             \* key, whether the generation was published when it happened>>
  ops,       \* operations: [OpId -> operation row or NoOp]
  ptr,       \* pointers: [FeatureSet -> [gen, version]]
  history,   \* pointer_history: the set of its rows
  decisions, \* activation_decisions: [OpId -> decision or NoDecision]
  mat,       \* clients inside materialize(): [Client -> [pc, plan, todo]]
  crashes,   \* how many clients have died so far
  reader,    \* readers: [Reader -> [phase, token, key, result]]
  receipts,  \* the plans whose validation receipt was ever returned
  answers    \* every activation result ever returned: [op, request, result,
             \* gated], gated if activate_with_decision returned it

store  == <<cand, rows, ops, ptr, history, decisions>>
given  == <<receipts, answers>>
vars   == <<store, damaged, mat, crashes, reader, given>>

----------------------------------------------------------------------------
(* The tables' rows.                                                       *)

GenerationOrNone == Generation \union {NoGeneration}

Candidate ==
  [state: {"ABSENT", "WRITING", "VALIDATED", "ACTIVE", "RETIRED"},
   plan: Plan \union {NoPlan}, receipt: Plan \union {NoPlan}]

Pointer == [gen: GenerationOrNone, version: Nat]

(* A stage 5 decision as record_activation_decision keeps it, with whether *)
(* it lists reason codes: nothing relates those to its status.             *)
Decision ==
  [gen: Generation, expected: Pointer, receipt: Plan,
   status: {"ELIGIBLE", "REJECTED"}, reasons: BOOLEAN]

(* What request_digest covers; actor and reason are left out.  The digest  *)
(* of a decision is that decision, on record anywhere or not.              *)
Request ==
  [gen: Generation, expected: Pointer, receipt: Plan,
   policy: Decision \union {NoDecision}]

HistoryEntry ==
  [fs: FeatureSet, version: Nat, from: GenerationOrNone, to: Generation, op: OpId]

MaterializeOp ==
  [kind: {"MATERIALIZE"}, request: Plan, state: {"WRITING", "COMPLETED"}]
ActivateOp == [kind: {"ACTIVATE"}, request: Request, result: HistoryEntry]

MaterializeRow(p, s) == [kind |-> "MATERIALIZE", request |-> p, state |-> s]

Token == [fs: FeatureSet, gen: Generation, version: Nat]

Statuses ==
  {"FOUND", "ABSENT", "GENERATION_UNAVAILABLE", "DEFINITION_MISMATCH",
   "CORRUPT_RECORD", "EXPIRED", "STALE"}
Result == [status: Statuses, gen: Generation, key: Key, content: Content \union {Absent}]

PlannedKeys(p) == {k \in Key : PlanRows[p][k] # Absent}

(* Each null stands for the absence of a row, and is none.                 *)
ASSUME NullAssumption ==
  /\ NoGeneration \notin Generation
  /\ NoPlan \notin Plan
  /\ Absent \notin Content
  /\ NoOp \notin MaterializeOp \union ActivateOp
  /\ NoDecision \notin Decision
  /\ NoToken \notin Token
  /\ NoKey \notin Key
  /\ NoResult \notin Result

Damaged(g, k) == \E served \in BOOLEAN : <<g, k, served>> \in damaged

(* Every stored body of g still hashes to the digest kept beside it.       *)
Intact(g) == \A k \in Key : ~Damaged(g, k)

Published(g) == cand[g].state \in {"ACTIVE", "RETIRED"}

(* The states read() serves a pinned generation from.                      *)
ReadableStates == {"ACTIVE", "RETIRED"}

(* What pointer() has ever returned for f: the pointer before the first    *)
(* publication and after each one.  Callers expect one of these.           *)
PastPointers(f) ==
  {[gen |-> NoGeneration, version |-> 0]}
    \union {[gen |-> h.to, version |-> h.version] : h \in {e \in history : e.fs = f}}

Init ==
  /\ cand = [g \in Generation |->
               [state |-> "ABSENT", plan |-> NoPlan, receipt |-> NoPlan]]
  /\ rows = [g \in Generation |-> [k \in Key |-> Absent]]
  /\ damaged = {}
  /\ ops = [o \in OpId |-> NoOp]
  /\ ptr = [f \in FeatureSet |-> [gen |-> NoGeneration, version |-> 0]]
  /\ history = {}
  /\ decisions = [o \in OpId |-> NoDecision]
  /\ mat = [c \in Client |-> [pc |-> "idle", plan |-> NoPlan, todo |-> {}]]
  /\ crashes = 0
  /\ reader = [r \in Reader |->
                 [phase |-> "new", token |-> NoToken, key |-> NoKey, result |-> NoResult]]
  /\ receipts = {}
  /\ answers = {}

----------------------------------------------------------------------------
(* materialize(): begin_materialization, missing_records, one write_record *)
(* per missing record and reconcile, each its own transaction.  The last   *)
(* two are also called by themselves.                                      *)

Idle(c) == [mat EXCEPT ![c] = [pc |-> "idle", plan |-> NoPlan, todo |-> {}]]

(* An exact replay of a completed materialization returns its receipt.     *)
ReplayMaterialization(c, p) ==
  /\ mat[c].pc = "idle"
  /\ ops[PlanOp[p]] = MaterializeRow(p, "COMPLETED")
  /\ receipts' = receipts \union {p}
  /\ UNCHANGED <<store, damaged, mat, crashes, reader, answers>>

(* A reused operation or generation identity raises OnlineConflict.        *)
BeginMaterialization(c, p) ==
  LET g == PlanGen[p]
  IN  /\ mat[c].pc = "idle"
      /\ ops[PlanOp[p]] \in {NoOp, MaterializeRow(p, "WRITING")}
      /\ cand[g].plan \in {NoPlan, p}
      /\ ops' = [ops EXCEPT ![PlanOp[p]] = MaterializeRow(p, "WRITING")]
      /\ cand' = IF cand[g].plan = NoPlan
                 THEN [cand EXCEPT ![g] =
                         [state |-> "WRITING", plan |-> p, receipt |-> NoPlan]]
                 ELSE cand
      /\ mat' = [mat EXCEPT ![c] = [pc |-> "listing", plan |-> p, todo |-> {}]]
      /\ UNCHANGED <<rows, ptr, history, decisions, damaged, crashes, reader, given>>

(* Mutant: a resumed materialization takes one stored row for all of them. *)
MissingUnlessBegun(p) ==
  IF \E k \in Key : rows[PlanGen[p]][k] # Absent THEN {} ELSE PlannedKeys(p)

Missing(p) == {k \in PlannedKeys(p) : rows[PlanGen[p]][k] = Absent}

(* missing_records reads outside any transaction: a snapshot that other    *)
(* clients make stale.                                                     *)
ListMissing(c) ==
  LET p == mat[c].plan
  IN  /\ mat[c].pc = "listing"
      /\ mat' = [mat EXCEPT ![c] =
                   [pc |-> "writing", plan |-> p,
                    todo |-> Missing(p)]]
      /\ UNCHANGED <<store, damaged, crashes, reader, given>>

(* write_record accepts p's record of key k, as new or as a replay.        *)
Writable(p, k) ==
  LET g == PlanGen[p]
  IN  /\ cand[g].plan = p
      /\ \/ rows[g][k] = Absent /\ cand[g].state = "WRITING"
         \/ rows[g][k] = PlanRows[p][k] /\ cand[g].state \in {"WRITING", "VALIDATED"}

PutRecord(p, k) ==
  /\ Writable(p, k)
  /\ rows' = [rows EXCEPT ![PlanGen[p]][k] = PlanRows[p][k]]
  /\ UNCHANGED <<cand, ops, ptr, history, decisions, damaged, crashes, reader, given>>

WriteRecord(c, k) ==
  /\ mat[c].pc = "writing"
  /\ k \in mat[c].todo
  /\ PutRecord(mat[c].plan, k)
  /\ mat' = [mat EXCEPT ![c].todo = @ \ {k}]

(* write_record is public: anyone may write an admitted plan's record.     *)
CallWriteRecord(p, k) ==
  /\ k \in PlannedKeys(p)
  /\ PutRecord(p, k)
  /\ UNCHANGED mat

(* write_record raises, and materialize() with it.                         *)
WriteRefused(c, k) ==
  /\ mat[c].pc = "writing"
  /\ k \in mat[c].todo
  /\ ~Writable(mat[c].plan, k)
  /\ mat' = Idle(c)
  /\ UNCHANGED <<store, damaged, crashes, reader, given>>

(* Mutant: the receipt is issued without reading the rows back.            *)
ReconcilableUnread(p) ==
  LET g == PlanGen[p]
  IN  cand[g].plan = p /\ (cand[g].state = "WRITING" \/ cand[g].receipt = p)

(* The stored rows are exactly the plan's, every body is intact and the    *)
(* aggregate digest, taken in (customer_id, feature_name) order, is the    *)
(* plan's, taken in (partition_key, sort_key) order.                       *)
Reconcilable(p) ==
  LET g == PlanGen[p]
  IN  /\ cand[g].plan = p
      /\ rows[g] = PlanRows[p]
      /\ Intact(g)
      /\ p \in Orderly
      /\ cand[g].state = "WRITING" \/ cand[g].receipt = p

IssueReceipt(p) ==
  LET g == PlanGen[p]
  IN  /\ Reconcilable(p)
      /\ IF cand[g].state = "WRITING"
         THEN /\ cand' = [cand EXCEPT ![g] =
                         [state |-> "VALIDATED", plan |-> p, receipt |-> p]]
              /\ ops' = [ops EXCEPT ![PlanOp[p]] = MaterializeRow(p, "COMPLETED")]
         ELSE UNCHANGED <<cand, ops>>
      /\ receipts' = receipts \union {p}
      /\ UNCHANGED <<rows, ptr, history, decisions, damaged, crashes, reader, answers>>

Reconcile(c) ==
  /\ mat[c].pc = "writing"
  /\ mat[c].todo = {}
  /\ IssueReceipt(mat[c].plan)
  /\ mat' = Idle(c)

(* reconcile is public too: it may be called while a client still writes.  *)
CallReconcile(p) == IssueReceipt(p) /\ UNCHANGED mat

ReconcileRefused(c) ==
  /\ mat[c].pc = "writing"
  /\ mat[c].todo = {}
  /\ ~Reconcilable(mat[c].plan)
  /\ mat' = Idle(c)
  /\ UNCHANGED <<store, damaged, crashes, reader, given>>

(* The client dies, or interrupt_after raises, between two transactions.   *)
Crash(c) ==
  /\ mat[c].pc # "idle"
  /\ crashes < MaxCrashes
  /\ crashes' = crashes + 1
  /\ mat' = Idle(c)
  /\ UNCHANGED <<store, damaged, reader, given>>

----------------------------------------------------------------------------
(* activate(), with or without a stage 5 decision.                         *)

Answer(o, req, result, gated) ==
  [op |-> o, request |-> req, result |-> result, gated |-> gated]

(* Mutant: a replay is recognised by its operation alone.                  *)
SameOperation(o, req) == ops[o] # NoOp /\ ops[o].kind = "ACTIVATE"

(* The operation is on record for exactly this request.                    *)
SameRequest(o, req) ==
  /\ ops[o] # NoOp
  /\ ops[o].kind = "ACTIVATE"
  /\ ops[o].request = req

(* The acknowledgement was lost, or the caller asks again: an exact replay *)
(* returns the stored result; other content raises OnlineConflict.         *)
ReplayActivation(o, req, gated) ==
  /\ SameRequest(o, req)
  /\ answers' = answers \union {Answer(o, req, ops[o].result, gated)}
  /\ UNCHANGED <<store, damaged, mat, crashes, reader, receipts>>

(* Mutant: the bodies are not hashed again before the swap.                *)
ActivatableUnread(req) ==
  /\ cand[req.gen].state = "VALIDATED"
  /\ cand[req.gen].receipt = req.receipt

(* Mutant: a generation that was replaced may be activated again.          *)
ActivatableAgain(req) ==
  LET g == req.gen
  IN  /\ cand[g].state \in {"VALIDATED", "RETIRED"}
      /\ cand[g].receipt = req.receipt
      /\ Intact(g)
      /\ rows[g] = PlanRows[req.receipt]

(* The candidate is still exactly what its receipt says.                   *)
Activatable(req) ==
  LET g == req.gen
  IN  /\ cand[g].state = "VALIDATED"
      /\ cand[g].receipt = req.receipt
      /\ Intact(g)
      /\ rows[g] = PlanRows[req.receipt]

(* Mutant: the swap does not compare.                                      *)
PointerUnchecked(f, expected) == TRUE

(* The compare half of the compare-and-swap.                               *)
PointerMatches(f, expected) == ptr[f] = expected

(* Mutant: the replaced generation is not retired.                         *)
PromoteOnly(g, from) ==
  [h \in Generation |-> IF h = g THEN [cand[h] EXCEPT !.state = "ACTIVE"] ELSE cand[h]]

(* The candidates after g replaced the generation from.                    *)
Promote(g, from) ==
  [h \in Generation |->
     IF h = g THEN [cand[h] EXCEPT !.state = "ACTIVE"]
     ELSE IF h = from THEN [cand[h] EXCEPT !.state = "RETIRED"]
     ELSE cand[h]]

(* The table constraints of pointer_history (its key, and UNIQUE on the    *)
(* operation) are no guards here: HistoryChain shows no insert meets them. *)
CommitActivation(o, req, gated) ==
  LET g     == req.gen
      f     == PlanFs[cand[g].plan]
      from  == ptr[f].gen
      entry == [fs |-> f, version |-> req.expected.version + 1,
                from |-> from, to |-> g, op |-> o]
  IN  /\ ops[o] = NoOp
      /\ Activatable(req)
      /\ PointerMatches(f, req.expected)
      /\ ptr' = [ptr EXCEPT ![f] = [gen |-> g, version |-> @.version + 1]]
      /\ cand' = Promote(g, from)
      /\ ops' = [ops EXCEPT ![o] =
                   [kind |-> "ACTIVATE", request |-> req, result |-> entry]]
      /\ history' = history \union {entry}
      /\ answers' = answers \union {Answer(o, req, entry, gated)}
      /\ UNCHANGED <<rows, decisions, damaged, mat, crashes, reader, receipts>>

Act(o, req, gated) == ReplayActivation(o, req, gated) \/ CommitActivation(o, req, gated)

(* What a caller of activate() may pass as policy_decision_digest: none,   *)
(* that of any decision on record, for this operation or another, or that  *)
(* of one that would suit the request and need be on record nowhere.       *)
(* activate() stores it without looking for the decision.                  *)
Policies(o, g, expected, receipt) ==
  IF o \in PolicyOps
  THEN {NoDecision} \union {decisions[q] : q \in OpId} \union
       {[gen |-> g, expected |-> expected, receipt |-> receipt,
         status |-> "ELIGIBLE", reasons |-> FALSE]}
  ELSE {NoDecision}

(* A caller activates with a pointer it once read and a receipt it holds.  *)
Activate(o) ==
  \E f \in FeatureSet, g \in Generation, receipt \in receipts :
    \E expected \in PastPointers(f) :
      \E policy \in Policies(o, g, expected, receipt) :
        Act(o, [gen |-> g, expected |-> expected, receipt |-> receipt,
                policy |-> policy], FALSE)

(* Mutant: a decision may be recorded over an earlier one.                 *)
AlwaysUndecided(o) == TRUE

Undecided(o) == decisions[o] = NoDecision

(* record_activation_decision: immutable per operation, its own            *)
(* transaction.  The decision may rest on a pointer read long ago.         *)
RecordDecision(o) ==
  \E g \in Generation, receipt \in receipts, status \in {"ELIGIBLE", "REJECTED"},
     reasons \in BOOLEAN :
    /\ Undecided(o)
    /\ cand[g].plan # NoPlan
    /\ \E expected \in PastPointers(PlanFs[cand[g].plan]) :
         decisions' = [decisions EXCEPT ![o] =
           [gen |-> g, expected |-> expected, receipt |-> receipt,
            status |-> status, reasons |-> reasons]]
    /\ UNCHANGED <<cand, rows, ops, ptr, history, damaged, mat, crashes, reader, given>>

(* activate_with_decision, after its decision is on record.                *)
ActivateWithDecision(o) ==
  LET d == decisions[o]
  IN  /\ d # NoDecision
      /\ d.status = "ELIGIBLE" /\ ~d.reasons
      /\ Act(o, [gen |-> d.gen, expected |-> d.expected, receipt |-> d.receipt,
                 policy |-> d], TRUE)

----------------------------------------------------------------------------
(* pin_reader() and read(): two SELECTs with no transaction around them.   *)

PinReader(r, f) ==
  /\ reader[r].phase \in {"new", "pinned"}
  /\ ptr[f].gen # NoGeneration
  /\ reader' = [reader EXCEPT ![r] =
                  [phase |-> "pinned", key |-> NoKey, result |-> NoResult,
                   token |-> [fs |-> f, gen |-> ptr[f].gen, version |-> ptr[f].version]]]
  /\ UNCHANGED <<store, damaged, mat, crashes, given>>

ReadResult(g, k, status, content) ==
  [status |-> status, gen |-> g, key |-> k, content |-> content]

(* The first SELECT: the pinned generation must be readable.               *)
SelectCandidate(r, k) ==
  LET t == reader[r].token
      g == t.gen
  IN  /\ reader[r].phase = "pinned"
      /\ reader' = [reader EXCEPT ![r] =
           IF cand[g].state \in ReadableStates /\ PlanFs[cand[g].plan] = t.fs
           THEN [phase |-> "selected", token |-> t, key |-> k, result |-> NoResult]
           ELSE [phase |-> "pinned", token |-> t, key |-> NoKey,
                 result |-> ReadResult(g, k, "GENERATION_UNAVAILABLE", Absent)]]
      /\ UNCHANGED <<store, damaged, mat, crashes, given>>

(* Mutant: a row that is not there passes for one that is.                 *)
RowStatusesUnguarded(g, k) ==
  {"DEFINITION_MISMATCH"} \union
  (IF Damaged(g, k) THEN {"CORRUPT_RECORD"} ELSE {"EXPIRED", "STALE", "FOUND"})

(* What read() can make of the row of <<g, k>>, whichever definition, time *)
(* and freshness bound the caller passes.                                  *)
RowStatuses(g, k) ==
  IF rows[g][k] = Absent THEN {"ABSENT"}
  ELSE {"DEFINITION_MISMATCH"} \union
       (IF Damaged(g, k) THEN {"CORRUPT_RECORD"} ELSE {"EXPIRED", "STALE", "FOUND"})

(* The second SELECT: the row itself.                                      *)
SelectRow(r) ==
  LET t == reader[r].token
      k == reader[r].key
  IN  /\ reader[r].phase = "selected"
      /\ \E status \in RowStatuses(t.gen, k) :
           LET content == IF status = "FOUND" THEN rows[t.gen][k] ELSE Absent
           IN  reader' = [reader EXCEPT ![r] =
                 [phase |-> "pinned", token |-> t, key |-> NoKey,
                  result |-> ReadResult(t.gen, k, status, content)]]
      /\ UNCHANGED <<store, damaged, mat, crashes, given>>

(* The disk changes a stored body behind its digest.                       *)
Damage(g, k) ==
  /\ rows[g][k] # Absent
  /\ Cardinality(damaged) < MaxDamage
  /\ damaged' = damaged \union {<<g, k, Published(g)>>}
  /\ UNCHANGED <<store, mat, crashes, reader, given>>

----------------------------------------------------------------------------
ClientStep(c) ==
  \/ ListMissing(c)
  \/ \E k \in Key : WriteRecord(c, k) \/ WriteRefused(c, k)
  \/ Reconcile(c)
  \/ ReconcileRefused(c)

Next ==
  \/ \E c \in Client, p \in Plan : ReplayMaterialization(c, p) \/ BeginMaterialization(c, p)
  \/ \E c \in Client : ClientStep(c) \/ Crash(c)
  \/ \E p \in Plan : CallReconcile(p) \/ \E k \in Key : CallWriteRecord(p, k)
  \/ \E o \in OpId : Activate(o) \/ ActivateWithDecision(o)
  \/ \E o \in PolicyOps : RecordDecision(o)
  \/ \E r \in Reader, f \in FeatureSet : PinReader(r, f)
  \/ \E r \in Reader, k \in Key : SelectCandidate(r, k)
  \/ \E r \in Reader : SelectRow(r)
  \/ \E g \in Generation, k \in Key : Damage(g, k)

Spec == Init /\ [][Next]_vars

(* A client inside materialize() keeps running unless it dies, and callers *)
(* rerun a plan until it is complete, as the interrupted-then-resumed      *)
(* materialization of the tests and the stage 4 proof does.                *)
Fairness ==
  /\ \A c \in Client : WF_vars(ClientStep(c))
  /\ \A p \in Plan : SF_vars(\E c \in Client : BeginMaterialization(c, p))

FairSpec == Spec /\ Fairness

----------------------------------------------------------------------------
(* Properties.                                                             *)

(* The tables hold what their columns declare, a client in materialize()   *)
(* works on an admitted plan, and only FOUND carries a value.              *)
TypeOK ==
  /\ cand \in [Generation -> Candidate]
  /\ rows \in [Generation -> [Key -> Content \union {Absent}]]
  /\ damaged \subseteq Generation \X Key \X BOOLEAN
  /\ ops \in [OpId -> MaterializeOp \union ActivateOp \union {NoOp}]
  /\ ptr \in [FeatureSet -> Pointer]
  /\ history \subseteq HistoryEntry
  /\ decisions \in [OpId -> Decision \union {NoDecision}]
  /\ mat \in [Client -> [pc: {"idle", "listing", "writing"},
                         plan: Plan \union {NoPlan}, todo: SUBSET Key]]
  /\ \A c \in Client : mat[c].pc # "idle" => mat[c].plan \in Plan
  /\ crashes \in Nat
  /\ reader \in [Reader -> [phase: {"new", "pinned", "selected"},
                            token: Token \union {NoToken}, key: Key \union {NoKey},
                            result: Result \union {NoResult}]]
  /\ \A r \in Reader :
       LET result == reader[r].result
       IN  /\ reader[r].phase # "new" => reader[r].token # NoToken
           /\ reader[r].phase = "selected" => reader[r].key # NoKey
           /\ result # NoResult => (result.status = "FOUND" <=> result.content \in Content)
  /\ receipts \subseteq Plan
  /\ answers \subseteq
       [op: OpId, request: Request, result: HistoryEntry, gated: BOOLEAN]

(* A candidate that is VALIDATED or later holds, row for row, the records  *)
(* of the one plan its receipt certifies, whatever other clients were      *)
(* writing, replaying or dying meanwhile (reconcile, write_record).        *)
ReceiptIsTruth ==
  \A g \in Generation :
    cand[g].state \notin {"ABSENT", "WRITING"} =>
      /\ cand[g].receipt = cand[g].plan
      /\ cand[g].plan \in Plan
      /\ rows[g] = PlanRows[cand[g].plan]

(* A feature set's pointer and the candidates' states never disagree: the  *)
(* pointer names the only ACTIVE candidate of its feature set, and every   *)
(* ACTIVE candidate is the one its feature set's pointer names (activate). *)
PointerNamesActive ==
  /\ \A f \in FeatureSet :
       ptr[f].gen # NoGeneration =>
         /\ cand[ptr[f].gen].state = "ACTIVE"
         /\ PlanFs[cand[ptr[f].gen].plan] = f
  /\ \A g \in Generation :
       cand[g].state = "ACTIVE" => ptr[PlanFs[cand[g].plan]].gen = g

(* pointer_history is one unbroken chain per feature set: versions 1 to    *)
(* the pointer's, each once, each taking over from the generation the one  *)
(* before installed; no generation or operation appears in it twice.       *)
HistoryChain ==
  /\ \A h \in history : h.version \in 1 .. ptr[h.fs].version
  /\ \A f \in FeatureSet : \A v \in 1 .. ptr[f].version :
       \E h \in history : h.fs = f /\ h.version = v
  /\ \A h \in history :
       h.version = ptr[h.fs].version => h.to = ptr[h.fs].gen
  /\ \A h \in history :
       h.version = 1 => h.from = NoGeneration
  /\ \A h1, h2 \in history :
       /\ h1.fs = h2.fs /\ h2.version = h1.version + 1 => h2.from = h1.to
       /\ h1.fs = h2.fs /\ h1.version = h2.version => h1 = h2
       /\ h1.to = h2.to => h1 = h2
       /\ h1.op = h2.op => h1 = h2

(* Lost acknowledgements, retries and races over one operation identity:   *)
(* whatever activate() ever answered for an operation is the one committed *)
(* move of that operation, and answers exactly the request that was made.  *)
AnswersAreDurable ==
  /\ \A a \in answers :
       /\ a.result \in history
       /\ a.result.op = a.op
       /\ a.result.to = a.request.gen
       /\ a.result.from = a.request.expected.gen
       /\ a.result.version = a.request.expected.version + 1
  /\ \A a, b \in answers :
       a.op = b.op => a.request = b.request /\ a.result = b.result
  /\ \A p \in receipts :
       /\ cand[PlanGen[p]].receipt = p
       /\ ops[PlanOp[p]] = MaterializeRow(p, "COMPLETED")

(* What activate_with_decision ever answered, as the first to ask or as a  *)
(* replay of whoever committed the operation, is covered by a decision     *)
(* that is on record for the operation and stays there: ELIGIBLE without   *)
(* reasons, of this generation and its receipt, on the pointer the move    *)
(* replaced.  Nothing of the kind holds of what activate() answers.        *)
PolicyGate ==
  \A a \in answers :
    a.gated =>
      LET d == decisions[a.op]
      IN  /\ d # NoDecision
          /\ d = ops[a.op].request.policy
          /\ d.status = "ELIGIBLE" /\ ~d.reasons
          /\ a.result.to = d.gen
          /\ a.result.from = d.expected.gen
          /\ a.result.version = d.expected.version + 1
          /\ cand[d.gen].receipt = d.receipt

(* A token is a move of the pointer that was really made.                  *)
Moved(t) == \E h \in history : h.fs = t.fs /\ h.version = t.version /\ h.to = t.gen

(* A read through the token t answered what the plan of its generation says. *)
AnsweredAsPlanned(t, result) ==
  LET planned == PlanRows[cand[t.gen].plan][result.key]
  IN  /\ result.gen = t.gen
      /\ result.status # "GENERATION_UNAVAILABLE"
      /\ result.status = "ABSENT" <=> planned = Absent
      /\ result.status = "FOUND" => result.content = planned
      /\ result.status = "CORRUPT_RECORD" => <<t.gen, result.key, TRUE>> \in damaged

(* A reader that pinned a generation is served from it for good: never     *)
(* unavailable, never another generation, never ABSENT for a planned key   *)
(* nor FOUND for another content, and CORRUPT only if the damage came when *)
(* the generation was published already, over any number of pointer moves  *)
(* between its pin and the two SELECTs of each read (pin_reader, read).    *)
PinnedReadsConsistent ==
  \A r \in Reader :
    /\ reader[r].token # NoToken => Moved(reader[r].token)
    /\ reader[r].result # NoResult => AnsweredAsPlanned(reader[r].token, reader[r].result)

(* However many clients write, die and resume on one plan with lists of    *)
(* missing records that others made stale, a client that is through with   *)
(* its list gets its receipt: only a damaged body, or an order of ids that *)
(* plan and rows do not share, is a reason to refuse (missing_records,     *)
(* reconcile).                                                             *)
RefusedOnlyForDamage ==
  \A c \in Client :
    LET p == mat[c].plan
    IN  mat[c].pc = "writing" /\ mat[c].todo = {} /\ p \in Orderly =>
          Reconcilable(p) \/ ~Intact(PlanGen[p])

(* An admitted materialization is finished however many writers raced or   *)
(* died on it, unless the disk damaged one of its bodies: the rows already *)
(* there never keep a rerun of the same plan from completing it.           *)
MaterializationCompletes ==
  \A p \in Orderly :
    ops[PlanOp[p]] = MaterializeRow(p, "WRITING")
      ~> (ops[PlanOp[p]] = MaterializeRow(p, "COMPLETED") \/ ~Intact(PlanGen[p]))

(* The store implements Publication: a generation becomes visible in one   *)
(* step with all the rows of one of its plans, keeps them, is published at *)
(* most once, and heads move one version at a time.                        *)
VisibleRows ==
  [g \in Generation |-> IF Published(g) THEN rows[g] ELSE Absent]

PromisedRows ==
  [f \in FeatureSet |-> [g \in Generation |->
     {PlanRows[p] : p \in {q \in Plan : PlanFs[q] = f /\ PlanGen[q] = g}}]]

PublicationLog ==
  {[fs |-> h.fs, version |-> h.version, gen |-> h.to] : h \in history}

Pub == INSTANCE Publication WITH
  head <- ptr, log <- PublicationLog, visible <- VisibleRows,
  Promised <- PromisedRows, Hidden <- Absent, Rollback <- FALSE

ImplementsPublication == Pub!Spec

=============================================================================
