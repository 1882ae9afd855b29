# FeatureForge: TLA+ models and proofs

This directory models FeatureForge: the code that builds generations of feature
values, validates them and makes them visible to readers, and the managed
run in the cloud that drives it. TLC checks the models on small instances. TLAPS
proves the main safety properties of the four stores, of the computation they
publish, of the control plane that drives a managed run and of the exclusive
lease of such a run for every instance. Paths below are relative to the repository root; module names of Python are relative
to `src/featureforge/`.

To repeat the checks:

    tlc -workers 2 -config MCOnlineMaterialize.cfg MCOnlineStore
    tlapm OnlineStoreProofs.tla

`PROJECT.json` names, for every run, its module, configuration and properties;
for every definition, the source lines it stands for; and for every property, a
mutated definition that breaks it.

## 1. Inventory

### The system

FeatureForge computes feature values of customers from event revisions, both
point-in-time correct (training rows) and latest (serving rows). It ships them
as *generations*: immutable, content-addressed sets of values that are built
out of sight, compared with independent evidence, and then published by moving
one pointer with a compare-and-swap. Readers pin the generation the pointer
names. The same idea is implemented four times, with increasingly many moving
parts:

1. `store.py`, the reference store (SQLite), driven by the simulator;
2. `lifecycle.py`, the lifecycle authority (SQLite), with manifests,
   independent artifacts, validation receipts and rollback;
3. `online.py`, `LocalOnlineStore` (SQLite), which materializes a plan record
   by record with resumption, reconciles it and publishes it, optionally under
   a recorded policy decision;
4. `aws_runtime.py` with `control_worker.py`, `glue_launch.py`,
   `s3_immutable.py` and `infra/terraform/compute.tf`: the same protocol on
   DynamoDB, S3, Glue and Step Functions, where calls time out, are retried and
   lose their responses.

Before a generation can be published it has to be computed: in full or
incrementally, by three implementations that must agree (`temporal.py` with
`computation.py`, `spark_runtime.py`, `expected.py`). And before a managed run
may start, an operator must hold an exclusive lease and an approval
(`tools/execute_stage6_plan.py`, `tools/finalize_stage6_saved_plan.py`,
`managed_admission.py`).

### Components

| Component | State it keeps | Operations | Correct when | Modelled |
|---|---|---|---|---|
| Local online store, `online.py:762-1476` | candidates, records, operations, pointers, pointer history, activation decisions | `materialize` (= `begin_materialization`, `missing_records`, `write_record`*, `reconcile`), `activate`, `record_activation_decision`, `activate_with_decision`, `pin_reader`, `read`, `candidate_page` / `candidate_records` | receipts are true of the stored rows; one active generation per feature set; gapless history; answers stable under retry; pinned reads never mix generations; interrupted work can be finished | partly: `OnlineStore`, `CandidateRecords` |
| Lifecycle store, `lifecycle.py` | definitions, artifacts, generations, candidate values, receipts, pointer, history, operations | `put_artifact`, `create_generation`, `begin_build`, `put_candidate_batch`, `seal_candidate`, `validate_candidate`, `publish` (activate, rollback), `pin_reader`, `read_pinned` | only proven candidates become visible; artifacts immutable; as above with rollback | partly: `LifecycleStore` |
| Reference feature store, `store.py` | generations, offline and online values, pointer | `create_generation`, `put_offline`, `stage_online`, `mark_ready`, `activate`, `serve` | the pointer stays on a generation that was ready; versions handed out once | partly: `FeatureStore` |
| DynamoDB request boundary, `online.py:341-760` | none | request builders | each condition expression says what the local transaction checks | partly: `CloudOnline` |
| Cloud online runtime, `aws_runtime.py:451-748` | owner item (`WRITING`, `SEALED`, `VALIDATED`), records, candidate receipt, pointer, operation | `materialize`, `records`, `activate`, each recovering from lost responses | as the local store, over conditional writes and a scan that is no snapshot | yes: `CloudOnline` |
| Task ledger and control worker, `aws_runtime.py:228-407`, `control_worker.py` | ledger items per task (started, completed with result) | `begin`, execute, `complete` for the seven tasks | one result per task and run, whatever is retried | yes: `ControlPlane` |
| Step Functions state machine, `compute.tf` | current state, retry counter | task sequence, retries, wait for the job, quarantine, time-out | every execution ends, and is quarantined only for cause | yes: `ControlPlane` |
| Glue launcher, `glue_launch.py` | authority binding, three durable launch slots | bind, reserve, launch, record | at most one call per slot; a launch that may have happened is accounted for | yes: `ControlPlane` |
| Immutable S3 outputs and the Glue job, `s3_immutable.py`, `jobs/glue_point_in_time.py` | objects | create-once put, reconciliation of an ambiguous put | one content per key; own success recognised | partly: `ControlPlane`, the computation in `Backfill` |
| Managed admission, `managed.py`, `managed_admission.py`, `stage6_live.py` | none of their own | lease, approval, limits, two decisions | a grant was made under the lease then in force | partly: `PlanLease` |
| Plan execution and finalization, `tools/execute_stage6_plan.py`, `tools/finalize_stage6_saved_plan.py` | the lease object's versions, saved plans, published authorities | replace an expired lease, plan, publish; prove a saved plan | leases never overlap, an authority ends with its lease | partly: `PlanLease` |
| Affected scope and incremental rebuild, `spark_runtime.py:425-642` | none | scope, incremental or full build | equals the full computation | yes: `Backfill` |
| Generation artifacts on disk, `spark_runtime.py:645-694` | directories | `write_generation`, `read_generation` | a reader finds a whole generation or refuses | yes: `Backfill` |
| Temporal selection and features, `temporal.py`, `computation.py`, `dataset.py`, `expected.py`, `model.py`, `definitions.py`, `registry.py` | definition registry | selection, window features, expected rows, training dataset | no leakage; window boundaries; implementations agree | partly: `Backfill` |
| Parity and activation policy, `parity.py`, `assurance.py` | none | comparison, gates | eligible only if every gate passes | what a decision *binds* is in `OnlineStore`, the frozen report in `ControlPlane`; the gates are not modelled |
| Provenance, canonical JSON, simulator, CLI | none that outlives a call | decoding, formatting, a sequential demonstration | what is decoded is what was encoded | no |
| Read-only recovery, proof and validation scripts, other `tools/` | none | scripts against evidence or one deployment | evidence is of the deployment it names | no |

### Interactions

The simulator drives the reference store in one thread. Everything else shares
state through a database: several connections to one SQLite file for the local
stores, several workers and retries against DynamoDB and S3 for the cloud. A
method of a local store is usually one `BEGIN IMMEDIATE` transaction; where it
is not, other connections run between its statements, and this is where the
models put separate actions. Policy evaluation (`assurance.py`) hands a decision
to `activate_with_decision`, which stores it in one transaction and activates in
another.

In the cloud, Step Functions calls the control worker for each task and waits
for the Glue job itself. The worker calls the ledger before and after a task,
the admission verifier, the Glue launcher, and the cloud online runtime; worker
and job freeze what they produce as immutable objects of the run's prefix. The
job computes its rows with the Spark runtime, whose predecessor generation comes
from disk. The plan executor writes the lease that admission reads.

### Hard behaviours

- materialization is many transactions: two clients may interleave in it, one
  may die in it, and what a client listed as missing may be out of date;
- several plans may claim one generation or one operation identity;
- a publisher compares against a pointer it read long ago;
- a committed publication whose acknowledgement was lost is asked for again,
  possibly after other publications, possibly with other content;
- pinning and reading are several statements with publications between them;
- checks made outside the transaction that acts on them (`put_artifact`,
  `stage_online`, `mark_ready`, `store.activate`);
- stored bodies that no longer hash to the digest beside them;
- pages of one traversal fetched while writers add rows;
- requests that arrive after their sender gave up, and transactions the service
  answers from memory;
- a scan that is no snapshot and has a page budget;
- task attempts that go on after the machine has given them up, and a task that
  works before it is in the ledger;
- a job launch that may or may not have happened, and the immutable outputs of
  the run it started;
- corrections across a window's edge, and rows carried over a chain of builds;
- two writers of one staging directory;
- a lease, an approval, an inventory and a clock that are read one after the
  other.

The hazards in `PROJECT.json` list each at its line with the property that
covers it, or the reason none does.

## 2. Modules

    Publication                          what a store promises about publishing
      ^ implemented by
      |-- OnlineStore                    proved in OnlineStoreProofs
      |-- LifecycleStore                 proved in LifecycleStoreProofs
      |-- CloudOnline                    proved in CloudOnlineProofs
            :
            : (coarse in)
    ManagedRun                           what a managed run promises
      ^ implemented by
      |-- ControlPlane                   proved in ControlPlaneProofs

    FeatureStore                         proved in FeatureStoreProofs
    PlanLease                            proved in PlanLeaseProofs
    Backfill                             proved in BackfillProofs
    CandidateRecords                     proved in CandidateRecordsProofs

**Publication** is the abstract specification: per feature set a head that moves
one version at a time, a log of its moves, and generations that become visible
in one step, complete, with content that never changes. `Rollback` says whether
a published generation may be published again. The online store and the cloud
runtime implement it with `Rollback = FALSE`, the lifecycle store with `TRUE`.

**ManagedRun** is the other abstract specification: every task of a run has at
most one result, results come in the order of the workflow, what is recorded of
a job is the job recorded as launched, and the pointer is moved once, after an
eligible parity.

The modules of one component do not share state with those of another:
`ControlPlane` keeps its online generation coarse (claimed, validated, whole or
not; the pointer; the operation), which is what the steps of `CloudOnline` amount
to: `OnlyForward` and `AnswersAreDurable` of `CloudOnline` are the facts that
make it sound to see `materialize` as a claim followed by a validation, and
`activate` as one step that a repetition answers.

**OnlineStore** is `LocalOnlineStore`. Its variables are the tables: `cand`
(candidates), `rows` (records), `ops` (operations), `ptr` (pointers), `history`
(pointer_history), `decisions` (activation_decisions). `damaged` names records
whose body no longer hashes to its digest, and whether their generation was
published when that happened. `mat` holds where each client is in
`materialize()`, `reader` where each reader is in `read()`. `receipts` and
`answers` remember what callers were ever told; an answer is `gated` if
`activate_with_decision` gave it.

| Action | Code |
|---|---|
| `BeginMaterialization`, `ReplayMaterialization` | `begin_materialization`, one transaction; a conflict raises and is no step |
| `ListMissing` | `missing_records`, no transaction: the list may go stale |
| `PutRecord` in `WriteRecord` / `CallWriteRecord`, `WriteRefused` | `write_record`, one transaction per record; accepted as new, accepted as replay, or raised; by a client in `materialize()` or by anyone |
| `IssueReceipt` in `Reconcile` / `CallReconcile`, `ReconcileRefused` | `reconcile`, one transaction that reads the rows back, compares counts and digests and issues the receipt; the last step of `materialize()`, or called by anyone at any time |
| `Crash` | the process dies, or `interrupt_after` raises, between two transactions |
| `Activate` | `activate`, called with no policy digest or with any (`Policies`): of a decision on record, for this operation or another, or of one that is on record nowhere. `ReplayActivation` or `CommitActivation`, as the request is on record or not |
| `RecordDecision`, `ActivateWithDecision` | `record_activation_decision`; then `activate_with_decision`, which needs ELIGIBLE and no reason codes and calls `activate` |
| `PinReader`, `SelectCandidate`, `SelectRow` | `pin_reader`; the two SELECTs of `read` |
| `Damage` | the environment: a stored body changes |

One element of `Plan` stands for one plan digest, one of `Content` for one
record digest; equality of digests is equality of elements. The time and
freshness arguments of `read` are the caller's, so a row that is there may be
`FOUND`, `EXPIRED` or `STALE`. A policy request carries the decision itself in
place of its digest, and `activate` does not ask whether it is on record: the
code does not either (`online.py:1080-1082`, `1142-1156`).

**CandidateRecords** looks inside one comparison that OnlineStore takes as a
constant (`Orderly`): the order in which a plan and a reconciliation list the
same records before hashing them, and the keyset paging of `candidate_records`.
Identities are sequences of character codes, because their order is the subject.

**LifecycleStore** is `lifecycle.py`: `artifacts`, `gens` (generations with
their receipts), `rows` (candidate_values), `ptr`, `history`, `ops`. Every
method in one transaction is one action. `put_artifact` is two (`CheckArtifact`,
`InsertArtifact`), `read_pinned` is two SELECTs (`SelectGeneration`,
`SelectValue`). `Tamper` is the environment: a value of a sealed candidate
changes behind the store's back, which `publish` re-checks for. `tampered` keeps
the pointer's version at that moment, so that a property can tell a change that a
later publication had to notice from one that came after it.

**FeatureStore** is `store.py`: `status`, `offline`, `online`, `ptr`. It splits
`stage_online` (`CheckStageable`, `StageOnline`), `compare_parity`
(`ReadOffline`, `CompareOnline`), `mark_ready` (`CheckBuilding`, `MarkReady`)
and `activate` (`CheckPublishable`, `Activate` / `ActivateRefused`) at the point
where the code looks at a status outside the statement that acts on it.

**CloudOnline** is `DynamoOnlineRuntime` with the conditions its requests carry:
`owner` (the `GENERATION#g/OWNER` items), `item` (the online table), `cand`,
`ptr`, `op` (the control table). A worker is one invocation. Each request is one
step, evaluated with its writes when it *arrives*.

| Action | Code |
|---|---|
| `CallMaterialize`, `CallRecords`, `CallActivate` | an invocation begins |
| `ReadOwner`, `SendClaim` | `_acquire`: read, create if absent, after any exception read again |
| `SendRecord`, `ExplainWrite` | `_write_record`, and what `materialize` makes of its failure |
| `SendSeal`, `ConfirmSeal` | `_seal` and its exception path |
| `ScanPage` | one page of `records`: the order of the table, the filter after the limit, the page budget |
| `SendValidation`, `ExplainValidation`, `ConfirmCandidate` | the transaction that makes the receipt durable, its exception path, the final read |
| `ReplayOperation`, `SendActivation` | `activate`: the operation read before, and again after a failure |
| `Send` (in all of these) | answered; lost, and then perhaps sent again by the SDK; or answered from the memory of the transaction token (`Remembered`) |
| `Arrive` | a request nobody waits for reaches the table |
| `Die` | the invocation ends between two requests |
| `Expire` | the time to live removes a record |

**ControlPlane** puts four parts together, because their faults only matter
together: the machine (`sf`), the worker's concurrent invocations (`inv`), the
ledger, the launcher's authority `binding` and slots (`attempt`), the Glue runs
(`job`), and the objects of the run's prefix.

| Action | Code |
|---|---|
| `Submit`, `Invoke`, `Throttle`, `Poll`, `Timeout` | the states, retrier and catchers of `compute.tf` |
| `Precheck`, `Verify`, `Freeze` | VALIDATE before `ledger.begin`: ownership, the admission with its live reading, the frozen expected state |
| `Prior`, `BeginTask`, `CompleteTask` | what `dispatch` does around every other task |
| `BindLaunch`, `ReadSlot`, `Reserve`, `Launch`, `NoteLaunch` | `DurableGlueLauncher.start` |
| `JobStep`, `JobFails` | the Glue job puts rows, manifest, authority, each with `put_immutable_output` |
| `RecordGlue` | RECORD_GLUE: outputs read back, the launch compared |
| `ClaimGeneration`, `FillGeneration` | MATERIALIZE_ONLINE, coarse |
| `CompareRecords`, `FreezeReport` | PARITY, its report frozen whatever it says |
| `ConfirmParity`, `MovePointer` | ACTIVATE |
| `CompleteRun` | COMPLETE |
| `Land` | a put whose answer was lost arrives |
| `Crash`, `Abort`, `Orphan` | an invocation dies and the service says so; fails in a way the retrier does not name; or goes on although the machine was told it failed |
| `Lapse`, `ExpireRecord`, `OtherActivation` | the admission ends, a record expires, another run moves the pointer |

**Backfill** is the computation and what is kept of it. `history` only grows;
`Select`/`Materialize` are the library, `ComputedRows` is Spark's
`row_number` selection, `ExpectedRows` the projector's dictionary;
`AffectedPairs`, `TooWide`, `IncrementalBuild` are the scope and the rebuild;
`DatasetRows` the training rows. `disk` and `staging` are directories of three
files, and a `writer` takes `write_generation` in the steps the file system
sees: `Inspect`, `OpenStaging`, `EmptyHeld`, `RemoveStaging` (rmtree),
`MakeDir`, `WriteRows`, `WriteManifest`, `WriteMarker`, `Rename`. A writer in
rmtree holds the directory it opened (`held`), wherever that has been renamed to
meanwhile.

**PlanLease** has the lease object's versions, the backend state, and three
programs that read them: the executor (`Begin`, `VerifyBackend`, `InspectLease`,
`Acquire`, `PutLease`, `RereadLease`, `Plan`, `Finish`, `RecheckLease`,
`Publish`), the finalizer of a plan whose executor died (`StartFinalizer`,
`Finalize`), and admission (`Ask`, `ReadLease`, `DecideFirst`, `DecideAgain`).
`Approve`, `Apply`, `Destroy` and `Die` are the operators.

The `MC...` modules give the constants values. Definitions marked *Mutant*, or
named for what they leave out just before the definition they vary, are
never used by a specification; each is a plausible bug in the definition that
follows it, kept to show that the properties would notice. `TypeOK` in the other
modules states the types of the variables for the reader and for the proofs;
only that of OnlineStore is a property of a run; those of the modules with proofs
are proved, but for Backfill, which has none: a revision or a definition is
whatever record the constants name.

## 3. Runs

| Run | Checks | On | Distinct states |
|---|---|---|---:|
| `online_materialize` | `TypeOK`, `ReceiptIsTruth`, `PointerNamesActive`, `HistoryChain`, `AnswersAreDurable`, `PinnedReadsConsistent`, `RefusedOnlyForDamage`, `ImplementsPublication` | 2 clients, 1 reader, 3 plans over 2 generations, 2 keys, 5 operations, 1 damage, 1 crash | 166,407 |
| `online_recovery` | `PolicyGate`, `MaterializationCompletes` | 2 clients, 3 plans (one whose digests never agree), 1 operation with decisions and policy digests, 1 crash, no damage, under fairness | 64,710 |
| `candidate_walk` | `WalkComplete` | 5 rows, pages of 2 | 1,659 |
| `candidate_order` (fails) | `CompleteCandidateMatchesPlan` | customers `A` and `A B` | - |
| `lifecycle_publish` | `ProvenBeforeVisible`, `HistoryChain`, `AnswersAreDurable`, `PinnedReadsConsistent`, `ArtifactsImmutable`, `ImplementsPublication` | 2 generations, 3 operations, 4 artifacts of which two claim one identity, 2 writers, 1 reader, 3 versions, 1 tampered row | 579,924 |
| `reference_race` | `PointerIsProven`, `EachVersionOnce` | 2 clients, 2 generations, 1 key with 2 times and 2 contents, 2 versions | 203,689 |
| `cloud_online` | `SealedIsWhole`, `OperationsAreTheChain`, `AnswersAreDurable`, `OnlyForward`, `ScanNeverSpurious`, `ImplementsPublication` | 2 workers, 3 plans over 2 generations and 2 feature sets, 2 keys, pages of 1, 1 lost response or expiry | 1,019,729 |
| `control_race` | `CarriedIsDurable`, `ActivatedIsProven`, `LaunchBound`, `WrittenOnce`, `ImplementsManagedRun` | 2 executions, 2 invocations, 2 readings, 1 fault | 226,715 |
| `control_retry` | `RetriesAreHarmless`, `EventuallyEnds` | 1 execution, 1 invocation, 2 faults, under fairness | 62,880 |
| `backfill` | `ImplementationsAgree`, `IncrementalEqualsFull`, `DatasetsAreReproducible` | 5 revisions of 2 payments, 2 customers, 5 features, 2 cutoffs, 2 identities, 2 writers, 2 builds | 257,952 |
| `plan_lease` | `LeasesNeverOverlap`, `OneLeaseInForce`, `GrantedUnderTheLease`, `TakeoverOnlyWhenIdle` | 2 executors, 2 starts, 1 admission, 6 ticks | 809,647 |
| `lease_form` (fails) | `DeniedOnlyForCause` | 1 start, 1 admission | - |

### Why the bounds are enough to be interesting

*Online store.* The conflicts `begin_materialization` tells apart are an
operation reused by another plan and a generation claimed by another plan;
plans pA, pB, pC have both. Two keys are the fewest for which a candidate can be
half written, and one plan leaves a key out, so ABSENT is answered of a
published generation. Two generations in one feature set let a publication
retire another while a stale caller still expects the first pointer, and a
reader pinned between them read a retired one. The runs have one feature set;
that several do not disturb each other is proved (section 4). No operation or
generation is activated twice, so the versions need no bound. `MaxCrashes = 1`
with two clients gives a crash before, during and after the other client's work.
Decisions are recorded for one operation only (`PolicyOps`), and a policy digest
is passed for that one: decisions are per operation and do not meet. The proof has
no such bound.

*Lifecycle store.* Two generations race for the first place, or the second
replaces the first; three versions allow activate, activate, rollback. One
builder may write a value its manifest does not have, so validation fails in
some behaviours.

*Reference store.* Two clients suffice for each check to be overtaken. With one
feature key the values differ by time and content, which is what staging tells
apart.

*Cloud runtime.* pA and pB follow each other in one feature set, pC claims pA's
generation for another with a record of the same identity. Two workers are the
fewest of whom one can scan while the other still writes. The table has three
items and a page one, so scans have several pages with steps between
them, and the table can hold as many items as the page budget of pB evaluates:
a scan of pB gives up there, one of pA never does. One fault is one lost response,
with its late arrival and its repetition, or one expired record: `MaxFaults`
bounds them together. `Expects` lists the pointers a caller may expect, a stale
one among them.

*Control plane.* `Invocation` has two members, one more than the concurrency
`compute.tf` reserves: the ledger must not depend on it. `MaxRetries`,
`MaxLaunches` and `MaxAttempts` are those of the code (3). `RetriesAreHarmless`
is about faults within these budgets, so `control_retry` has fewer faults
(2) than attempts; with as many faults as attempts it would be false, and the
code does not promise it. In `control_race` a second execution of the run may be
submitted at any time. `input` says what the computation and the comparison will
find, chosen once: both are functions of frozen objects.

*Backfill.* The revisions make every case of a correction: one event moves from
inside the window to before it, one is retracted, and a rival revision of the
first, after the cutoff, makes the history ambiguous. `Fraction` lets the scope
fall on both sides of the full-build threshold. Two builds are the fewest for a
chain; two writers share one staging directory or use two. A ratio is
counted in twelfths, exact for up to four payments. `Backdated = FALSE` is
an assumption, see the known disagreements.

*Plan lease.* All programs read one clock, in ticks since the bootstrap; a lease
lasts 2 ticks and a window 3, so with 6 ticks a second lease begins and ends in
the run, each boundary is met exactly, and an approval or a qualification can
outlive its lease and be outlived by it. Two starts of the executor are either
at once, against one version, or one after the other.

*Symmetry* is used over clients, workers, writers, executors, operations,
executions, invocations, readings or generations that nothing but their name
distinguishes; never in a run that checks liveness.

*Deadlock.* `CHECK_DEADLOCK FALSE` in the runs of ControlPlane, Backfill and PlanLease,
where the system really ends: executions reach a final state, builds are
bounded by `MaxStarts`, time by `MaxTime`. Elsewhere replays and
re-reads keep the systems moving, also at their bounds, and the check is on.

### Fairness

`online_recovery`: `WF(ClientStep(c))`: a client that is inside
`materialize()` runs its next transaction, since nothing in the loop waits, and
its death is the separate action `Crash`. `SF(BeginMaterialization(c, p))` over
some client: callers rerun a plan that was interrupted. Weak fairness is not
enough, because a rerun is not possible at the moments when every client is busy.
The code has no retry loop of its own; it is the caller that reruns, as
`tests/test_stage4_online.py` (`interrupt_after=4`, then the same plan again)
does. Crashes are bounded, so they stop eventually. The property excuses a plan one of
whose bodies is damaged, because the code does: `missing_records` looks at keys
alone, the damaged row is never rewritten, and every reconciliation fails. This run
damages nothing, so it has no use for the excuse. That damage is the only cause is
`RefusedOnlyForDamage`, in `online_materialize`, where a body is damaged.

`control_retry`: weak fairness of the machine (`Invoke`, `Throttle`,
`Poll`), of a running invocation and of a running job. Step Functions takes the
transition it has; every request of an invocation, the invocation itself and a
Glue run have timeouts after which they answer or have failed. Submitting is not
fair, and no fault is: nothing makes one happen. `EventuallyEnds` therefore
shows that the retrier, the wait for the job and the quarantine lead to an end
by themselves, without the machine's time-out.

### What the violated runs say of the code

1. `candidate_order`: `build_materialization_plan` hashes the records in the
   order of `(partition_key, sort_key)`, `reconcile` in the order of
   `(customer_id, feature_name)`. The orders differ when one identity extends
   another with a character below `#`, such as a space; the complete and intact
   candidate then never validates.
2. `lease_form`: the executor writes a lease with a final newline, admission
   accepts only the canonical bytes without one. A current, approved lease
   the executor has written is therefore denied, where
   `docs/stage6/lease-procedure.md:12` lists other reasons only.

### Known disagreements without a run

Found while modelling; each is behaviour the models have, so that the
properties above hold in its presence, or an assumption they make.

- `online.py:1060-1156`: `activate` takes a `policy_decision_digest`, stores it
  with operation and history and never looks for the decision. So an operation
  can be committed under the digest of a decision that is rejected, recorded for
  another operation, or recorded only afterwards or never, where invariant 21
  (`README.md:162` of the repository) wants the decision persisted before the
  compare-and-swap. `docs/stage5/parity-activation-specification.md:9` says that
  `activate` stays the lower-level primitive and Stage 5 callers use
  `activate_with_decision`, so `PolicyGate` speaks of what the latter answers,
  and of nothing else. That is not idle: the operation it replays may
  have been committed by a caller of `activate`. If that caller passed the same
  digest, the request is the same and the answer is the replay of a move the
  decision covers, though the move may be older than the record of the decision.
- `online.py:885-897`: `missing_records` looks at keys alone. A row damaged while
  its candidate is WRITING is never rewritten and `reconcile` refuses the
  candidate for ever. `RefusedOnlyForDamage` and `MaterializationCompletes` say
  that this is the only reason (but for ids that sort differently); neither promises a
  repair.

- `store.py:207`: `stage_online` reads the status before its transaction, so a
  delayed call rewrites the values of a generation that has meanwhile been
  activated (`README.md:146` of the repository says otherwise). FeatureStore has it:
  `PointerIsProven` is about the pointer and the status, not about the values.
- `lifecycle.py:207`: the look-up in `put_artifact` is outside the
  inserting transaction, so a concurrent exact replay gets an integrity error
  where `docs/stage2/lifecycle-specification.md:13` promises idempotence.
  LifecycleStore has it: the insert is refused.
- `spark_runtime.py:567-574`: an incremental build never compares the
  predecessor's source with the history it reads. A revision that arrives after the
  predecessor was built but claims to have been known before is in neither
  the predecessor's rows nor the scope. With `Backdated = TRUE`,
  `IncrementalEqualsFull` is violated; the run assumes that what arrives
  later is also known later. Invariant 14
  (`README.md:154` of the repository), that the scope cannot omit a changed key,
  makes no such assumption.
- `spark_runtime.py:661-669`: a generation that readers accept may be emptied, and
  then even replaced. Of two writers of one identity, the one in rmtree may have
  opened the staging directory the other fills and then renames into place; what
  it empties is then the final directory. Readers refuse it, and a later call finds a
  directory that is no exact replay and raises. With a third writer it goes further:
  w1 opens the staging directory that w2 has filled, and w3 is past its look at
  the final path; w2 renames build B into place, and readers accept it; w1's
  rmtree empties it; w3 makes a new staging directory, fills it with build C and
  renames it over the empty one, which `rename` allows; readers accept C.
  The model has every step of this, for any number of writers. No property says
  that an accepted generation stays, for it is false. What is true, and what a later
  incremental build relies on, is in `IncrementalEqualsFull`: whatever readers
  accept at a moment is one whole build, never the rows of one with the manifest of
  another. It fails when `read_generation` no longer compares the three files.

### Assumptions the models make of the world

- `Backfill.Compute` is one operator, where the code has three:
  `computation.py:40-79`, the SQL aggregates of `spark_runtime.py:284-315` and
  `expected.py:96-133`. The models therefore compare which payments each path selects,
  and say nothing of what it then does with them: that the three yield one
  value for one set of payments is assumed.
- `Backfill.Ingest` accepts only revisions known later than the last cutoff used,
  unless `Backdated`. No code enforces this (`model.py:58-107` takes any knowledge
  time); it is the assumption of the last two theorems of `BackfillProofs`.
- `PlanLease.Apply` checks a plan authority (`PlanAuthority.assert_current`,
  `managed.py:469`) and deploys, in one step. No code of the repository does this:
  nothing calls `assert_current` before an apply, and a `terraform apply` takes
  time. `TakeoverOnlyWhenIdle` rests on it. An apply that starts under its
  authority and ends after it would break the property, and nothing in the
  code would notice; whoever writes the missing caller has to bound
  its duration.
- The first lease of `PlanLease` is put by hand, in the canonical form. Those the
  executor writes are refused for their newline (`lease_form`), so every
  grant of the model is under the first lease. The proof of
  `GrantedUnderTheLease` does not use the form, so the property would outlast a repair
  of either tool.
- `CloudOnline.ScanPage` cuts a page at its limit of 100 items
  (`aws_runtime.py:567`) and never at DynamoDB's megabyte: an item is one feature
  value with its digests, of about a kilobyte. The filter names generation
  and feature set; the model's names the generation, which has one owner and so one
  feature set.

## 4. Proofs

### The online store

`OnlineStoreProofs` proves, for any number of feature sets, generations, keys,
plans, clients and readers:

| Theorem | Statement |
|---|---|
| `TypeCorrect` | `Spec => []TypeOK` |
| `ReceiptsHold` | `Spec => []ReceiptIsTruth` |
| `PointersHold` | `Spec => []PointerNamesActive` |
| `HistoryHolds` | `Spec => []HistoryChain` |
| `AnswersHold` | `Spec => []AnswersAreDurable` |
| `PolicyHolds` | `Spec => []PolicyGate` |
| `PinnedReadsHold` | `Spec => []PinnedReadsConsistent` |
| `RefusalsHold` | `Spec => []RefusedOnlyForDamage` |
| `Refinement` | `Spec => ImplementsPublication` |

They rest on `PlanAssumption` (a plan has a feature set, a generation, an
operation and rows), `BoundAssumption` and `NullAssumption` (a null is no value
of its column), which TLC evaluates in the runs.

All follow from one inductive invariant (`Invariance`):

    IInv == TypeOK /\ StoreInv /\ ClientInv /\ AnswerInv /\ ReaderInv

None of the checked invariants is inductive alone; the argument runs as follows.

- `CandidateInv` and `RowInv`: a candidate belongs for good to the plan that
  claimed it, and holds no row of any other plan. This is why a client with a
  stale list can do no harm: whatever it still writes, `write_record` compares
  with the candidate's plan, so it writes what is there or what is missing.
  Together with the read-back in `reconcile` it gives `ReceiptIsTruth`.
- `CompletedInv`: a completed materialization and the receipt on its candidate
  come and go together. Every receipt a caller holds therefore stays valid.
- `PointerInv`, `HistoryInv`, `HistoryChain`: history contains exactly the
  published generations, each row made by the operation it names. A candidate
  that is VALIDATED is in no row of it, and an operation that is free made none,
  so the compare-and-swap extends the chain by one new version, one new
  generation, one new operation. In particular the table constraints of
  `pointer_history` are never met, which is why they are not guards.
- `ActivationInv`: an activation on record was performed as requested, with the
  receipt it names. A replay hence answers what was done.
- `Licensed`, in `AnswerInv`: of a gated answer, the decision on record for its
  operation is the one the request names, and is about that generation, receipt and
  pointer. It is not true of every operation on record, since `activate`
  asks for no decision. It is true of an answer because `activate_with_decision`
  makes its request from the record, an exact replay is of that same request, and
  neither a decision nor an operation is ever rewritten.
- `Stored`, in `ClientInv`: the list of a client is stale in one direction only.
  Others may have written what is on it, but no row off it is missing, because no
  call removes a row. With `RowInv` the rows of a client that is through with its
  list are the plan's, so `reconcile` has damage or the order of ids as its only
  reasons to refuse: `RefusalsHold`.
- `AnswerInv`, `ReaderInv`: what callers and readers were told agrees with
  operations and history. A generation in a token is published, and
  published generations keep their rows (`PublishedFrame`); so its reads agree
  with its plan over any number of later moves. `DamageInv` says that what was
  damaged before a publication was never published: `activate` hashes every body
  again in the transaction that moves the pointer. A reader told CORRUPT hence
  meets damage that came later.

Each action has a lemma that it preserves `IInv`; `StoreFrame`, `ReaderFrame`,
`PublishedFrame` and `AnswerFrame` state once what a step must leave alone for
the parts it does not touch. `PutRecordStep` and `IssueReceiptStep` do so for the two calls whoever makes
them; a client adds only its own bookkeeping (`ClientsKeep`). `CommitActivation`
is split into its effect on the
tables (`CommitEffect`) and the invariant over that effect. For the refinement,
`CommitPublishes` maps a committed activation to `PublishFirst`, and every other
step stutters (`PublicationStutters`).

### The cloud runtime

`CloudOnlineProofs` proves, for any number of feature sets, generations, keys,
plans and workers, any order of the table and size of a page, and any number of
lost responses, late arrivals and expired records:

| Theorem | Statement |
|---|---|
| `TypeCorrect` | `Spec => []TypeOK` |
| `SealedHolds` | `Spec => []SealedIsWhole` |
| `ChainHolds` | `Spec => []OperationsAreTheChain` |
| `AnswersHold` | `Spec => []AnswersAreDurable` |
| `ForwardHolds` | `Spec => OnlyForward` |
| `ScanHolds` | `Spec => ScanNeverSpurious` |
| `Refinement` | `Spec => ImplementsPublication` |

The assumptions are `PlanAssumption`, `BoundAssumption`, `NullAssumption` and
`OperationAssumption` (an absent operation item is none of the operations). The
invariant

    IInv == TypeOK /\ TablesOK /\ WorkerInv /\ NetworkInv /\ IsFiniteSet(expired)

says what is known where, and the proof is that knowledge never goes stale:

- `Wrote(p, k)` and `Read(p, k)`: the generation is p's, and the record is as
  planned or was deleted by the time to live (for `Read`, after the seal). The
  two are the whole difference between what a worker knows after its writes and
  what it knows after its scan.
- `OwnerOK`: an item belongs to the plan that owns its generation; what is
  sealed was all written, what is validated was all read. The seal and the
  validation do not ask for this in their conditions.
- `NetworkInv`: hence a seal or a validation on its way carries it. It was sent
  by a worker that had written, or read, everything, so it may arrive at any
  time, after its sender's death too.
- `WorkerInv` (`InvocationOK`): what an invocation has written, scanned or been
  told at each of its steps, the exception paths included.
- `Progress`: every step moves an owner forward, keeps the operations, and
  changes a record that is as planned only by deleting it. All of the above is
  stable under `Progress` (`OwnedPersists` to `InvocationPersists`). It holds of
  a request whatever it relied on (`RequestedIsProgress`), which is `OnlyForward`.

A worker's step is a look (`LookHolds`) or a request (`SendHolds`: answered, from
the token's memory, refused, lost), and each of the twelve has its lemma. The
chain needs that an activation names the version that it moves
(`MoveExtendsTheChain`). For the refinement, a validated generation serves its
plan (`ServesItsPlan`) before and after any step, and the pointer names only
generations that an operation moved it to (`PointerWasMoved`), so the transaction
publishes one that no reader has seen (`ActivationPublishes`).

`ScanHolds` needs an invariant of its own on top, `ScanInv`, about what lies behind
the cursor of a scan while other workers write and records expire:

- every record of the generation that is still there is among those seen. It is
  stable because a sealed generation is only deleted from (`SettledStays`), and a
  scan is behind its first page only of a sealed one;
- the table has held there as many items as the pages taken evaluate, PageLimit for
  each. The count is of `Held`, the items present or deleted since, which only grows
  (`HeldGrows`). Counting the items that are present now would be wrong: those of
  another generation that a page counted may expire before the scan gives up;
- a page is an initial part of what follows the cursor (`PageIs`), and a page
  that is not full is all of it. The least slot beyond such a page would have fewer
  than PageLimit items before it (`LeastNumber`); no order of the table is assumed.

Of a last page hence either everything planned has been seen or something was
deleted, and a full page on the last of the budget is paid for by `FullPage`.

### The plan lease

`PlanLeaseProofs` proves, for any number of executors, any length of lease and
window, any qualifications and approvals, and without a bound on time:

| Theorem | Statement |
|---|---|
| `TypeCorrect` | `Spec => []TypeOK` |
| `LeasesExclude` | `Spec => []LeasesNeverOverlap` |
| `AuthoritiesExclude` | `Spec => []OneLeaseInForce` |
| `GrantsHold` | `Spec => []GrantedUnderTheLease` |
| `TakeoversAreIdle` | `Spec => TakeoverOnlyWhenIdle` |

The assumptions are `LeaseFitsTheHour` (a lease lasts, and not longer than the
hour a qualification may be old) and `ApprovalsAreBounded`. The invariant

    IInv == TypeOK /\ LeaseInv /\ RunInv /\ PlanInv /\ AuthorityInv /\ AdmissionInv

follows the times the executor reads:

- `RunInv`: an executor past the inspection holds a reading of the clock that is
  no earlier than its predecessor's end. Its conditional put names the version
  it inspected, so the successor is dated after everything before it
  (`LeaseInv`), whatever other executors did meanwhile.
- `PlanInv`, `AuthorityInv`: what is read after the put is later than the lease's
  beginning, and an authority is cut at the end of its lease. With `LeaseInv` the
  authorities of two leases have no moment in common.
- `NothingThere`, in `RunInv`: the last check before the put finds nothing
  deployed. Nothing can be deployed after it, because every authority of an
  earlier lease has ended, and those of this lease need a later version of the
  object, on which the put would fail. This is why `TakeoverOnlyWhenIdle` holds
  although the check and the put are two requests.
- `AdmissionInv`: a grant's lease was current at the grant's own reading of the
  clock. No successor can be dated before that lease's end, so that admission
  does not read the lease again together with the clock does no harm.

### The reference store

`FeatureStoreProofs` proves, for any generations, keys, contents and clients and
without a bound on versions:

| Theorem | Statement |
|---|---|
| `TypeCorrect` | `Spec => []TypeOK` |
| `PointerHolds` | `Spec => []PointerIsProven` |
| `VersionsHold` | `Spec => []EachVersionOnce` |

The assumption is `StoreAssumption` (the null generation is none of the
generations). The invariant adds two facts: `OfflineInv`, that `put_offline` keeps
one content for a key and a time, so the rows `stage_online` selects fit the
primary key of `online_values`; and that the answers given are finitely many, so
that a new version adds exactly one. A swap is made at the version it expects,
and every version up to that one has been handed out already.

### The lifecycle store

`LifecycleStoreProofs` proves, for any generations, operations, writers, readers,
artifacts and keys, and without a bound on versions:

| Theorem | Statement |
|---|---|
| `TypeCorrect` | `Spec => []TypeOK` |
| `ProvenHolds` | `Spec => []ProvenBeforeVisible` |
| `HistoryHolds` | `Spec => []HistoryChain` |
| `AnswersHold` | `Spec => []AnswersAreDurable` |
| `PinnedReadsHold` | `Spec => []PinnedReadsConsistent` |
| `ArtifactsHold` | `Spec => ArtifactsImmutable` |
| `Refinement` | `Spec => ImplementsPublication` |

The invariant

    IInv == TypeOK /\ WriterInv /\ ProvenInv /\ PublishedInv /\ HistoryChain
              /\ OperationInv /\ AnswerInv /\ PinnedReadsConsistent

with `TamperInv` differs from that of OnlineStore because a generation may be published again:

- `ProvenInv` strengthens `ProvenBeforeVisible` with the one thing tampering
  cannot do: a value is missing from a sealed candidate only if its manifest has
  none. Without it a pinned read could be told NO_ROW of a validated value.
- `PublishedInv`: a generation is in the history exactly if it is ACTIVE or
  RETIRED, so a rollback can only name one that was proven, and no activation
  names one that was published before. Before the first move the head is no
  generation.
- `TamperInv`: a row that differs from its manifest was changed after every move
  of the pointer to its generation, activations and rollbacks alike, because
  `publish` compares all rows again in the transaction that moves. So a reader
  that is served another value than the validated one pinned a move older than
  the change.
- `OperationInv`: operations and history record the same moves. A rollback to a
  place where the pointer was before is therefore a new version, and no stale
  expectation can repeat or fork one.

For the refinement, the receipt is what maps a READY generation to the rows it
will show (`CommitPublishes`); a first publication is `PublishFirst`, a rollback
`PublishAgain`, and whatever leaves the pointer alone stutters (`StillStutters`).

### The control plane

`ControlPlaneProofs` proves, for any executions of a run, any concurrency of the
function, any readings, and any bounds on retries, launches, attempts and faults:

| Theorem | Statement |
|---|---|
| `TypeCorrect` | `Spec => []TypeOK` |
| `CarriedHolds` | `Spec => []CarriedIsDurable` |
| `ActivatedHolds` | `Spec => []ActivatedIsProven` |
| `LaunchBoundHolds` | `Spec => []LaunchBound` |
| `WrittenOnceHolds` | `Spec => WrittenOnce` |
| `RetriesHarmless` | `MaxFaults <= MaxRetries, MaxFaults < MaxAttempts, Invocation # {}`: `Spec => []RetriesAreHarmless` |
| `Refinement` | `Spec => ImplementsManagedRun` |

The assumptions are `BoundAssumption` (the bounds are numbers, and there is at
least one launch and one attempt) and `NoneAssumption` (nothing is none of the
values). The invariant

    IInv == TypeInv /\ CallInv /\ HeardInv /\ CarriedInv /\ LedgerInv
              /\ LaunchInv /\ MovedInv

says what an execution, and an invocation whether or not anyone still listens
to it, may rely on:

- `Monotone` is what no step undoes: a completed row and an existing object stay,
  a begun row keeps its owner, a job that succeeded has, the operation stays. All
  the facts below are stable under it (`BehindStable` to `LedgerStable`), so an
  invocation may act on what it read long ago. Every step is shown to preserve
  `IInv` and to be `Monotone`, which is also `WrittenOnce`.
- `Behind(e, at)`: all tasks before a place are completed, by e. It holds of an
  execution where it is (`CarriedInv`), of an invocation at its task (`CallInv`) and
  of the owner of a begun row at that row (`LedgerInv`). An invocation that was
  given up thus never completes a task ahead of its turn.
- `Evidence(t, e, r)`: what stands behind a result: of RECORD_GLUE the authority
  object of the recorded launch and a run that succeeded, of PARITY the decision
  of the frozen comparison, of ACTIVATE the operation. It is there from the
  moment the invocation goes to complete the task, and in the ledger for good.
- `HeardInv`: what a machine waits for is an invocation of the task it is at, so an
  answer moves it over the task that was answered, and over no other.
- `LaunchInv`: a slot is called once, by the invocation that reserved it. It needs
  that two invocations never stand before a call of one slot, which the
  conditional put of the reservation gives.
- `MovedInv`: the pointer was moved under `MoveReady`, which is stable.

Each of the nineteen steps of an invocation, the machine's own and the faults
have a lemma. A step of an invocation that records nothing goes on to a place it
may be at, or ends (`ProceedsStep`); `CallReturns`, `CallRaises` and
`MachineAdvances` are about what the machine hears. For the refinement, the
completion of a task that was not done is `Record` (`CompleteRefines`), the move of
the pointer `Publish`, and nothing else touches ledger or operation
(`OthersStutter`).

`RetriesHarmless` needs three assumptions, and is false without them: there is a
retry for every fault (`MaxFaults <= MaxRetries`), an attempt of a put more than that
(`MaxFaults < MaxAttempts`), so two faults at the three retries and three attempts
of the code, and there is an invocation, which the reserved concurrency of
`compute.tf` provides. On top of `IInv` it has an invariant of its own,
`Quiet => Harmless`: while nothing but retried faults has happened to a run with
sound data,

- one execution is submitted, it is not stopped, and it has used no more retries than
  there were faults (`OneExecution`); the admission holds and nobody else has moved
  the pointer (`NothingLapsed`);
- every invocation that is not idle is the one the machine waits for, it finds its
  task undone and its way free, and every put it has to repeat has cost a fault
  (`OneInvocation`, `Unhindered`). A crash thus leaves no invocation behind that a
  retry could meet;
- the first launch slot is the only one taken, and its job goes on (`OneLaunch`,
  `Progress`);
- the ledger names that execution, and whatever is recorded or stored, or is a put
  still on its way, is what anyone would write (`OneOwner`, `RightObjects`), so a late
  put and its repetition agree.

An invocation raises, and the machine quarantines, only against one of these.

### The computation and its artifacts

`BackfillProofs` proves, for any revisions, definitions, customers, labels and
cutoffs, any identities and writers, and any number of builds:

| Theorem | Statement |
|---|---|
| `PathsAgree` | `Spec => []ImplementationsAgree` |
| `IncrementalIsFull` | `~Backdated => (Spec => []IncrementalEqualsFull)` |
| `DatasetsStay` | `~Backdated => (Spec => []DatasetsAreReproducible)` |

The assumptions are `CutoffsAreEpochs` (times of knowledge, cutoffs and revision
numbers are natural numbers) and `NilIsNothing`. The last two theorems need that
revisions arrive on time, as the run does: the disagreement at
`spark_runtime.py:567` says what happens otherwise.

A computation is never looked into. What is proved is that two paths hand it the
same set of payments, so nothing is said of a sum or a maximum, and the
induction over finite sets that these would need does not arise. In one place it
would: that a finite set of revisions of an event has a last one. `LastExists`
is an invariant of the history instead, kept by each arrival (`LastGrows`).

- *The three selections.* In an accepted history two revisions of an event are not
  known at the same time. So `row_number` is 1 exactly for the last revision of an
  event (`RankOne`), whatever the second sort key, and the projector's dictionary
  holds that same revision (`ExpectedIsMaterialize`).
- *The scope.* A payment that counts for a pair at one cutoff and not at the other
  changes the state of its event, and is one of the two candidates that put the
  pair in scope (`UnaffectedPayment`). This is where both sides of a change are
  needed. The scope is the same in both directions (`AffectedBothWays`), so one
  lemma serves for payments that come and for those that go.
- *The chain.* The invariant

      IInv == HistoryInv /\ WriterInv /\ DirectoryInv /\ DatasetInv

  says of every build, held or on disk, that it is `Honest`: its rows are a full
  computation's over its own source, and nothing that arrived since was known at
  its cutoff. The second half is what lets a build be a predecessor later on, and
  what a step must keep (`Grown`, `HonestKept`). Directories only need that a
  manifest in them, if any, is some build's (`Sane`), however the files of two
  writers are mixed: the marker and the rows are bound to it by the reader
  (`LoadedIsManifest`).

### The order of the records

`CandidateRecordsProofs` proves, for any records and any size of a page:

| Theorem | Statement |
|---|---|
| `WalkHolds` | `Spec => []WalkComplete` |
| `PlanMatched` | `SortsAfter(Customer, GenSuffix), SortsAfter(Feature, DefSuffix)`: `Spec => []CompleteCandidateMatchesPlan` |

The assumption is `RecordsAssumption`: ids are strings, the plan has finitely many
records, a page has at least one. The order of strings is defined by their first
difference and shown to be a strict total order (`BeforeTransitive`,
`BeforeTotal`). What a SELECT returns is then determined: each finite set of
records has an arrangement in that order, built from the rank of each record, the
number of those before it (`ArrangementExists`), and only one
(`ArrangementUnique`). Neither needs an induction over lists; where one looks for
the first difference, or the first place where two arrangements part, it is the
least of a set of numbers (`LeastNumber`).

The invariant (`WalkInv`) says of a traversal between two pages that what it has is in
order, that its cursor is the last row it has, and that every row it began with and
does not have comes after the cursor. Rows that a writer adds meanwhile may come
before the cursor; they are not among those it began with.

`PlanMatched` is about the order that `candidate_order` refutes. It holds if the
character that follows an id in a key, `#`, sorts before every character of an id.
So the disagreement is confined to ids that contain `#` or a character before it,
such as a space.

### Only model-checked

- `MaterializationCompletes`, `EventuallyEnds`: liveness is beyond the prover. The
  safety half of the former, that no client is refused without cause, is
  `RefusalsHold`.
- `DeniedOnlyForCause` is refuted by a run.
- What the five computations yield for a set of payments: folds over sets, which
  the prover does not evaluate by induction.

## 5. Not modelled, and why

- *In the local stores*: schema creation and migration (the models start from
  the created schema; the race of two first openings is listed as a hazard);
  the journal of retry attempts, event log, actors, reasons and timestamps,
  which nothing reads back; `register_definition`, which has the shape of
  `put_artifact`; a storage error inside `read()`; damage to stored artifacts.
- *In the cloud runtime*: `DynamoDBOnlineBoundary` and the query request, which
  the managed runtime does not call; the classification of client errors, which
  decides only what an exception is called; item sizes.
- *In the control plane*: the retrier of `getJobRun` (a failing poll is a
  quarantine at once); the bytes of objects; other runs, but for their moves of
  the pointer.
- *In admission and the plan tools*: prices, cost bound, quotas and budgets are one
  choice (`Deny("limits")`), since their values are the world's; OIDC
  identities; what a Terraform plan contains; renewal of a lease by heartbeat,
  which `docs/stage6/lease-procedure.md` describes and no code does; `terraform
  apply`, which is the operator's (`Apply`).
- *The gates of the activation policy* (`assurance.py`) and the comparison of
  records (`parity.py`): sequential functions of one call with unit tests at
  each gate. What is decided by them is an input of the models.
- *Spark, SQLite, DynamoDB, S3 and Glue themselves*: a `BEGIN IMMEDIATE`
  transaction and one DynamoDB request are taken as atomic and durable, S3's
  conditional put as evaluated with its write.
- *Formatting, hashing, canonical JSON*: digests are compared, so an element
  stands for all contents with one digest. Collisions are excluded. The one
  property about a format is `DeniedOnlyForCause`.
- *CLI, simulator, provenance, and the tools that read evidence, prove or
  validate a stage*: they are sequential and keep no state that outlives a call.

## 6. Plan

Every invariant and every action property of a passing run is proved, but for the
two liveness properties. What is left, in the order of what matters most:

1. The two hazards of the local stores that no property covers: two first openings of
   a database (`online.py:774`), for which schema creation would have to be
   modelled, and the values that a stale `stage_online` rewrites (`store.py:207`).
2. The coarse online generation of ControlPlane as an abstraction of CloudOnline,
   stated as an abstract specification that both use.
