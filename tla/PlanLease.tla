----------------------------- MODULE PlanLease -----------------------------
(***************************************************************************)
(* The exclusive lease of a managed run, and what is decided under it.     *)
(*                                                                         *)
(* One versioned S3 object holds the lease; its versions are never         *)
(* removed.  The plan executor (execute_stage6_plan.py) replaces an        *)
(* expired lease by a conditional put and makes a Terraform plan under the *)
(* new one; when it dies after the plan, the finalizer                     *)
(* (finalize_stage6_saved_plan.py) may still prove the saved plan without  *)
(* writing; live admission (managed_admission.py) grants a managed run     *)
(* under the lease an approval names.  Each reads a clock, the lease, the  *)
(* backend state and the resources in steps of its own, and time passes    *)
(* between them.                                                           *)
(***************************************************************************)
EXTENDS Integers, Sequences, FiniteSetsExt

CONSTANTS
    Executor,     \* processes that run the plan executor
    LeaseTime,    \* LEASE_SECONDS
    Window,       \* the hour a qualification, an approval or a plan may be old
    Greens,       \* when qualification runs of the reviewed source passed
    Terms,        \* how long approvals run
    Ages,         \* how old the inventory and prices of an approval are
    MaxTime,      \* bound: the last tick of the clock
    MaxRuns,      \* bound: how often the executor is started in all
    MaxVerify     \* bound: how often admission is asked in all

ASSUME LeaseFitsTheHour ==
    LeaseTime \in Nat /\ Window \in Nat /\ 0 < LeaseTime /\ LeaseTime <= Window

ASSUME ApprovalsAreBounded ==
    Terms \subseteq 1 .. Window /\ Ages \subseteq Nat /\ Greens \subseteq Nat

VARIABLES
    clock,      \* the time every machine reads
    lease,      \* the versions of the lease object, the latest last
    serial,     \* versions of the backend state since the bootstrap
    deployed,   \* the run's resources exist
    run,        \* each executor: its step, its pins and the last time it read
    saved,      \* plans that private directories of dead executors hold
    authority,  \* plan authorities published by an executor
    recovered,  \* historical authorities published by the finalizer
    final,      \* the finalizer: its step and the saved plan it proves
    approval,   \* the approval the deployment pins
    verify,     \* admission: its step, the clock it read, why it denied
    grants,     \* the decisions admission returned, each with the real time
    started     \* how often executor and admission were started

vars == <<clock, lease, serial, deployed, run, saved, authority, recovered,
          final, approval, verify, grants, started>>

executing == <<run, saved, authority>>
finalizing == <<recovered, final>>
admitting == <<approval, verify, grants>>

Least(a, b) == Min({a, b})

Idle == [step |-> "idle"]

Version == [acquired: Nat, expires: Nat, form: {"bare", "line"}]

Run ==
    [step: {"backend", "inspect", "acquire", "prewrite", "put", "reread",
            "plan", "finish", "relet", "publish"},
     prior: Nat, qualified: Nat, read: Nat]

Saved == [prior: Nat, at: Nat, qualified: Nat]

Interval == [lease: Nat, qualified: Nat, created: Nat, expires: Nat]

TypeOK ==
    /\ clock \in Nat /\ serial \in Nat /\ deployed \in BOOLEAN
    /\ lease \in Seq(Version)
    /\ run \in [Executor -> {Idle} \cup Run]
    /\ saved \subseteq Saved
    /\ authority \subseteq Interval /\ recovered \subseteq Interval
    /\ final \in {Idle} \cup [step: {"again"}, plan: Saved]
    /\ approval \in [lease: Nat, at: Nat, until: Nat, seen: Int]
    /\ verify \in {Idle} \cup [step: {"lease", "decide", "budgets", "again"}, observed: Nat]
                 \cup [step: {"denied"},
                       why: {"lease changed", "not canonical", "not current", "limits"}]
    /\ grants \subseteq [lease: Nat, at: Nat]
    /\ started \in [run: Nat, verify: Nat]

\* The first lease is put by hand, its body the canonical JSON admission tests.
Init ==
    /\ clock = 0
    /\ lease = <<[acquired |-> 0, expires |-> LeaseTime, form |-> "bare"]>>
    /\ serial = 0
    /\ deployed = FALSE
    /\ run = [x \in Executor |-> Idle]
    /\ saved = {}
    /\ authority = {}
    /\ recovered = {}
    /\ final = Idle
    /\ approval = [lease |-> 0, at |-> 0, until |-> 0, seen |-> 0]
    /\ verify = Idle
    /\ grants = {}
    /\ started = [run |-> 0, verify |-> 0]

Tick ==
    /\ clock < MaxTime
    /\ clock' = clock + 1
    /\ UNCHANGED <<lease, serial, deployed, executing, finalizing, admitting, started>>

----------------------------------------------------------------------------
(* What the tools read of the world.                                       *)

Latest == Len(lease)

\* validate_lease, LeaseSnapshot.current_for.  A successor's heartbeat is its
\* acquisition, and no code renews it.
Current(v, t) == lease[v].acquired <= t /\ t < lease[v].expires

\* The state is the bootstrap's single version and no resource answers.
BackendClean == serial = 0 /\ ~deployed

\* A qualification completed at q still counts for a plan at t.
Qualified(q, t) == q <= t /\ t <= q + Window

----------------------------------------------------------------------------
(* The plan executor.                                                      *)

At(x, step) == run[x].step = step

Step(x, r) == run' = [run EXCEPT ![x] = r]

Goto(x, step) == Step(x, [run[x] EXCEPT !.step = step])

Stop(x) == Step(x, Idle)

\* Each reviewed commit authorizes the executor to replace one lease version,
\* the one that was the latest when it was written.
Begin(x, q) ==
    /\ At(x, "idle")
    /\ started.run < MaxRuns
    /\ Qualified(q, clock)
    /\ Step(x, [step |-> "backend", prior |-> Latest, qualified |-> q, read |-> clock])
    /\ started' = [started EXCEPT !.run = @ + 1]
    /\ UNCHANGED <<clock, lease, serial, deployed, saved, authority, finalizing,
                   admitting>>

VerifyBackendBlindly(x, from, to) == At(x, from) /\ Goto(x, to)

\* A check of state and inventory; a failed one ends the run.
VerifyBackend(x, from, to) ==
    /\ At(x, from)
    /\ IF BackendClean THEN Goto(x, to) ELSE Stop(x)

InspectUnexpired(x) ==
    /\ At(x, "inspect")
    /\ IF Latest = run[x].prior THEN Goto(x, "acquire") ELSE Stop(x)

\* The history is the authorized one and its latest lease has expired.
InspectLease(x) ==
    /\ At(x, "inspect")
    /\ IF Latest = run[x].prior /\ run[x].read >= lease[Latest].expires
       THEN Goto(x, "acquire")
       ELSE Stop(x)

\* The lease's times are read here, before the last checks and the put.
Acquire(x) ==
    /\ At(x, "acquire")
    /\ IF Qualified(run[x].qualified, clock)
       THEN Step(x, [run[x] EXCEPT !.step = "prewrite", !.read = clock])
       ELSE Stop(x)

Successor(x) ==
    [acquired |-> run[x].read, expires |-> run[x].read + LeaseTime,
     form |-> "line"]

PutLeaseUnconditionally(x) ==
    /\ At(x, "put")
    /\ lease' = Append(lease, Successor(x))
    /\ Goto(x, "reread")

\* If-Match on the version that was inspected.  An answer that is lost stops
\* the run although the lease may have been written.
PutLease(x) ==
    /\ At(x, "put")
    /\ \/ /\ Latest = run[x].prior
          /\ lease' = Append(lease, Successor(x))
          /\ Goto(x, "reread") \/ Stop(x)
       \/ /\ Stop(x)
          /\ UNCHANGED lease

\* The history gained exactly this version, and the lease is current now.
RereadLease(x) ==
    /\ At(x, "reread")
    /\ IF Latest = run[x].prior + 1 /\ Current(Latest, clock)
       THEN Goto(x, "plan")
       ELSE Stop(x)

SavedPlan(x) ==
    [prior |-> run[x].prior, at |-> run[x].read, qualified |-> run[x].qualified]

Plan(x) ==
    /\ At(x, "plan")
    /\ Step(x, [run[x] EXCEPT !.step = "finish", !.read = clock])

\* The plan is normalized, which may fail and leave it in the private
\* directory, and the time is read again.
Finish(x) ==
    /\ At(x, "finish")
    /\ \/ /\ Stop(x)
          /\ saved' = saved \cup {SavedPlan(x)}
       \/ /\ clock < lease[run[x].prior + 1].expires
          /\ clock < run[x].qualified + Window
          /\ Step(x, [run[x] EXCEPT !.step = "relet", !.read = clock])
          /\ UNCHANGED saved

\* The lease is still the one this run wrote.
RecheckLease(x) ==
    /\ At(x, "relet")
    /\ IF Latest = run[x].prior + 1 THEN Goto(x, "publish") ELSE Stop(x)

AuthorityOfAnHour(v, q, t) ==
    [lease |-> v, qualified |-> q, created |-> t, expires |-> Least(q + Window, t + Window)]

\* PlanAuthority's interval for a plan made at t under a lease version.
Authority(v, q, t) ==
    [lease |-> v, qualified |-> q, created |-> t,
     expires |-> Least(Least(lease[v].expires, q + Window), t + Window)]

Publish(x) ==
    /\ At(x, "publish")
    /\ Stop(x)
    /\ authority' =
          IF BackendClean
          THEN authority \cup
                 {Authority(run[x].prior + 1, run[x].qualified, run[x].read)}
          ELSE authority

\* The operator's machine stops at any step.
Die(x) ==
    /\ ~At(x, "idle")
    /\ Stop(x)

Execute(x) ==
    \/ /\ \/ VerifyBackend(x, "backend", "inspect")
          \/ InspectLease(x)
          \/ Acquire(x)
          \/ VerifyBackend(x, "prewrite", "put")
          \/ RereadLease(x)
          \/ Plan(x)
          \/ RecheckLease(x)
          \/ Die(x)
       /\ UNCHANGED <<clock, lease, serial, deployed, saved, authority,
                      finalizing, admitting, started>>
    \/ /\ PutLease(x)
       /\ UNCHANGED <<clock, serial, deployed, saved, authority, finalizing,
                      admitting, started>>
    \/ /\ Finish(x)
       /\ UNCHANGED <<clock, lease, serial, deployed, authority, finalizing,
                      admitting, started>>
    \/ /\ Publish(x)
       /\ UNCHANGED <<clock, lease, serial, deployed, saved, finalizing,
                      admitting, started>>

----------------------------------------------------------------------------
(* The finalizer of a saved plan: reads only.                              *)

\* successor_lease_proof and historical_plan_window: the plan was made inside
\* the lease's and the qualification's windows.
InsideWindows(p) ==
    /\ Current(p.prior + 1, p.at)
    /\ p.qualified <= p.at /\ p.at < p.qualified + Window

\* The history still ends with the lease the plan was made under.
LiveProof(p) == BackendClean /\ Latest = p.prior + 1

StartFinalizer(p) ==
    /\ final.step = "idle"
    /\ p \in saved
    /\ Qualified(p.qualified, p.at)
    /\ LiveProof(p)
    /\ Current(p.prior + 1, p.at)
    /\ final' = [step |-> "again", plan |-> p]
    /\ UNCHANGED recovered

\* The live reads are repeated and must not have changed.
Finalize ==
    /\ final.step = "again"
    /\ final' = Idle
    /\ recovered' =
          IF LiveProof(final.plan) /\ InsideWindows(final.plan)
          THEN recovered \cup {Authority(final.plan.prior + 1, final.plan.qualified,
                                         final.plan.at)}
          ELSE recovered

Recover ==
    /\ (\E p \in saved : StartFinalizer(p)) \/ Finalize
    /\ UNCHANGED <<clock, lease, serial, deployed, executing, admitting, started>>

----------------------------------------------------------------------------
(* The deployment a plan authority is for: no code performs it yet.        *)

\* PlanAuthority.assert_current against what is observed now.
AssertCurrent(a) ==
    /\ a.created <= clock /\ clock < a.expires
    /\ BackendClean
    /\ a.lease = Latest

Apply(a) ==
    /\ AssertCurrent(a)
    /\ deployed' = TRUE
    /\ serial' = serial + 1

Destroy ==
    /\ deployed
    /\ deployed' = FALSE
    /\ serial' = serial + 1

Deploy ==
    /\ (\E a \in authority : Apply(a)) \/ Destroy
    /\ UNCHANGED <<clock, lease, executing, finalizing, admitting, started>>

----------------------------------------------------------------------------
(* Live admission.                                                         *)

\* An approval names the lease it was written under, for at most an hour, and
\* embeds an inventory and prices of some age.
Approve(term, age) ==
    /\ verify.step = "idle"
    /\ approval.lease # Latest
    /\ approval' = [lease |-> Latest, at |-> clock, until |-> clock + term,
                    seen |-> clock - age]
    /\ UNCHANGED <<verify, grants, started>>

Approved(t) == approval.at <= t /\ t < approval.until

\* admit_managed_run.
Admissible(t) ==
    /\ Current(approval.lease, t)
    /\ approval.seen <= t /\ t <= approval.seen + Window

Deny(why) ==
    /\ verify' = [step |-> "denied", why |-> why]
    /\ UNCHANGED <<approval, grants, started>>

Proceed(step) ==
    /\ verify' = [verify EXCEPT !.step = step]
    /\ UNCHANGED <<approval, grants, started>>

Ask ==
    /\ verify.step \in {"idle", "denied"}
    /\ approval.lease # 0
    /\ started.verify < MaxVerify
    /\ verify' = [step |-> "lease", observed |-> clock]
    /\ started' = [started EXCEPT !.verify = @ + 1]
    /\ UNCHANGED <<approval, grants>>

\* _read_json: the latest version is the approved one, and its body is its own
\* canonical form.
ReadLease(from, to) ==
    /\ verify.step = from
    /\ \/ Latest # approval.lease /\ Deny("lease changed")
       \/ Latest = approval.lease /\ lease[Latest].form = "line" /\ Deny("not canonical")
       \/ Latest = approval.lease /\ lease[Latest].form = "bare" /\ Proceed(to)

\* The first decision, at the time read first; quotas may also fall short.
DecideFirst ==
    /\ verify.step = "decide"
    /\ \/ Deny("limits")
       \/ /\ ~(Approved(verify.observed) /\ Admissible(verify.observed))
          /\ Deny("not current")
       \/ /\ Approved(verify.observed) /\ Admissible(verify.observed)
          /\ Proceed("budgets")

Grant ==
    /\ verify' = Idle
    /\ grants' = grants \cup {[lease |-> approval.lease, at |-> clock]}
    /\ UNCHANGED <<approval, started>>

DecideAtStart ==
    /\ verify.step = "again"
    /\ Approved(verify.observed) /\ Admissible(verify.observed)
    /\ Grant

\* After the paged budget reads: the clock is read again, and decides.
DecideAgain ==
    /\ verify.step = "again"
    /\ \/ ~(Approved(clock) /\ Admissible(clock)) /\ Deny("not current")
       \/ Approved(clock) /\ Admissible(clock) /\ Grant
       \/ Deny("limits")

Admit ==
    /\ \/ \E term \in Terms, age \in Ages : Approve(term, age)
       \/ Ask
       \/ ReadLease("lease", "decide")
       \/ DecideFirst
       \/ ReadLease("budgets", "again")
       \/ DecideAgain
    /\ UNCHANGED <<clock, lease, serial, deployed, executing, finalizing>>

----------------------------------------------------------------------------
Next ==
    \/ Tick
    \/ \E x \in Executor :
          \/ \E q \in Greens : Begin(x, q)
          \/ Execute(x)
    \/ Recover
    \/ Deploy
    \/ Admit

Spec == Init /\ [][Next]_vars

----------------------------------------------------------------------------
(* What the lease is for.                                                  *)

\* The lease is exclusive over its whole history: a successor is dated after
\* its predecessor ended, however many operators run the executor at once
\* (execute_stage6_plan.execute, lease_put_request).
LeasesNeverOverlap ==
    \A v, w \in 1 .. Latest : v < w => lease[v].expires <= lease[w].acquired

\* A published authority, also one proved after the fact, ends with the lease
\* and the qualification it was made under, so the authorities of two leases
\* are never in force together (PlanAuthority, historical_plan_window).
OneLeaseInForce ==
    \A a, b \in authority \cup recovered :
        /\ lease[a.lease].acquired <= a.created
        /\ a.expires <= Least(lease[a.lease].expires, a.qualified + Window)
        /\ a.lease < b.lease => a.expires <= b.created

\* A lease is taken over only while nothing of the earlier run is deployed,
\* although the inventory is read long before the put
\* (docs/stage6/lease-procedure.md:16).
TakeoverOnlyWhenIdle == [][lease' # lease => ~deployed]_vars

\* A run admitted at a moment was admitted under the lease that was in force
\* at that moment, although the lease, the quotas and the budgets were read
\* one after the other (AWSManagedAdmission.verify).
GrantedUnderTheLease ==
    \A g \in grants :
        /\ Current(g.lease, g.at)
        /\ \A v \in g.lease + 1 .. Latest : g.at < lease[v].acquired

\* Admission fails because the lease or the approval is not current or a limit
\* is short, never because of how the executor wrote a lease that is current
\* (docs/stage6/lease-procedure.md:12).
DeniedOnlyForCause ==
    verify.step = "denied" =>
        verify.why \in {"lease changed", "not current", "limits"}
=============================================================================
