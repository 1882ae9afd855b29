-------------------------- MODULE PlanLeaseProofs --------------------------
(***************************************************************************)
(* Proofs about PlanLease, for any number of executors, lease and window   *)
(* lengths, qualifications and approvals, and with no bound on time.       *)
(***************************************************************************)
EXTENDS PlanLease, SequenceTheorems, TLAPS

(* A lease is dated when it is written, and after every lease before it.   *)
LeaseInv ==
    /\ Latest \in Nat \ {0}
    /\ \A v \in 1 .. Latest :
          lease[v].acquired <= clock /\ lease[v].acquired <= lease[v].expires
    /\ LeasesNeverOverlap

(* An executor past the inspection knows its predecessor's end; before the *)
(* put nothing is deployed, unless the predecessor is no longer the latest;*)
(* after the put its own lease is there, and what it reads is later.       *)
RunOK(r) ==
    /\ r.prior \in 1 .. Latest
    /\ r.read <= clock
    /\ r.step \in {"acquire", "prewrite", "put"} => lease[r.prior].expires <= r.read
    /\ r.step \in {"reread", "plan", "finish", "relet", "publish"} => r.prior + 1 <= Latest
    /\ r.step \in {"finish", "relet", "publish"} => lease[r.prior + 1].acquired <= r.read

NothingThere(r) == r.step = "put" /\ Latest = r.prior => ~deployed

RunInv ==
    \A x \in Executor : run[x] # Idle => RunOK(run[x]) /\ NothingThere(run[x])

(* A plan was made under a lease that existed when it was made.            *)
MadeUnder(p) ==
    p.prior + 1 <= Latest /\ lease[p.prior + 1].acquired <= p.at

PlanInv ==
    /\ \A p \in saved : MadeUnder(p)
    /\ final.step = "again" => MadeUnder(final.plan)

Bounded(a) ==
    /\ a.lease \in 1 .. Latest
    /\ lease[a.lease].acquired <= a.created
    /\ a.expires <= lease[a.lease].expires
    /\ a.expires <= a.qualified + Window

AuthorityInv == \A a \in authority \cup recovered : Bounded(a)

AdmissionInv ==
    /\ approval.lease \in 0 .. Latest
    /\ verify.step # "idle" => approval.lease # 0
    /\ \A g \in grants : g.lease \in 1 .. Latest /\ Current(g.lease, g.at)

IInv == TypeOK /\ LeaseInv /\ RunInv /\ PlanInv /\ AuthorityInv /\ AdmissionInv

----------------------------------------------------------------------------
(* The versions there are, and their times.                                *)
LEMMA LeaseTypes ==
  ASSUME TypeOK
  PROVE  /\ clock \in Nat /\ Latest \in Nat
         /\ \A v \in 1 .. Latest : lease[v].acquired \in Nat /\ lease[v].expires \in Nat
<1>1. clock \in Nat /\ lease \in Seq(Version)
  BY DEF TypeOK
<1>2. Latest \in Nat /\ \A v \in 1 .. Latest : lease[v] \in Version
  BY <1>1 DEF Latest
<1> QED BY <1>1, <1>2 DEF Version

(* What a minimum of two is.                                               *)
LEMMA LeastOfTwo ==
  ASSUME NEW a \in Int, NEW b \in Int
  PROVE  /\ Least(a, b) \in {a, b}
         /\ Least(a, b) <= a /\ Least(a, b) <= b
<1>1. \E m \in {a, b} : \A y \in {a, b} : m =< y
  <2>1. CASE a =< b
    BY <2>1
  <2>2. CASE b =< a
    BY <2>2
  <2> QED BY <2>1, <2>2
<1>2. /\ Least(a, b) \in {a, b}
      /\ \A y \in {a, b} : Least(a, b) =< y
  BY <1>1 DEF Least, Min
<1> QED BY <1>2

(* An authority ends with its lease, its qualification and its hour.       *)
LEMMA AuthorityIsBounded ==
  ASSUME TypeOK, LeaseInv,
         NEW v \in 1 .. Latest, NEW q \in Nat, NEW t \in Nat,
         lease[v].acquired <= t
  PROVE  Authority(v, q, t) \in Interval /\ Bounded(Authority(v, q, t))
<1> DEFINE e == lease[v].expires
           m == Least(e, q + Window)
           n == Least(m, t + Window)
<1>1. e \in Nat /\ q + Window \in Nat /\ t + Window \in Nat /\ v \in Nat
  BY LeaseFitsTheHour, LeaseTypes
<1>2. m \in Nat /\ m <= e /\ m <= q + Window
  BY <1>1, LeastOfTwo
<1>3. n \in Nat /\ n <= m
  BY <1>1, <1>2, LeastOfTwo
<1>4. Authority(v, q, t) = [lease |-> v, qualified |-> q, created |-> t, expires |-> n]
  BY DEF Authority
<1>5. n <= e /\ n <= q + Window
  BY <1>1, <1>2, <1>3
<1> HIDE DEF n, m, e
<1>6. Authority(v, q, t) \in Interval
  BY <1>1, <1>3, <1>4 DEF Interval
<1>7. Bounded(Authority(v, q, t))
  BY <1>4, <1>5, <1>1 DEF Bounded, e
<1> QED BY <1>6, <1>7

(* What only looks at leases survives a step that adds versions or none.   *)
LeasesKept ==
    /\ Latest' \in Nat /\ Latest <= Latest'
    /\ \A v \in 1 .. Latest : lease'[v] = lease[v]

LEMMA BoundedKept ==
  ASSUME TypeOK, LeasesKept, LeaseInv, NEW a \in Interval, Bounded(a)
  PROVE  Bounded(a)'
BY DEF Bounded, LeasesKept, LeaseInv

LEMMA MadeUnderKept ==
  ASSUME TypeOK, LeasesKept, LeaseInv, NEW p \in Saved, MadeUnder(p)
  PROVE  MadeUnder(p)'
<1>1. p.prior + 1 \in 1 .. Latest
  BY DEF MadeUnder, LeaseInv, Saved
<1> QED BY <1>1 DEF MadeUnder, LeasesKept, LeaseInv, Saved

(* A step that leaves the object alone keeps its versions.                 *)
LEMMA SameLeases ==
  ASSUME TypeOK, UNCHANGED lease
  PROVE  LeasesKept
BY LeaseTypes DEF LeasesKept, Latest

LEMMA SameLeaseInv ==
  ASSUME TypeOK, LeaseInv, UNCHANGED lease, clock' \in Nat, clock <= clock'
  PROVE  LeaseInv'
<1>1. Latest' = Latest
  BY DEF Latest
<1>2. clock \in Nat
  BY DEF TypeOK
<1> QED BY <1>1, <1>2, LeaseTypes DEF LeaseInv, LeasesNeverOverlap

----------------------------------------------------------------------------
(* What a step leaves alone stays as it is although leases are added.      *)
LEMMA RunKept ==
  ASSUME TypeOK, LeaseInv, LeasesKept, clock' \in Nat, clock <= clock',
         NEW r \in Run, RunOK(r)
  PROVE  RunOK(r)'
<1>1. /\ Latest \in Nat /\ r.prior \in Nat /\ r.read \in Nat /\ clock \in Nat
      /\ r.prior \in 1 .. Latest
  BY LeaseTypes DEF Run, RunOK, TypeOK
<1>2. lease'[r.prior] = lease[r.prior] /\ r.prior \in 1 .. Latest'
  BY <1>1 DEF LeasesKept
<1>3. r.prior + 1 <= Latest => lease'[r.prior + 1] = lease[r.prior + 1]
  BY <1>1 DEF LeasesKept
<1>4. Latest <= Latest' /\ Latest' \in Nat
  BY DEF LeasesKept
<1>5. r.read <= clock'
  BY <1>1 DEF RunOK
<1>6. r.step \in {"finish", "relet", "publish"} => r.prior + 1 <= Latest
  BY DEF RunOK
<1> QED BY <1>1, <1>2, <1>3, <1>4, <1>5, <1>6 DEF RunOK

LEMMA NothingThereKept ==
  ASSUME TypeOK, LeasesKept, deployed' => deployed,
         NEW r \in Run, RunOK(r), NothingThere(r)
  PROVE  NothingThere(r)'
BY LeaseTypes DEF NothingThere, RunOK, LeasesKept, Run

LEMMA RunFrame ==
  ASSUME TypeOK, LeaseInv, RunInv, LeasesKept, clock' \in Nat, clock <= clock',
         UNCHANGED run, deployed' => deployed
  PROVE  RunInv'
<1> SUFFICES ASSUME NEW x \in Executor, run[x] # Idle
             PROVE  (RunOK(run[x]) /\ NothingThere(run[x]))'
  BY DEF RunInv
<1>1. run[x] \in Run /\ RunOK(run[x]) /\ NothingThere(run[x])
  BY DEF TypeOK, RunInv
<1>2. \A r \in Run : RunOK(r) => RunOK(r)'
  BY RunKept
<1>3. \A r \in Run : RunOK(r) /\ NothingThere(r) => NothingThere(r)'
  BY NothingThereKept
<1> QED BY <1>1, <1>2, <1>3 DEF RunOK, NothingThere

LEMMA PlanFrame ==
  ASSUME TypeOK, LeaseInv, PlanInv, LeasesKept, UNCHANGED <<saved, final>>
  PROVE  PlanInv'
<1>1. \A p \in Saved : MadeUnder(p) => MadeUnder(p)'
  BY MadeUnderKept
<1>2. \A p \in saved : MadeUnder(p)'
  BY <1>1 DEF TypeOK, PlanInv
<1>3. final.step = "again" => final.plan \in Saved
  <2>1. final \in {Idle} \cup [step: {"again"}, plan: Saved]
    BY DEF TypeOK
  <2>2. Idle.step # "again"
    BY DEF Idle
  <2> QED BY <2>1, <2>2
<1>4. final.step = "again" => MadeUnder(final.plan)'
  BY <1>1, <1>3 DEF PlanInv, MadeUnder
<1> QED BY <1>2, <1>4 DEF PlanInv

LEMMA AuthorityFrame ==
  ASSUME TypeOK, LeaseInv, AuthorityInv, LeasesKept, UNCHANGED <<authority, recovered>>
  PROVE  AuthorityInv'
<1>1. \A a \in Interval : Bounded(a) => Bounded(a)'
  BY BoundedKept
<1> QED BY <1>1 DEF TypeOK, AuthorityInv

LEMMA AdmissionFrame ==
  ASSUME TypeOK, LeaseInv, AdmissionInv, LeasesKept, UNCHANGED <<approval, verify, grants>>
  PROVE  AdmissionInv'
<1>1. approval.lease \in 0 .. Latest'
  BY LeaseTypes DEF AdmissionInv, LeasesKept
<1>2. \A g \in grants : g.lease \in 1 .. Latest' /\ Current(g.lease, g.at)'
  BY LeaseTypes DEF AdmissionInv, LeasesKept, Current
<1> QED BY <1>1, <1>2 DEF AdmissionInv

----------------------------------------------------------------------------
(* The executor's steps.                                                   *)

(* What an executor holds that is in a step, and in the next one.          *)
LEMMA RunFields ==
  ASSUME TypeOK, NEW x \in Executor, run[x].step # "idle"
  PROVE  /\ run[x] \in Run
         /\ run[x] # Idle
         /\ run[x].prior \in Nat /\ run[x].read \in Nat /\ run[x].qualified \in Nat
<1>1. run[x] \in {Idle} \cup Run
  BY DEF TypeOK
<1>2. run[x] # Idle
  BY DEF Idle
<1> QED BY <1>1, <1>2 DEF Run

(* One executor moves to r; the others stay.                               *)
LEMMA RunsAfter ==
  ASSUME TypeOK, LeaseInv, RunInv, LeasesKept, clock' \in Nat, clock <= clock',
         deployed' => deployed,
         NEW x \in Executor, NEW r \in {Idle} \cup Run,
         run' = [run EXCEPT ![x] = r],
         r # Idle => RunOK(r)' /\ NothingThere(r)'
  PROVE  RunInv' /\ run' \in [Executor -> {Idle} \cup Run]
<1>1. run' \in [Executor -> {Idle} \cup Run]
  BY DEF TypeOK
<1>2. ASSUME NEW y \in Executor, run'[y] # Idle
      PROVE  (RunOK(run[y]) /\ NothingThere(run[y]))'
  <2>1. CASE y = x
    <3>1. run'[y] = r
      BY <2>1 DEF TypeOK
    <3> QED BY <1>2, <3>1 DEF RunOK, NothingThere
  <2>2. CASE y # x
    <3>1. run'[y] = run[y]
      BY <2>2 DEF TypeOK
    <3>2. run[y] \in Run /\ RunOK(run[y]) /\ NothingThere(run[y])
      BY <1>2, <3>1 DEF RunInv, TypeOK
    <3>3. \A q \in Run : RunOK(q) => RunOK(q)'
      BY RunKept
    <3>4. \A q \in Run : RunOK(q) /\ NothingThere(q) => NothingThere(q)'
      BY NothingThereKept
    <3> QED BY <3>1, <3>2, <3>3, <3>4 DEF RunOK, NothingThere
  <2> QED BY <2>1, <2>2
<1> QED BY <1>1, <1>2 DEF RunInv

LEMMA RunStep ==
  ASSUME IInv,
         UNCHANGED <<clock, lease, serial, deployed, saved, authority, finalizing, admitting>>,
         started' \in [run: Nat, verify: Nat],
         NEW x \in Executor, NEW r \in {Idle} \cup Run,
         run' = [run EXCEPT ![x] = r],
         r # Idle => RunOK(r) /\ NothingThere(r)
  PROVE  IInv'
<1> USE DEF finalizing, admitting
<1>1. TypeOK /\ LeaseInv /\ RunInv /\ PlanInv /\ AuthorityInv /\ AdmissionInv
  BY DEF IInv
<1>2. clock' \in Nat /\ clock <= clock' /\ LeasesKept
  <2>1. clock \in Nat
    BY <1>1 DEF TypeOK
  <2> QED BY <1>1, <2>1, SameLeases
<1>3. RunInv' /\ run' \in [Executor -> {Idle} \cup Run]
  <2>1. r # Idle => RunOK(r)' /\ NothingThere(r)'
    BY <1>1, <1>2, RunKept, NothingThereKept
  <2> QED BY <1>1, <1>2, <2>1, RunsAfter
<1>4. TypeOK'
  <2>1. UNCHANGED <<clock, lease, serial, deployed, saved, authority, recovered,
                    final, approval, verify, grants>>
    OBVIOUS
  <2> QED BY <1>1, <1>3, <2>1 DEF TypeOK
<1>5. LeaseInv'
  BY <1>1, <1>2, SameLeaseInv
<1>6. PlanInv' /\ AuthorityInv' /\ AdmissionInv'
  BY <1>1, <1>2, PlanFrame, AuthorityFrame, AdmissionFrame
<1> QED BY <1>3, <1>4, <1>5, <1>6 DEF IInv

LEMMA BeginStep ==
  ASSUME IInv, NEW x \in Executor, NEW q \in Greens, Begin(x, q)
  PROVE  IInv'
<1> DEFINE r == [step |-> "backend", prior |-> Latest, qualified |-> q, read |-> clock]
<1>1. TypeOK /\ LeaseInv
  BY DEF IInv
<1>2. Latest \in Nat \ {0} /\ clock \in Nat /\ q \in Nat
  BY <1>1, ApprovalsAreBounded DEF TypeOK, LeaseInv
<1>3. r \in Run
  BY <1>2 DEF Run
<1>4. RunOK(r) /\ NothingThere(r)
  BY <1>2 DEF RunOK, NothingThere
<1>5. started' \in [run: Nat, verify: Nat]
  <2>1. started \in [run: Nat, verify: Nat]
    BY <1>1 DEF TypeOK
  <2> QED BY <2>1 DEF Begin
<1>6. /\ run' = [run EXCEPT ![x] = r]
      /\ UNCHANGED <<clock, lease, serial, deployed, saved, authority, finalizing, admitting>>
  BY DEF Begin, Step
<1> HIDE DEF r
<1> QED BY <1>3, <1>4, <1>5, <1>6, RunStep

(* The steps that only move the executor on, or end it.                    *)
LEMMA CheckStep ==
  ASSUME IInv, NEW x \in Executor,
         UNCHANGED <<clock, lease, serial, deployed, saved, authority, finalizing, admitting, started>>,
         \/ VerifyBackend(x, "backend", "inspect") \/ InspectLease(x) \/ Acquire(x)
         \/ VerifyBackend(x, "prewrite", "put") \/ RereadLease(x) \/ Plan(x)
         \/ RecheckLease(x) \/ Die(x)
  PROVE  IInv'
<1>1. TypeOK /\ LeaseInv /\ RunInv
  BY DEF IInv
<1>2. run[x].step # "idle"
  BY DEF VerifyBackend, InspectLease, Acquire, RereadLease, Plan, RecheckLease, Die, At
<1>3. /\ run[x] \in Run /\ RunOK(run[x]) /\ NothingThere(run[x])
      /\ run[x].prior \in Nat /\ run[x].read \in Nat
  BY <1>1, <1>2, RunFields DEF RunInv
<1>4. /\ Latest \in Nat /\ clock \in Nat
      /\ \A v \in 1 .. Latest : /\ lease[v].acquired \in Nat /\ lease[v].expires \in Nat
                                /\ lease[v].acquired <= clock
  BY <1>1, LeaseTypes DEF TypeOK, LeaseInv
<1>5. started' \in [run: Nat, verify: Nat]
  BY <1>1 DEF TypeOK
<1> DEFINE Moves(r) == run' = [run EXCEPT ![x] = r]
<1>6. ASSUME NEW r \in {Idle} \cup Run, Moves(r),
             r # Idle => RunOK(r) /\ NothingThere(r)
      PROVE  IInv'
  BY <1>5, <1>6, RunStep
<1>7. CASE Moves(Idle)
  BY <1>6, <1>7
<1>8. CASE VerifyBackend(x, "backend", "inspect") /\ ~Moves(Idle)
  <2> DEFINE r == [run[x] EXCEPT !.step = "inspect"]
  <2>1. Moves(r)
    BY <1>8 DEF VerifyBackend, Goto, Stop, Step
  <2>2. r \in Run /\ RunOK(r) /\ NothingThere(r)
    BY <1>3, <1>8 DEF Run, RunOK, NothingThere
  <2> QED BY <2>1, <2>2, <1>6
<1>9. CASE InspectLease(x) /\ ~Moves(Idle)
  <2> DEFINE r == [run[x] EXCEPT !.step = "acquire"]
  <2>1. Moves(r) /\ Latest = run[x].prior /\ run[x].read >= lease[Latest].expires
    BY <1>9 DEF InspectLease, Goto, Stop, Step
  <2>2. r \in Run /\ RunOK(r) /\ NothingThere(r)
    BY <1>3, <1>4, <2>1 DEF Run, RunOK, NothingThere
  <2> QED BY <2>1, <2>2, <1>6
<1>10. CASE Acquire(x) /\ ~Moves(Idle)
  <2> DEFINE r == [run[x] EXCEPT !.step = "prewrite", !.read = clock]
  <2>1. Moves(r) /\ run[x].step = "acquire"
    BY <1>10 DEF Acquire, Goto, Stop, Step, At
  <2>2. lease[run[x].prior].expires <= run[x].read /\ run[x].read <= clock
    BY <1>3, <2>1 DEF RunOK
  <2>3. run[x].prior \in 1 .. Latest /\ lease[run[x].prior].expires \in Nat
    BY <1>3, <1>4 DEF RunOK
  <2>4. lease[run[x].prior].expires <= clock
    BY <1>3, <1>4, <2>2, <2>3
  <2>5. /\ r \in Run
        /\ r.step = "prewrite" /\ r.prior = run[x].prior /\ r.read = clock
    BY <1>3, <1>4 DEF Run
  <2> HIDE DEF r
  <2>6. RunOK(r) /\ NothingThere(r)
    BY <1>4, <2>3, <2>4, <2>5 DEF RunOK, NothingThere
  <2> QED BY <2>1, <2>5, <2>6, <1>6
<1>11. CASE VerifyBackend(x, "prewrite", "put") /\ ~Moves(Idle)
  <2> DEFINE r == [run[x] EXCEPT !.step = "put"]
  <2>1. Moves(r) /\ run[x].step = "prewrite" /\ ~deployed
    BY <1>11 DEF VerifyBackend, BackendClean, Goto, Stop, Step, At
  <2>2. r \in Run /\ RunOK(r) /\ NothingThere(r)
    BY <1>3, <1>4, <2>1 DEF Run, RunOK, NothingThere
  <2> QED BY <2>1, <2>2, <1>6
<1>12. CASE RereadLease(x) /\ ~Moves(Idle)
  <2> DEFINE r == [run[x] EXCEPT !.step = "plan"]
  <2>1. Moves(r) /\ run[x].step = "reread"
    BY <1>12 DEF RereadLease, Goto, Stop, Step, At
  <2>2. r \in Run /\ RunOK(r) /\ NothingThere(r)
    BY <1>3, <1>4, <2>1 DEF Run, RunOK, NothingThere
  <2> QED BY <2>1, <2>2, <1>6
<1>13. CASE Plan(x) /\ ~Moves(Idle)
  <2> DEFINE r == [run[x] EXCEPT !.step = "finish", !.read = clock]
  <2>1. Moves(r) /\ run[x].step = "plan"
    BY <1>13 DEF Plan, Step, At
  <2>2. run[x].prior \in 1 .. Latest /\ run[x].prior + 1 <= Latest
    BY <1>3, <2>1 DEF RunOK
  <2>3. lease[run[x].prior + 1].acquired <= clock
    BY <1>3, <1>4, <2>2
  <2>4. /\ r \in Run
        /\ r.step = "finish" /\ r.prior = run[x].prior /\ r.read = clock
    BY <1>3, <1>4 DEF Run
  <2> HIDE DEF r
  <2>5. RunOK(r) /\ NothingThere(r)
    BY <1>4, <2>2, <2>3, <2>4 DEF RunOK, NothingThere
  <2> QED BY <2>1, <2>4, <2>5, <1>6
<1>14. CASE RecheckLease(x) /\ ~Moves(Idle)
  <2> DEFINE r == [run[x] EXCEPT !.step = "publish"]
  <2>1. Moves(r) /\ run[x].step = "relet"
    BY <1>14 DEF RecheckLease, Goto, Stop, Step, At
  <2>2. r \in Run /\ RunOK(r) /\ NothingThere(r)
    BY <1>3, <1>4, <2>1 DEF Run, RunOK, NothingThere
  <2> QED BY <2>1, <2>2, <1>6
<1>15. CASE Die(x)
  BY <1>7, <1>15 DEF Die, Stop, Step
<1> QED BY <1>7, <1>8, <1>9, <1>10, <1>11, <1>12, <1>13, <1>14, <1>15

(* The put: the successor is dated after its predecessor's end.            *)
LEMMA PutLeaseStep ==
  ASSUME IInv, NEW x \in Executor, PutLease(x),
         UNCHANGED <<clock, serial, deployed, saved, authority, finalizing, admitting, started>>
  PROVE  IInv'
<1> USE DEF finalizing, admitting
<1>1. TypeOK /\ LeaseInv /\ RunInv /\ PlanInv /\ AuthorityInv /\ AdmissionInv
  BY DEF IInv
<1>2. /\ run[x] \in Run /\ RunOK(run[x]) /\ run[x].step = "put"
      /\ run[x].prior \in Nat /\ run[x].read \in Nat
  BY <1>1, RunFields DEF RunInv, PutLease, At
<1>3. CASE UNCHANGED lease /\ Stop(x)
  <2>1. started' \in [run: Nat, verify: Nat]
    BY <1>1 DEF TypeOK
  <2> QED BY <1>3, <2>1, RunStep DEF Stop, Step
<1>4. CASE /\ Latest = run[x].prior
           /\ lease' = Append(lease, Successor(x))
           /\ Goto(x, "reread") \/ Stop(x)
  <2> DEFINE r == [run[x] EXCEPT !.step = "reread"]
             new == Successor(x)
  <2>1. /\ lease \in Seq(Version) /\ clock \in Nat
        /\ Latest \in Nat \ {0} /\ LeaseTime \in Nat
        /\ \A v \in 1 .. Latest : lease[v].acquired \in Nat /\ lease[v].expires \in Nat
    BY <1>1, LeaseTypes, LeaseFitsTheHour DEF TypeOK, LeaseInv
  <2>2. /\ new \in Version
        /\ new.acquired = run[x].read /\ new.expires = run[x].read + LeaseTime
    BY <1>2, <2>1 DEF Successor, Version
  <2>3. /\ lease' \in Seq(Version) /\ Latest' = Latest + 1 /\ lease'[Latest + 1] = new
        /\ \A v \in 1 .. Latest : lease'[v] = lease[v]
    BY <1>4, <2>1, <2>2, AppendProperties DEF Latest
  <2>4. LeasesKept
    BY <2>1, <2>3 DEF LeasesKept
  <2>5. lease[Latest].expires <= run[x].read /\ run[x].read <= clock
    BY <1>2, <1>4 DEF RunOK
  <2>6. LeaseInv'
    <3>1. ASSUME NEW v \in 1 .. Latest'
          PROVE  lease'[v].acquired <= clock' /\ lease'[v].acquired <= lease'[v].expires
      <4>1. CASE v = Latest + 1
        BY <1>2, <2>1, <2>2, <2>3, <2>5, <4>1
      <4>2. CASE v \in 1 .. Latest
        BY <1>1, <2>3, <4>2 DEF LeaseInv
      <4> QED BY <2>1, <2>3, <4>1, <4>2
    <3>2. ASSUME NEW v \in 1 .. Latest', NEW w \in 1 .. Latest', v < w
          PROVE  lease'[v].expires <= lease'[w].acquired
      <4>1. v \in 1 .. Latest
        BY <2>1, <2>3, <3>2
      <4>2. CASE w = Latest + 1
        <5>1. lease[v].expires <= lease[Latest].expires
          <6>1. CASE v = Latest
            BY <2>1, <6>1
          <6>2. CASE v < Latest
            <7>1. lease[v].expires <= lease[Latest].acquired
              BY <1>1, <2>1, <4>1, <6>2 DEF LeaseInv, LeasesNeverOverlap
            <7>2. lease[Latest].acquired <= lease[Latest].expires
              BY <1>1, <2>1 DEF LeaseInv
            <7> QED BY <2>1, <4>1, <7>1, <7>2
          <6> QED BY <2>1, <4>1, <6>1, <6>2
        <5> QED BY <1>2, <2>1, <2>2, <2>3, <2>5, <4>1, <4>2, <5>1
      <4>3. CASE w \in 1 .. Latest
        BY <1>1, <2>3, <3>2, <4>1, <4>3 DEF LeaseInv, LeasesNeverOverlap
      <4> QED BY <2>1, <2>3, <4>2, <4>3
    <3> QED BY <2>1, <2>3, <3>1, <3>2 DEF LeaseInv, LeasesNeverOverlap
  <2>7. ASSUME NEW q \in Run, q.step = "reread", q.prior = Latest, q.read = run[x].read
        PROVE  RunOK(q)' /\ NothingThere(q)'
    <3>1. q.prior \in 1 .. Latest' /\ q.read <= clock' /\ q.prior + 1 <= Latest'
      BY <2>1, <2>3, <2>5, <2>7
    <3> QED BY <2>7, <3>1 DEF RunOK, NothingThere
  <2>8. RunInv' /\ run' \in [Executor -> {Idle} \cup Run]
    <3>1. ASSUME NEW q \in {Idle} \cup Run, run' = [run EXCEPT ![x] = q],
                 q # Idle => RunOK(q)' /\ NothingThere(q)'
          PROVE  RunInv' /\ run' \in [Executor -> {Idle} \cup Run]
      <4>1. clock' \in Nat /\ clock <= clock' /\ (deployed' => deployed)
        BY <2>1
      <4> QED BY <1>1, <2>4, <3>1, <4>1, RunsAfter
    <3>2. CASE run' = [run EXCEPT ![x] = r]
      <4>1. r \in Run /\ r.step = "reread" /\ r.prior = Latest /\ r.read = run[x].read
        BY <1>2, <1>4 DEF Run
      <4> HIDE DEF r
      <4> QED BY <2>7, <3>1, <3>2, <4>1
    <3>3. CASE run' = [run EXCEPT ![x] = Idle]
      BY <3>1, <3>3
    <3> QED BY <1>4, <3>2, <3>3 DEF Goto, Stop, Step
  <2>9. TypeOK'
    BY <1>1, <2>3, <2>8 DEF TypeOK
  <2>10. PlanInv' /\ AuthorityInv' /\ AdmissionInv'
    BY <1>1, <2>4, PlanFrame, AuthorityFrame, AdmissionFrame
  <2> QED BY <2>6, <2>8, <2>9, <2>10 DEF IInv
<1> QED BY <1>3, <1>4 DEF PutLease

(* What a step that leaves the leases and the clock alone keeps.           *)
LEMMA QuietStep ==
  ASSUME IInv, UNCHANGED <<clock, lease>>
  PROVE  /\ LeaseInv' /\ LeasesKept /\ clock' \in Nat /\ clock <= clock'
         /\ UNCHANGED <<saved, final>> => PlanInv'
         /\ UNCHANGED <<authority, recovered>> => AuthorityInv'
         /\ UNCHANGED <<approval, verify, grants>> => AdmissionInv'
         /\ UNCHANGED run /\ (deployed' => deployed) => RunInv'
<1>1. TypeOK /\ LeaseInv /\ RunInv /\ PlanInv /\ AuthorityInv /\ AdmissionInv
  BY DEF IInv
<1>2. clock' \in Nat /\ clock <= clock'
  BY <1>1, LeaseTypes
<1>3. LeasesKept /\ LeaseInv'
  BY <1>1, <1>2, SameLeases, SameLeaseInv
<1>4. UNCHANGED run /\ (deployed' => deployed) => RunInv'
  BY <1>1, <1>2, <1>3, RunFrame
<1> QED BY <1>1, <1>2, <1>3, <1>4, PlanFrame, AuthorityFrame, AdmissionFrame

(* A finished plan was made under this run's own lease; so is one that is  *)
(* left behind.                                                            *)
LEMMA FinishStep ==
  ASSUME IInv, NEW x \in Executor, Finish(x),
         UNCHANGED <<clock, lease, serial, deployed, authority, finalizing, admitting, started>>
  PROVE  IInv'
<1> USE DEF finalizing, admitting
<1>1. TypeOK /\ LeaseInv /\ RunInv /\ PlanInv
  BY DEF IInv
<1>2. /\ run[x] \in Run /\ RunOK(run[x]) /\ run[x].step = "finish"
      /\ run[x].prior \in Nat /\ run[x].read \in Nat /\ run[x].qualified \in Nat
  BY <1>1, RunFields DEF RunInv, Finish, At
<1>3. /\ run[x].prior \in 1 .. Latest /\ run[x].prior + 1 <= Latest
      /\ lease[run[x].prior + 1].acquired <= run[x].read /\ run[x].read <= clock
  BY <1>2 DEF RunOK
<1>4. CASE UNCHANGED saved
  <2> DEFINE r == [run[x] EXCEPT !.step = "relet", !.read = clock]
  <2>1. run' = [run EXCEPT ![x] = r] \/ run' = [run EXCEPT ![x] = Idle]
    BY DEF Finish, Step, Stop
  <2>2. clock \in Nat /\ Latest \in Nat /\ run[x].prior + 1 \in 1 .. Latest
    BY <1>1, <1>2, <1>3, LeaseTypes
  <2>3. lease[run[x].prior + 1].acquired <= clock
    BY <1>1, <2>2 DEF LeaseInv
  <2>4. /\ r \in Run
        /\ r.step = "relet" /\ r.prior = run[x].prior /\ r.read = clock
    BY <1>2, <2>2 DEF Run
  <2> HIDE DEF r
  <2>5. RunOK(r) /\ NothingThere(r)
    BY <1>3, <2>2, <2>3, <2>4 DEF RunOK, NothingThere
  <2>6. started' \in [run: Nat, verify: Nat]
    BY <1>1 DEF TypeOK
  <2> QED BY <1>4, <2>1, <2>4, <2>5, <2>6, RunStep
<1>5. CASE Stop(x) /\ saved' = saved \cup {SavedPlan(x)}
  <2>1. /\ SavedPlan(x) \in Saved
        /\ MadeUnder(SavedPlan(x))
    BY <1>2, <1>3 DEF SavedPlan, Saved, MadeUnder
  <2>2. /\ LeaseInv' /\ LeasesKept /\ clock' \in Nat /\ clock <= clock'
        /\ AuthorityInv' /\ AdmissionInv'
    BY QuietStep
  <2>3. RunInv' /\ run' \in [Executor -> {Idle} \cup Run]
    <3>1. run' = [run EXCEPT ![x] = Idle] /\ (deployed' => deployed)
      BY <1>5 DEF Stop, Step
    <3> QED BY <1>1, <2>2, <3>1, RunsAfter
  <2>4. PlanInv'
    <3>1. \A p \in Saved : MadeUnder(p) => MadeUnder(p)'
      BY <1>1, <2>2, MadeUnderKept
    <3>2. \A p \in saved' : p \in Saved /\ MadeUnder(p)
      BY <1>1, <1>5, <2>1 DEF PlanInv, TypeOK
    <3>3. \A p \in saved' : MadeUnder(p)'
      BY <3>1, <3>2
    <3>4. final.step = "again" => MadeUnder(final.plan)
      BY <1>1 DEF PlanInv
    <3>5. final'.step = "again" => MadeUnder(final.plan)'
      BY <3>4 DEF MadeUnder, Latest
    <3> QED BY <3>3, <3>5 DEF PlanInv
  <2>5. TypeOK'
    BY <1>1, <1>5, <2>1, <2>3 DEF TypeOK
  <2> QED BY <2>2, <2>3, <2>4, <2>5 DEF IInv
<1> QED BY <1>4, <1>5 DEF Finish

LEMMA PublishStep ==
  ASSUME IInv, NEW x \in Executor, Publish(x),
         UNCHANGED <<clock, lease, serial, deployed, saved, finalizing, admitting, started>>
  PROVE  IInv'
<1> USE DEF finalizing, admitting
<1>1. TypeOK /\ LeaseInv /\ RunInv /\ AuthorityInv
  BY DEF IInv
<1>2. /\ run[x] \in Run /\ RunOK(run[x]) /\ run[x].step = "publish"
      /\ run[x].prior \in Nat /\ run[x].read \in Nat /\ run[x].qualified \in Nat
  BY <1>1, RunFields DEF RunInv, Publish, At
<1> DEFINE a == Authority(run[x].prior + 1, run[x].qualified, run[x].read)
<1>3. a \in Interval /\ Bounded(a)
  <2>1. /\ run[x].prior + 1 \in 1 .. Latest
        /\ lease[run[x].prior + 1].acquired <= run[x].read
    BY <1>1, <1>2, LeaseTypes DEF RunOK
  <2> QED BY <1>1, <1>2, <2>1, AuthorityIsBounded
<1> HIDE DEF a
<1>4. authority' \subseteq authority \cup {a}
  BY DEF Publish, a
<1>5. /\ LeaseInv' /\ LeasesKept /\ clock' \in Nat /\ clock <= clock'
      /\ PlanInv' /\ AdmissionInv'
  BY QuietStep
<1>6. RunInv' /\ run' \in [Executor -> {Idle} \cup Run]
  <2>1. run' = [run EXCEPT ![x] = Idle]
    BY DEF Publish, Stop, Step
  <2> QED BY <1>1, <1>5, <2>1, RunsAfter
<1>7. AuthorityInv'
  <2>1. \A b \in Interval : Bounded(b) => Bounded(b)'
    BY <1>1, <1>5, BoundedKept
  <2>2. \A b \in authority' \cup recovered' : b \in Interval /\ Bounded(b)
    BY <1>1, <1>3, <1>4 DEF AuthorityInv, TypeOK
  <2> QED BY <2>1, <2>2 DEF AuthorityInv
<1>8. TypeOK'
  <2>1. authority' \subseteq Interval
    BY <1>1, <1>3, <1>4 DEF TypeOK
  <2> QED BY <1>1, <1>6, <2>1 DEF TypeOK
<1> QED BY <1>5, <1>6, <1>7, <1>8 DEF IInv

----------------------------------------------------------------------------
(* The finalizer's steps.                                                  *)

LEMMA RecoverStep ==
  ASSUME IInv, Recover
  PROVE  IInv'
<1> USE DEF executing, admitting
<1>1. TypeOK /\ LeaseInv /\ PlanInv /\ AuthorityInv
  BY DEF IInv
<1>2. UNCHANGED <<clock, lease, serial, deployed, run, saved, authority,
                  approval, verify, grants, started>>
  BY DEF Recover
<1>3. LeaseInv' /\ LeasesKept /\ RunInv' /\ AdmissionInv'
  BY <1>2, QuietStep
<1>4. CASE \E p \in saved : StartFinalizer(p)
  <2> PICK p \in saved : StartFinalizer(p)
    BY <1>4
  <2>1. p \in Saved /\ MadeUnder(p) /\ final' = [step |-> "again", plan |-> p]
    BY <1>1 DEF PlanInv, TypeOK, StartFinalizer
  <2>2. MadeUnder(p)'
    BY <1>1, <1>3, <2>1, MadeUnderKept
  <2>3. PlanInv'
    <3>1. \A q \in Saved : MadeUnder(q) => MadeUnder(q)'
      BY <1>1, <1>3, MadeUnderKept
    <3>2. \A q \in saved' : MadeUnder(q)'
      BY <1>1, <1>2, <3>1 DEF PlanInv, TypeOK
    <3>3. MadeUnder(final.plan)'
      BY <2>1, <2>2 DEF MadeUnder
    <3> QED BY <3>2, <3>3 DEF PlanInv
  <2>4. AuthorityInv'
    BY <1>2, QuietStep DEF StartFinalizer
  <2>5. TypeOK'
    <3>1. final' \in {Idle} \cup [step: {"again"}, plan: Saved] /\ UNCHANGED recovered
      BY <2>1 DEF StartFinalizer
    <3> QED BY <1>1, <1>2, <3>1 DEF TypeOK
  <2> QED BY <1>3, <2>3, <2>4, <2>5 DEF IInv
<1>5. CASE Finalize
  <2> DEFINE p == final.plan
             a == Authority(p.prior + 1, p.qualified, p.at)
  <2>1. p \in Saved /\ MadeUnder(p)
    <3>1. final \in {Idle} \cup [step: {"again"}, plan: Saved] /\ final.step = "again"
      BY <1>1, <1>5 DEF TypeOK, Finalize
    <3>2. Idle.step # "again"
      BY DEF Idle
    <3>3. p \in Saved
      BY <3>1, <3>2
    <3> QED BY <1>1, <3>1, <3>3 DEF PlanInv
  <2>2. a \in Interval /\ Bounded(a)
    <3>1. /\ p.prior \in Nat /\ p.at \in Nat /\ p.qualified \in Nat
      BY <2>1 DEF Saved
    <3>2. p.prior + 1 \in 1 .. Latest /\ lease[p.prior + 1].acquired <= p.at
      BY <1>1, <2>1, <3>1, LeaseTypes DEF MadeUnder
    <3> QED BY <1>1, <3>1, <3>2, AuthorityIsBounded
  <2> HIDE DEF a
  <2>3. final' = Idle /\ recovered' \subseteq recovered \cup {a}
    BY <1>5 DEF Finalize, a
  <2>4. AuthorityInv'
    <3>1. \A b \in Interval : Bounded(b) => Bounded(b)'
      BY <1>1, <1>3, BoundedKept
    <3>2. \A b \in authority' \cup recovered' : b \in Interval /\ Bounded(b)
      BY <1>1, <1>2, <2>2, <2>3 DEF AuthorityInv, TypeOK
    <3> QED BY <3>1, <3>2 DEF AuthorityInv
  <2>5. PlanInv'
    <3>1. \A q \in Saved : MadeUnder(q) => MadeUnder(q)'
      BY <1>1, <1>3, MadeUnderKept
    <3>2. \A q \in saved' : MadeUnder(q)'
      BY <1>1, <1>2, <3>1 DEF PlanInv, TypeOK
    <3>3. final'.step # "again"
      BY <2>3 DEF Idle
    <3> QED BY <3>2, <3>3 DEF PlanInv
  <2>6. TypeOK'
    <3>1. recovered' \subseteq Interval
      BY <1>1, <2>2, <2>3 DEF TypeOK
    <3> QED BY <1>1, <1>2, <2>3, <3>1 DEF TypeOK
  <2> QED BY <1>3, <2>4, <2>5, <2>6 DEF IInv
<1> QED BY <1>4, <1>5 DEF Recover

----------------------------------------------------------------------------
(* The world's steps.                                                      *)

(* An authority cannot be applied while an executor is about to replace the*)
(* lease it was made under: that lease, and so the authority, has ended.   *)
LEMMA DeployStep ==
  ASSUME IInv, Deploy
  PROVE  IInv'
<1> USE DEF executing, finalizing, admitting
<1>1. TypeOK /\ LeaseInv /\ RunInv /\ AuthorityInv
  BY DEF IInv
<1>2. UNCHANGED <<clock, lease, run, saved, authority, recovered, final,
                  approval, verify, grants, started>>
  BY DEF Deploy
<1>3. /\ LeaseInv' /\ LeasesKept /\ PlanInv' /\ AuthorityInv' /\ AdmissionInv'
      /\ UNCHANGED run /\ (deployed' => deployed) => RunInv'
  BY <1>2, QuietStep
<1>4. TypeOK'
  <2>1. serial \in Nat
    BY <1>1 DEF TypeOK
  <2>2. serial' = serial + 1 /\ (deployed' = TRUE \/ deployed' = FALSE)
    BY DEF Deploy, Apply, Destroy
  <2>3. serial' \in Nat
    BY <2>1, <2>2
  <2>4. deployed' \in BOOLEAN
    BY <2>2
  <2> QED BY <1>1, <1>2, <2>3, <2>4 DEF TypeOK
<1>5. CASE Destroy
  <2>1. RunInv'
    BY <1>2, <1>3, <1>5 DEF Destroy
  <2> QED BY <1>3, <1>4, <2>1 DEF IInv
<1>6. CASE \E a \in authority : Apply(a)
  <2> PICK a \in authority : Apply(a)
    BY <1>6
  <2>1. /\ clock < a.expires /\ a.lease = Latest
        /\ a.expires <= lease[Latest].expires /\ a.expires \in Nat
    <3>1. clock < a.expires /\ a.lease = Latest
      BY DEF Apply, AssertCurrent
    <3>2. Bounded(a) /\ a \in Interval
      BY <1>1 DEF AuthorityInv, TypeOK
    <3> QED BY <3>1, <3>2 DEF Bounded, Interval
  <2>2. ASSUME NEW y \in Executor, run[y] # Idle
        PROVE  RunOK(run[y]) /\ ~(run[y].step = "put" /\ Latest = run[y].prior)
    <3>1. run[y] \in Run /\ RunOK(run[y])
      BY <1>1, <2>2 DEF RunInv, TypeOK
    <3>2. ASSUME run[y].step = "put", Latest = run[y].prior
          PROVE  FALSE
      <4>1. lease[Latest].expires <= run[y].read /\ run[y].read <= clock
        BY <3>1, <3>2 DEF RunOK
      <4>2. /\ clock \in Nat /\ run[y].read \in Nat /\ Latest \in Nat \ {0}
            /\ lease[Latest].expires \in Nat
        BY <1>1, <3>1, LeaseTypes DEF LeaseInv, Run
      <4> QED BY <2>1, <4>1, <4>2
    <3> QED BY <3>1, <3>2
  <2>3. RunInv'
    BY <1>2, <2>2 DEF RunInv, RunOK, NothingThere, Latest
  <2> QED BY <1>3, <1>4, <2>3 DEF IInv
<1> QED BY <1>5, <1>6 DEF Deploy

LEMMA TickStep ==
  ASSUME IInv, Tick
  PROVE  IInv'
<1> USE DEF executing, finalizing, admitting
<1>1. TypeOK /\ LeaseInv /\ RunInv /\ PlanInv /\ AuthorityInv /\ AdmissionInv
  BY DEF IInv
<1>2. UNCHANGED <<lease, serial, deployed, run, saved, authority, recovered, final,
                  approval, verify, grants, started>>
  BY DEF Tick
<1>3. clock' \in Nat /\ clock <= clock'
  BY <1>1, LeaseTypes DEF Tick
<1>4. LeasesKept /\ LeaseInv'
  BY <1>1, <1>2, <1>3, SameLeases, SameLeaseInv
<1>5. RunInv' /\ PlanInv' /\ AuthorityInv' /\ AdmissionInv'
  BY <1>1, <1>2, <1>3, <1>4, RunFrame, PlanFrame, AuthorityFrame, AdmissionFrame
<1>6. TypeOK'
  BY <1>1, <1>2, <1>3 DEF TypeOK
<1> QED BY <1>4, <1>5, <1>6 DEF IInv

----------------------------------------------------------------------------
(* Admission's steps.                                                      *)

VerifyState ==
    {Idle} \cup [step: {"lease", "decide", "budgets", "again"}, observed: Nat]
           \cup [step: {"denied"},
                 why: {"lease changed", "not canonical", "not current", "limits"}]

(* A step of admission that grants nothing.                                *)
LEMMA AskingStep ==
  ASSUME IInv, UNCHANGED <<clock, lease, serial, deployed, executing, finalizing, grants>>,
         approval' \in [lease: Nat, at: Nat, until: Nat, seen: Int],
         approval'.lease \in 0 .. Latest,
         verify' \in VerifyState, verify'.step # "idle" => approval'.lease # 0,
         started' \in [run: Nat, verify: Nat]
  PROVE  IInv'
<1> USE DEF executing, finalizing
<1>1. TypeOK /\ LeaseInv /\ AdmissionInv
  BY DEF IInv
<1>2. UNCHANGED <<clock, lease, serial, deployed, run, saved, authority, recovered,
                  final, grants>>
  OBVIOUS
<1>3. LeaseInv' /\ RunInv' /\ PlanInv' /\ AuthorityInv'
  BY <1>2, QuietStep
<1>4. AdmissionInv'
  BY <1>1, <1>2 DEF AdmissionInv, Latest, Current
<1>5. TypeOK'
  BY <1>1, <1>2 DEF TypeOK, VerifyState
<1> QED BY <1>3, <1>4, <1>5 DEF IInv

LEMMA GrantStep ==
  ASSUME IInv, UNCHANGED <<clock, lease, serial, deployed, executing, finalizing>>,
         verify.step # "idle", Grant, Admissible(clock)
  PROVE  IInv'
<1> USE DEF executing, finalizing
<1>1. TypeOK /\ LeaseInv /\ AdmissionInv
  BY DEF IInv
<1>2. UNCHANGED <<clock, lease, serial, deployed, run, saved, authority, recovered,
                  final, approval, started>>
  BY DEF Grant
<1>3. LeaseInv' /\ RunInv' /\ PlanInv' /\ AuthorityInv'
  BY <1>2, QuietStep
<1> DEFINE g == [lease |-> approval.lease, at |-> clock]
<1>4. verify' = Idle /\ grants' = grants \cup {g}
  BY DEF Grant
<1>5. g \in [lease: Nat, at: Nat] /\ g.lease \in 1 .. Latest /\ Current(g.lease, g.at)
  BY <1>1, LeaseTypes DEF AdmissionInv, Admissible
<1> HIDE DEF g
<1>6. AdmissionInv'
  <2>1. \A h \in grants' : h.lease \in 1 .. Latest /\ Current(h.lease, h.at)
    BY <1>1, <1>4, <1>5 DEF AdmissionInv
  <2>2. \A h \in grants' : (h.lease \in 1 .. Latest /\ Current(h.lease, h.at))'
    BY <1>2, <2>1 DEF Latest, Current
  <2>3. verify'.step = "idle"
    BY <1>4 DEF Idle
  <2> QED BY <1>1, <1>2, <2>2, <2>3 DEF AdmissionInv, Latest
<1>7. TypeOK'
  <2>1. grants' \subseteq [lease: Nat, at: Nat] /\ verify' \in VerifyState
    BY <1>1, <1>4, <1>5 DEF TypeOK, VerifyState
  <2> QED BY <1>1, <1>2, <2>1 DEF TypeOK, VerifyState
<1> QED BY <1>3, <1>6, <1>7 DEF IInv

LEMMA AdmitStep ==
  ASSUME IInv, Admit
  PROVE  IInv'
<1>1. TypeOK /\ AdmissionInv
  BY DEF IInv
<1>2. UNCHANGED <<clock, lease, serial, deployed, executing, finalizing>>
  BY DEF Admit
<1>3. /\ approval \in [lease: Nat, at: Nat, until: Nat, seen: Int]
      /\ approval.lease \in 0 .. Latest
      /\ verify \in VerifyState
      /\ started \in [run: Nat, verify: Nat]
      /\ clock \in Nat /\ Latest \in Nat
  BY <1>1, LeaseTypes DEF TypeOK, VerifyState, AdmissionInv
<1>4. verify.step # "idle" => approval.lease # 0
  BY <1>1 DEF AdmissionInv
<1>5. ASSUME UNCHANGED <<approval, grants>>, approval.lease # 0,
             verify' \in VerifyState, started' \in [run: Nat, verify: Nat]
      PROVE  IInv'
  BY <1>2, <1>3, <1>5, AskingStep
<1>6. CASE \E term \in Terms, age \in Ages : Approve(term, age)
  <2> PICK term \in Terms, age \in Ages : Approve(term, age)
    BY <1>6
  <2>1. term \in Nat /\ age \in Nat
    BY ApprovalsAreBounded, LeaseFitsTheHour
  <2>2. /\ approval' = [lease |-> Latest, at |-> clock, until |-> clock + term,
                        seen |-> clock - age]
        /\ UNCHANGED <<verify, grants, started>> /\ verify.step = "idle"
    BY DEF Approve
  <2>3. /\ approval' \in [lease: Nat, at: Nat, until: Nat, seen: Int]
        /\ approval'.lease \in 0 .. Latest
    BY <1>3, <2>1, <2>2
  <2> QED BY <1>2, <1>3, <2>2, <2>3, AskingStep
<1>7. CASE Ask
  <2>1. /\ verify' = [step |-> "lease", observed |-> clock]
        /\ UNCHANGED <<approval, grants>> /\ approval.lease # 0
        /\ started' = [started EXCEPT !.verify = @ + 1]
    BY <1>7 DEF Ask
  <2>2. started' \in [run: Nat, verify: Nat]
    BY <1>3, <2>1
  <2>3. verify' \in [step: {"lease", "decide", "budgets", "again"}, observed: Nat]
    BY <1>3, <2>1
  <2>4. verify' \in VerifyState
    BY <2>3 DEF VerifyState
  <2> QED BY <1>5, <2>1, <2>2, <2>4
<1>8. ASSUME NEW why \in {"lease changed", "not canonical", "not current", "limits"},
             Deny(why), verify.step # "idle"
      PROVE  IInv'
  <2>1. verify' \in VerifyState
    BY <1>8 DEF Deny, VerifyState
  <2> QED BY <1>3, <1>4, <1>5, <1>8, <2>1 DEF Deny
<1>9. ASSUME NEW step \in {"decide", "budgets", "again"},
             Proceed(step), verify.step \in {"lease", "decide", "budgets"}
      PROVE  IInv'
  <2>1. verify # Idle /\ verify.step # "denied" /\ verify.step # "idle"
    BY <1>9 DEF Idle
  <2>2. verify \in [step: {"lease", "decide", "budgets", "again"}, observed: Nat]
    BY <1>3, <2>1 DEF VerifyState
  <2>3. verify' \in [step: {"lease", "decide", "budgets", "again"}, observed: Nat]
    BY <1>9, <2>2 DEF Proceed
  <2>4. verify' \in VerifyState
    BY <2>3 DEF VerifyState
  <2> QED BY <1>3, <1>4, <1>5, <1>9, <2>1, <2>4 DEF Proceed
<1>10. CASE ReadLease("lease", "decide") \/ ReadLease("budgets", "again")
  BY <1>8, <1>9, <1>10 DEF ReadLease
<1>11. CASE DecideFirst
  BY <1>8, <1>9, <1>11 DEF DecideFirst
<1>12. CASE DecideAgain
  <2>1. CASE Grant /\ Admissible(clock)
    BY <1>2, <1>12, <2>1, GrantStep DEF DecideAgain
  <2> QED BY <1>8, <1>12, <2>1 DEF DecideAgain
<1> QED BY <1>6, <1>7, <1>10, <1>11, <1>12 DEF Admit

----------------------------------------------------------------------------
(* The invariant.                                                          *)

LEMMA ExecuteStep ==
  ASSUME IInv, NEW x \in Executor, Execute(x)
  PROVE  IInv'
<1>1. CASE PutLease(x) /\ UNCHANGED <<clock, serial, deployed, saved, authority,
                                     finalizing, admitting, started>>
  BY <1>1, PutLeaseStep
<1>2. CASE Finish(x) /\ UNCHANGED <<clock, lease, serial, deployed, authority,
                                   finalizing, admitting, started>>
  BY <1>2, FinishStep
<1>3. CASE Publish(x) /\ UNCHANGED <<clock, lease, serial, deployed, saved,
                                    finalizing, admitting, started>>
  BY <1>3, PublishStep
<1> QED BY <1>1, <1>2, <1>3, CheckStep DEF Execute

LEMMA InitHolds == Init => IInv
<1> SUFFICES ASSUME Init PROVE IInv
  OBVIOUS
<1>1. Idle.step = "idle"
  BY DEF Idle
<1>2. /\ lease = <<[acquired |-> 0, expires |-> LeaseTime, form |-> "bare"]>>
      /\ clock = 0 /\ LeaseTime \in Nat
  BY LeaseFitsTheHour DEF Init
<1>3. Latest = 1 /\ lease[1].acquired = 0 /\ lease[1].expires = LeaseTime
      /\ lease \in Seq(Version)
  BY <1>2 DEF Latest, Version
<1>4. TypeOK
  <2>1. clock \in Nat /\ serial \in Nat /\ deployed \in BOOLEAN
    BY DEF Init
  <2>2. run \in [Executor -> {Idle} \cup Run]
    BY DEF Init
  <2>3. saved \subseteq Saved /\ authority \subseteq Interval /\ recovered \subseteq Interval
    BY DEF Init
  <2>4. /\ final \in {Idle} \cup [step: {"again"}, plan: Saved]
        /\ verify = Idle
        /\ grants \subseteq [lease: Nat, at: Nat]
    BY DEF Init
  <2>5. /\ approval \in [lease: Nat, at: Nat, until: Nat, seen: Int]
        /\ started \in [run: Nat, verify: Nat]
    BY DEF Init
  <2> QED BY <1>3, <2>1, <2>2, <2>3, <2>4, <2>5 DEF TypeOK
<1>5. LeaseInv
  BY <1>2, <1>3 DEF LeaseInv, LeasesNeverOverlap
<1>6. RunInv
  BY DEF Init, RunInv
<1>7. PlanInv
  BY <1>1 DEF Init, PlanInv
<1>8. AuthorityInv /\ AdmissionInv
  BY <1>1, <1>3 DEF Init, AuthorityInv, AdmissionInv
<1> QED BY <1>4, <1>5, <1>6, <1>7, <1>8 DEF IInv

LEMMA StutterStep ==
  ASSUME IInv, UNCHANGED vars
  PROVE  IInv'
<1> USE DEF vars, executing, finalizing, admitting
<1>1. TypeOK'
  BY DEF IInv, TypeOK
<1> QED BY <1>1, QuietStep DEF IInv

LEMMA NextHolds == IInv /\ [Next]_vars => IInv'
<1> SUFFICES ASSUME IInv, [Next]_vars PROVE IInv'
  OBVIOUS
<1> QED
  BY TickStep, BeginStep, ExecuteStep, RecoverStep, DeployStep, AdmitStep, StutterStep
  DEF Next

(* The invariant of PlanLease: leases, executors, plans, authorities and   *)
(* grants are as the code's checks leave them, whatever is interleaved.    *)
THEOREM Invariance == Spec => []IInv
BY InitHolds, NextHolds, PTL DEF Spec

(* The variables have their types: the states of TypeOK.                   *)
THEOREM TypeCorrect == Spec => []TypeOK
<1>1. IInv => TypeOK
  BY DEF IInv
<1> QED BY <1>1, Invariance, PTL

(* The lease is exclusive over its whole history, for any number of        *)
(* operators that run the executor (execute_stage6_plan.execute).          *)
THEOREM LeasesExclude == Spec => []LeasesNeverOverlap
<1>1. IInv => LeasesNeverOverlap
  BY DEF IInv, LeaseInv
<1> QED BY <1>1, Invariance, PTL

(* An authority ends with the lease and the qualification it was made      *)
(* under, so those of two leases are never in force together.              *)
THEOREM AuthoritiesExclude == Spec => []OneLeaseInForce
<1>1. IInv => OneLeaseInForce
  <2> SUFFICES ASSUME IInv, NEW a \in authority \cup recovered,
                      NEW b \in authority \cup recovered
               PROVE  /\ lease[a.lease].acquired <= a.created
                      /\ a.expires <= Least(lease[a.lease].expires, a.qualified + Window)
                      /\ a.lease < b.lease => a.expires <= b.created
    BY DEF OneLeaseInForce
  <2>1. Bounded(a) /\ Bounded(b) /\ a \in Interval /\ b \in Interval
    BY DEF IInv, AuthorityInv, TypeOK
  <2>2. TypeOK /\ LeasesNeverOverlap
    BY DEF IInv, LeaseInv
  <2>3. /\ a.lease \in 1 .. Latest /\ b.lease \in 1 .. Latest
        /\ lease[a.lease].expires \in Nat /\ lease[b.lease].acquired \in Nat
        /\ a.expires \in Nat /\ b.created \in Nat /\ a.qualified + Window \in Nat
    BY <2>1, <2>2, LeaseTypes, LeaseFitsTheHour DEF Bounded, Interval
  <2>4. a.expires <= Least(lease[a.lease].expires, a.qualified + Window)
    BY <2>1, <2>3, LeastOfTwo DEF Bounded
  <2>5. ASSUME a.lease < b.lease
        PROVE  a.expires <= b.created
    <3>1. lease[a.lease].expires <= lease[b.lease].acquired
      BY <2>2, <2>3, <2>5 DEF LeasesNeverOverlap
    <3>2. a.expires <= lease[a.lease].expires /\ lease[b.lease].acquired <= b.created
      BY <2>1 DEF Bounded
    <3> QED BY <2>3, <3>1, <3>2
  <2> QED BY <2>1, <2>4, <2>5 DEF Bounded
<1> QED BY <1>1, Invariance, PTL

(* A run is admitted under the lease that is in force when it is, although *)
(* lease, quotas and budgets are read one after the other                  *)
(* (AWSManagedAdmission.verify).                                           *)
THEOREM GrantsHold == Spec => []GrantedUnderTheLease
<1>1. IInv => GrantedUnderTheLease
  <2> SUFFICES ASSUME IInv, NEW g \in grants
               PROVE  /\ Current(g.lease, g.at)
                      /\ \A v \in g.lease + 1 .. Latest : g.at < lease[v].acquired
    BY DEF GrantedUnderTheLease
  <2>1. /\ TypeOK /\ LeasesNeverOverlap
        /\ g.lease \in 1 .. Latest /\ Current(g.lease, g.at)
        /\ g \in [lease: Nat, at: Nat]
    BY DEF IInv, LeaseInv, AdmissionInv, TypeOK
  <2>2. ASSUME NEW v \in g.lease + 1 .. Latest
        PROVE  g.at < lease[v].acquired
    <3>1. /\ v \in 1 .. Latest /\ g.lease < v
          /\ lease[v].acquired \in Nat /\ lease[g.lease].expires \in Nat
      BY <2>1, LeaseTypes
    <3>2. lease[g.lease].expires <= lease[v].acquired
      BY <2>1, <3>1 DEF LeasesNeverOverlap
    <3>3. g.at < lease[g.lease].expires
      BY <2>1 DEF Current
    <3> QED BY <2>1, <3>1, <3>2, <3>3
  <2> QED BY <2>1, <2>2
<1> QED BY <1>1, Invariance, PTL

(* A lease is taken over only while nothing of the earlier run is          *)
(* deployed, although the inventory is read before the put.                *)
THEOREM TakeoversAreIdle == Spec => TakeoverOnlyWhenIdle
<1>1. IInv /\ [Next]_vars => [lease' # lease => ~deployed]_vars
  <2> SUFFICES ASSUME IInv, [Next]_vars, lease' # lease PROVE ~deployed
    OBVIOUS
  <2>1. PICK x \in Executor : PutLease(x)
    BY DEF Next, vars, Tick, Begin, Execute, Recover, Deploy, Admit
  <2>2. run[x].step = "put" /\ Latest = run[x].prior
    BY <2>1 DEF PutLease, At
  <2>3. NothingThere(run[x])
    BY <2>2 DEF IInv, RunInv, Idle
  <2> QED BY <2>2, <2>3 DEF NothingThere
<1> QED BY <1>1, Invariance, PTL DEF Spec, TakeoverOnlyWhenIdle

=============================================================================
