------------------------- MODULE CloudOnlineProofs -------------------------
(***************************************************************************)
(* Proofs about CloudOnline, for any feature sets, generations, keys,      *)
(* plans and workers, and any number of lost responses, late arrivals and  *)
(* expired records.                                                        *)
(***************************************************************************)
EXTENDS CloudOnline, FiniteSetTheorems, WellFoundedInduction, TLAPS

Late == {"SEALED", "VALIDATED"}

Owned(p)  == owner[PlanGen[p]].plan = p
Beyond(p) == Owned(p) /\ owner[PlanGen[p]].state \in Late

(* The record of a key is as planned, or the time to live deleted it while *)
(* its owner was in one of these states.                                   *)
Kept(p, k, states) ==
  item[PlanGen[p]][k] = PlanRows[p][k] \/ Deleted(PlanGen[p], k, states)

(* What a worker that wrote, or a scan that read, a record may rely on.    *)
Wrote(p, k) == Owned(p) /\ Kept(p, k, OwnerState)
Read(p, k)  == Beyond(p) /\ Kept(p, k, Late)

----------------------------------------------------------------------------
(* The tables: an item belongs to the plan that owns its generation, and   *)
(* what is sealed was written, what is validated was read.                 *)
OwnerOK(g) ==
  /\ owner[g].state = "ABSENT" => owner[g].plan = NoPlan
  /\ owner[g].state # "ABSENT" =>
       /\ owner[g].plan \in Plan
       /\ PlanGen[owner[g].plan] = g
  /\ \A k \in Key : item[g][k] # Absent =>
       /\ owner[g].state # "ABSENT"
       /\ item[g][k] = PlanRows[owner[g].plan][k]
  /\ owner[g].state \in Late => \A k \in Planned(owner[g].plan) : Wrote(owner[g].plan, k)
  /\ owner[g].state = "VALIDATED" => \A k \in Planned(owner[g].plan) : Read(owner[g].plan, k)

OwnerInv == \A g \in Generation : OwnerOK(g)

OperationInv ==
  /\ \A p \in Plan : op[p] # NoOp =>
       op[p].plan = p /\ OwnerIs(p, "VALIDATED") /\ op[p].expected.version \in Nat
  /\ \A f \in FeatureSet : IsFiniteSet(Moves(f))
  /\ \A f \in FeatureSet : ptr[f].version = 0 => ptr[f].gen = NoGeneration
  /\ OperationsAreTheChain

(* Only these requests rely on something their conditions do not ask.      *)
RequestOK(r) ==
  /\ r.kind = "seal" => \A k \in Planned(r.plan) : Wrote(r.plan, k)
  /\ r.kind = "validate" => \A k \in Planned(r.plan) : Read(r.plan, k)

NetworkInv == \A r \in network : RequestOK(r)

(* An invocation knows what it wrote, what it read, and what it returns.   *)
Materializing ==
  {"own", "claim", "reclaim", "write", "rewrite", "seal", "reseal",
   "validate", "revalidate", "confirm"}
Activating == {"replay", "activate", "recheck"}

InvocationOK(r) ==
  /\ r.pc \notin {"idle", "failed"} => r.plan \in Plan
  /\ r.pc \in Materializing => r.call = "materialize"
  /\ r.pc = "page" => r.call \in {"materialize", "records"}
  /\ r.pc \in Activating => r.call = "activate" /\ r.expected \in Expectation
  /\ r.pc \in {"own", "claim", "reclaim"} => Planned(r.plan) \subseteq r.todo
  /\ r.pc \in {"write", "rewrite"} =>
       Owned(r.plan) /\ \A k \in Planned(r.plan) \ r.todo : Wrote(r.plan, k)
  /\ r.pc = "seal" => Beyond(r.plan)
  /\ \A k \in r.seen : r.plan \in Plan /\ Read(r.plan, k)
  /\ r.pc \in {"validate", "revalidate", "confirm"} =>
       \A k \in Planned(r.plan) : Read(r.plan, k)
  /\ r.pc = "confirm" => OwnerIs(r.plan, "VALIDATED")
  /\ r.pc = "done" =>
       /\ r.call = "materialize" => OwnerIs(r.plan, "VALIDATED")
       /\ r.call = "records" => Beyond(r.plan)
       /\ r.call = "activate" =>
            /\ r.expected \in Expectation
            /\ op[r.plan] = [plan |-> r.plan, expected |-> r.expected]
       /\ r.call # "none"

WorkerInv == \A w \in Worker : InvocationOK(worker[w])

TableTypes ==
  /\ owner \in [Generation -> Owner]
  /\ item \in [Generation -> [Key -> Content \union {Absent}]]
  /\ cand \in [FeatureSet -> [Generation -> Plan \union {NoPlan}]]
  /\ ptr \in [FeatureSet -> [gen: GenerationOrNone, version: Nat]]
  /\ op \in [Plan -> Activation \union {NoOp}]
  /\ expired \subseteq Generation \X Key \X OwnerState

TablesOK == TableTypes /\ OwnerInv /\ OperationInv

IInv == TypeOK /\ TablesOK /\ WorkerInv /\ NetworkInv /\ IsFiniteSet(expired)

----------------------------------------------------------------------------
(* What every step does to the tables: an owner goes forward, a record     *)
(* that is as planned stays or is deleted, and operations stay.            *)
Advances(g) ==
  \/ owner'[g] = owner[g]
  \/ owner[g].state = "ABSENT" /\ owner'[g].state = "WRITING"
  \/ /\ owner'[g].plan = owner[g].plan
     /\ \/ owner[g].state = "WRITING" /\ owner'[g].state = "SEALED"
        \/ owner[g].state = "SEALED" /\ owner'[g].state = "VALIDATED"

Progress ==
  /\ \A g \in Generation : Advances(g)
  /\ \A g \in Generation, k \in Key :
       owner[g].state # "ABSENT" /\ item[g][k] = PlanRows[owner[g].plan][k] =>
         item'[g][k] = item[g][k] \/ <<g, k, owner[g].state>> \in expired'
  /\ \A p \in Plan : op[p] # NoOp => op'[p] = op[p]
  /\ expired \subseteq expired'

LEMMA PlanTypes ==
  ASSUME NEW p \in Plan
  PROVE  /\ PlanFs[p] \in FeatureSet /\ PlanGen[p] \in Generation
         /\ PlanRows[p] \in [Key -> Content \union {Absent}]
         /\ Planned(p) \subseteq Key
         /\ p # NoPlan
BY PlanAssumption, NullAssumption DEF Planned

LEMMA OwnedIsClaimed ==
  ASSUME TablesOK, NEW p \in Plan, Owned(p)
  PROVE  owner[PlanGen[p]].state # "ABSENT"
BY PlanTypes DEF TablesOK, OwnerInv, OwnerOK, Owned

LEMMA OwnedPersists ==
  ASSUME TablesOK, Progress, NEW p \in Plan, Owned(p)
  PROVE  Owned(p)'
BY PlanTypes, OwnedIsClaimed DEF Owned, Progress, Advances

LEMMA BeyondPersists ==
  ASSUME TablesOK, Progress, NEW p \in Plan, Beyond(p)
  PROVE  Beyond(p)'
<1>1. Owned(p)'
  BY OwnedPersists DEF Beyond
<1>2. owner'[PlanGen[p]].state \in Late
  BY PlanTypes DEF Beyond, Late, Progress, Advances
<1> QED BY <1>1, <1>2 DEF Beyond

LEMMA ValidatedPersists ==
  ASSUME TablesOK, Progress, NEW p \in Plan, OwnerIs(p, "VALIDATED")
  PROVE  OwnerIs(p, "VALIDATED")'
BY PlanTypes DEF OwnerIs, Progress, Advances

LEMMA KeptPersists ==
  ASSUME TablesOK, Progress, NEW p \in Plan, NEW k \in Key, Owned(p),
         NEW states, owner[PlanGen[p]].state \in states,
         Kept(p, k, states)
  PROVE  Kept(p, k, states)'
<1>1. owner[PlanGen[p]].state # "ABSENT" /\ PlanGen[p] \in Generation
  BY OwnedIsClaimed, PlanTypes
<1>2. CASE Deleted(PlanGen[p], k, states)
  BY <1>2 DEF Kept, Deleted, Progress
<1>3. CASE item[PlanGen[p]][k] = PlanRows[p][k]
  <2>1. \/ item'[PlanGen[p]][k] = item[PlanGen[p]][k]
        \/ <<PlanGen[p], k, owner[PlanGen[p]].state>> \in expired'
    BY <1>1, <1>3 DEF Progress, Owned
  <2> QED BY <1>3, <2>1 DEF Kept, Deleted
<1> QED BY <1>2, <1>3 DEF Kept

LEMMA WrotePersists ==
  ASSUME TablesOK, Progress, NEW p \in Plan, NEW k \in Key, Wrote(p, k)
  PROVE  Wrote(p, k)'
<1>1. Owned(p) /\ Kept(p, k, OwnerState)
  BY DEF Wrote
<1>2. owner[PlanGen[p]].state \in OwnerState
  BY PlanTypes DEF TablesOK, TableTypes, Owner
<1> QED BY <1>1, <1>2, OwnedPersists, KeptPersists DEF Wrote

LEMMA ReadPersists ==
  ASSUME TablesOK, Progress, NEW p \in Plan, NEW k \in Key, Read(p, k)
  PROVE  Read(p, k)'
<1>1. Owned(p) /\ owner[PlanGen[p]].state \in Late /\ Beyond(p) /\ Kept(p, k, Late)
  BY DEF Read, Beyond
<1> QED BY <1>1, BeyondPersists, KeptPersists DEF Read

LEMMA ReadWasWritten ==
  ASSUME NEW p \in Plan, NEW k \in Key, Read(p, k)
  PROVE  Wrote(p, k)
BY DEF Read, Wrote, Beyond, Kept, Deleted, Late, OwnerState

LEMMA RequestPersists ==
  ASSUME TablesOK, Progress, NEW r \in Request, RequestOK(r)
  PROVE  RequestOK(r)'
<1>1. r.plan \in Plan
  BY DEF Request
<1>2. ASSUME r.kind = "seal", NEW k \in Planned(r.plan)
      PROVE  Wrote(r.plan, k)'
  BY <1>1, <1>2, PlanTypes, WrotePersists DEF RequestOK
<1>3. ASSUME r.kind = "validate", NEW k \in Planned(r.plan)
      PROVE  Read(r.plan, k)'
  BY <1>1, <1>3, PlanTypes, ReadPersists DEF RequestOK
<1> QED BY <1>2, <1>3 DEF RequestOK, Planned

LEMMA InvocationPersists ==
  ASSUME TablesOK, Progress, NEW r \in Invocation, InvocationOK(r)
  PROVE  InvocationOK(r)'
<1>1. /\ r.pc \notin {"idle", "failed"} => r.plan \in Plan
      /\ r.pc \in Materializing => r.call = "materialize"
      /\ r.pc = "page" => r.call \in {"materialize", "records"}
      /\ r.pc \in Activating => r.call = "activate" /\ r.expected \in Expectation
      /\ r.pc \in {"own", "claim", "reclaim"} => Planned(r.plan) \subseteq r.todo
      /\ r.pc = "done" => r.call # "none"
  BY DEF InvocationOK
<1>2. r.pc \in {"write", "rewrite"} =>
        Owned(r.plan)' /\ \A k \in Planned(r.plan) \ r.todo : Wrote(r.plan, k)'
  <2> SUFFICES ASSUME r.pc \in {"write", "rewrite"}
               PROVE  Owned(r.plan)' /\ \A k \in Planned(r.plan) \ r.todo : Wrote(r.plan, k)'
    OBVIOUS
  <2>1. /\ r.plan \in Plan /\ Owned(r.plan)
        /\ \A k \in Planned(r.plan) \ r.todo : Wrote(r.plan, k)
    BY DEF InvocationOK
  <2> QED BY <2>1, OwnedPersists, WrotePersists, PlanTypes
<1>3. r.pc = "seal" => Beyond(r.plan)'
  BY BeyondPersists DEF InvocationOK
<1>4. \A k \in r.seen : r.plan \in Plan /\ Read(r.plan, k)'
  <2>1. r.seen \subseteq Key
    BY DEF Invocation
  <2> QED BY <2>1, ReadPersists DEF InvocationOK
<1>5. r.pc \in {"validate", "revalidate", "confirm"} =>
        \A k \in Planned(r.plan) : Read(r.plan, k)'
  <2> SUFFICES ASSUME r.pc \in {"validate", "revalidate", "confirm"},
                      NEW k \in Planned(r.plan)
               PROVE  Read(r.plan, k)'
    OBVIOUS
  <2>1. r.plan \in Plan /\ Read(r.plan, k)
    BY DEF InvocationOK
  <2> QED BY <2>1, ReadPersists, PlanTypes
<1>6. r.pc = "confirm" => OwnerIs(r.plan, "VALIDATED")'
  BY ValidatedPersists DEF InvocationOK
<1>7. r.pc = "done" =>
        /\ r.call = "materialize" => OwnerIs(r.plan, "VALIDATED")'
        /\ r.call = "records" => Beyond(r.plan)'
        /\ r.call = "activate" =>
             /\ r.expected \in Expectation
             /\ op'[r.plan] = [plan |-> r.plan, expected |-> r.expected]
  <2> SUFFICES ASSUME r.pc = "done"
               PROVE  /\ r.call = "materialize" => OwnerIs(r.plan, "VALIDATED")'
                      /\ r.call = "records" => Beyond(r.plan)'
                      /\ r.call = "activate" =>
                           /\ r.expected \in Expectation
                           /\ op'[r.plan] = [plan |-> r.plan, expected |-> r.expected]
    OBVIOUS
  <2>1. r.plan \in Plan
    BY <1>1
  <2>2. ASSUME r.call = "activate"
        PROVE  /\ r.expected \in Expectation
               /\ op'[r.plan] = [plan |-> r.plan, expected |-> r.expected]
    <3>1. /\ op[r.plan] = [plan |-> r.plan, expected |-> r.expected]
          /\ r.expected \in Expectation
      BY <2>2 DEF InvocationOK
    <3>2. op[r.plan] # NoOp
      BY <2>1, <3>1, OperationAssumption DEF Activation
    <3> QED BY <2>1, <3>1, <3>2 DEF Progress
  <2>3. r.call = "materialize" => OwnerIs(r.plan, "VALIDATED")'
    BY <2>1, ValidatedPersists DEF InvocationOK
  <2>4. r.call = "records" => Beyond(r.plan)'
    BY <2>1, BeyondPersists DEF InvocationOK
  <2> QED BY <2>2, <2>3, <2>4
<1> QED BY <1>1, <1>2, <1>3, <1>4, <1>5, <1>6, <1>7 DEF InvocationOK, Planned

----------------------------------------------------------------------------
(* What a step keeps of a generation whose owner it leaves alone.          *)
LEMMA OwnerKept ==
  ASSUME TablesOK, Progress, NEW g \in Generation, owner'[g] = owner[g],
         \A k \in Key : item'[g][k] \in {item[g][k], Absent}
  PROVE  OwnerOK(g)'
<1>0. PICK p : p = owner[g].plan
  OBVIOUS
<1>1. /\ owner[g].state = "ABSENT" => p = NoPlan
      /\ owner[g].state # "ABSENT" => p \in Plan /\ PlanGen[p] = g
      /\ \A k \in Key : item[g][k] # Absent =>
           owner[g].state # "ABSENT" /\ item[g][k] = PlanRows[p][k]
  BY <1>0 DEF TablesOK, OwnerInv, OwnerOK
<1>2. ASSUME owner[g].state \in Late, NEW k \in Planned(p)
      PROVE  Wrote(p, k)'
  <2>1. p \in Plan /\ k \in Key /\ Wrote(p, k)
    BY <1>0, <1>1, <1>2 DEF TablesOK, OwnerInv, OwnerOK, Late, Planned
  <2> QED BY <2>1, WrotePersists
<1>3. ASSUME owner[g].state = "VALIDATED", NEW k \in Planned(p)
      PROVE  Read(p, k)'
  <2>1. p \in Plan /\ k \in Key /\ Read(p, k)
    BY <1>0, <1>1, <1>3 DEF TablesOK, OwnerInv, OwnerOK, Planned
  <2> QED BY <2>1, ReadPersists
<1>4. /\ owner'[g].state = owner[g].state /\ owner'[g].plan = p
      /\ \A k \in Key : item'[g][k] # Absent =>
           owner[g].state # "ABSENT" /\ item'[g][k] = PlanRows[p][k]
  BY <1>0, <1>1
<1>5. (owner[g].state \in Late =>
          \A k \in Planned(owner[g].plan) : Wrote(owner[g].plan, k))'
  BY <1>2, <1>4 DEF Planned, Wrote, Owned, Kept, Deleted, Late
<1>6. (owner[g].state = "VALIDATED" =>
          \A k \in Planned(owner[g].plan) : Read(owner[g].plan, k))'
  BY <1>3, <1>4 DEF Planned, Read, Beyond, Owned, Kept, Deleted
<1> QED BY <1>1, <1>4, <1>5, <1>6 DEF OwnerOK

LEMMA OperationsKept ==
  ASSUME TablesOK, Progress, UNCHANGED <<ptr, op>>
  PROVE  OperationInv'
<1>1. \A p \in Plan : op[p] # NoOp => OwnerIs(p, "VALIDATED")'
  BY ValidatedPersists DEF TablesOK, OperationInv
<1>2. \A f \in FeatureSet : Moves(f)' = Moves(f)
  BY DEF Moves
<1>3. OperationsAreTheChain'
  BY <1>2 DEF TablesOK, OperationInv, OperationsAreTheChain
<1> QED BY <1>1, <1>2, <1>3 DEF TablesOK, OperationInv

(* The owner of one generation moves, and no item does.                    *)
LEMMA OwnerMoves ==
  ASSUME TablesOK, NEW p \in Plan, NEW state \in OwnerState,
         SetOwner(p, state),
         \/ owner[PlanGen[p]].state = "ABSENT" /\ state = "WRITING"
         \/ OwnerIs(p, "WRITING") /\ state = "SEALED"
         \/ OwnerIs(p, "SEALED") /\ state = "VALIDATED",
         UNCHANGED <<item, ptr, op, expired>>
  PROVE  /\ Progress
         /\ owner' \in [Generation -> Owner]
         /\ owner'[PlanGen[p]] = [state |-> state, plan |-> p]
         /\ \A g \in Generation \ {PlanGen[p]} : OwnerOK(g)'
         /\ OperationInv'
<1> DEFINE g == PlanGen[p]
<1>1. /\ g \in Generation /\ owner \in [Generation -> Owner]
      /\ owner' = [owner EXCEPT ![g] = [state |-> state, plan |-> p]]
  BY PlanTypes DEF SetOwner, TablesOK, TableTypes
<1>2. /\ owner' \in [Generation -> Owner]
      /\ owner'[g] = [state |-> state, plan |-> p]
      /\ \A h \in Generation \ {g} : owner'[h] = owner[h]
  BY <1>1 DEF Owner
<1>3. Progress
  BY <1>1, <1>2 DEF Progress, Advances, OwnerIs
<1>4. \A h \in Generation \ {g} : OwnerOK(h)'
  BY <1>2, <1>3, OwnerKept
<1> QED BY <1>2, <1>3, <1>4, OperationsKept

LEMMA ClaimHolds ==
  ASSUME TablesOK, NEW p \in Plan, Claim(p), UNCHANGED expired
  PROVE  TablesOK' /\ Progress /\ Owned(p)'
<1>1. /\ SetOwner(p, "WRITING") /\ owner[PlanGen[p]].state = "ABSENT"
      /\ UNCHANGED <<item, cand, ptr, op, expired>> /\ "WRITING" \in OwnerState
  BY DEF Claim, MayClaim, OwnerState
<1>2. /\ Progress /\ OperationInv'
      /\ owner' \in [Generation -> Owner]
      /\ owner'[PlanGen[p]] = [state |-> "WRITING", plan |-> p]
      /\ \A g \in Generation \ {PlanGen[p]} : OwnerOK(g)'
  BY <1>1, OwnerMoves
<1>3. OwnerOK(PlanGen[p])'
  <2>1. \A k \in Key : item[PlanGen[p]][k] = Absent
    BY <1>1, PlanTypes DEF TablesOK, OwnerInv, OwnerOK
  <2> QED BY <1>1, <1>2, <2>1 DEF OwnerOK, Late
<1>4. OwnerInv' /\ TableTypes' /\ Owned(p)'
  BY <1>1, <1>2, <1>3 DEF OwnerInv, TableTypes, TablesOK, Owned
<1> QED BY <1>2, <1>4 DEF TablesOK

LEMMA SealHolds ==
  ASSUME TablesOK, NEW p \in Plan, Seal(p), UNCHANGED expired,
         \A k \in Planned(p) : Wrote(p, k)
  PROVE  TablesOK' /\ Progress /\ Beyond(p)'
<1>1. /\ SetOwner(p, "SEALED") /\ OwnerIs(p, "WRITING")
      /\ UNCHANGED <<item, cand, ptr, op, expired>> /\ "SEALED" \in OwnerState
  BY DEF Seal, MaySeal, OwnerState
<1>2. /\ Progress /\ OperationInv'
      /\ owner' \in [Generation -> Owner]
      /\ owner'[PlanGen[p]] = [state |-> "SEALED", plan |-> p]
      /\ \A g \in Generation \ {PlanGen[p]} : OwnerOK(g)'
  BY <1>1, OwnerMoves
<1>3. OwnerOK(PlanGen[p])'
  <2>1. \A k \in Key : item'[PlanGen[p]][k] # Absent =>
          item'[PlanGen[p]][k] = PlanRows[p][k]
    BY <1>1, PlanTypes DEF TablesOK, OwnerInv, OwnerOK, OwnerIs
  <2>2. \A k \in Planned(p) : Wrote(p, k)'
    BY <1>2, WrotePersists, PlanTypes
  <2> QED BY <1>2, <2>1, <2>2 DEF OwnerOK, Late, Planned, Wrote, Owned, Kept, Deleted
<1>4. OwnerInv' /\ TableTypes' /\ Beyond(p)'
  BY <1>1, <1>2, <1>3 DEF OwnerInv, TableTypes, TablesOK, Beyond, Owned, Late
<1> QED BY <1>2, <1>4 DEF TablesOK

LEMMA ValidationHolds ==
  ASSUME TablesOK, NEW p \in Plan, PutCandidateValidation(p), UNCHANGED expired,
         \A k \in Planned(p) : Read(p, k)
  PROVE  TablesOK' /\ Progress /\ OwnerIs(p, "VALIDATED")'
<1>1. /\ SetOwner(p, "VALIDATED") /\ OwnerIs(p, "SEALED")
      /\ cand' = [cand EXCEPT ![PlanFs[p]][PlanGen[p]] = p]
      /\ UNCHANGED <<item, ptr, op, expired>> /\ "VALIDATED" \in OwnerState
  BY DEF PutCandidateValidation, MayValidate, OwnerState
<1>2. /\ Progress /\ OperationInv'
      /\ owner' \in [Generation -> Owner]
      /\ owner'[PlanGen[p]] = [state |-> "VALIDATED", plan |-> p]
      /\ \A g \in Generation \ {PlanGen[p]} : OwnerOK(g)'
  BY <1>1, OwnerMoves
<1>3. OwnerOK(PlanGen[p])'
  <2>1. \A k \in Key : item'[PlanGen[p]][k] # Absent =>
          item'[PlanGen[p]][k] = PlanRows[p][k]
    BY <1>1, PlanTypes DEF TablesOK, OwnerInv, OwnerOK, OwnerIs
  <2>2. \A k \in Planned(p) : Read(p, k)' /\ Wrote(p, k)'
    BY <1>2, ReadPersists, WrotePersists, ReadWasWritten, PlanTypes
  <2>3. (\A k \in Planned(owner[PlanGen[p]].plan) : Wrote(owner[PlanGen[p]].plan, k))'
    BY <1>2, <2>2 DEF Planned, Wrote, Owned, Kept, Deleted
  <2>4. (\A k \in Planned(owner[PlanGen[p]].plan) : Read(owner[PlanGen[p]].plan, k))'
    BY <1>2, <2>2 DEF Planned, Read, Beyond, Owned, Kept, Deleted
  <2> QED BY <1>2, <2>1, <2>3, <2>4 DEF OwnerOK
<1>4. cand' \in [FeatureSet -> [Generation -> Plan \union {NoPlan}]]
  BY <1>1, PlanTypes DEF TablesOK, TableTypes
<1>5. OwnerInv' /\ TableTypes' /\ OwnerIs(p, "VALIDATED")'
  BY <1>1, <1>2, <1>3, <1>4 DEF OwnerInv, TableTypes, TablesOK, OwnerIs
<1> QED BY <1>2, <1>5 DEF TablesOK

(* No item of another plan is ever there to be replaced.                   *)
LEMMA PutHolds ==
  ASSUME TablesOK, NEW p \in Plan, NEW k \in Key, PutRecord(p, k), UNCHANGED expired
  PROVE  TablesOK' /\ Progress /\ Wrote(p, k)'
<1> DEFINE g == PlanGen[p]
<1>1. /\ g \in Generation /\ OwnerIs(p, "WRITING")
      /\ item' = [item EXCEPT ![g][k] = PlanRows[p][k]]
      /\ UNCHANGED <<owner, cand, ptr, op, expired>>
      /\ PlanRows[p][k] \in Content \union {Absent}
  BY PlanTypes DEF PutRecord, MayPut
<1>2. /\ item \in [Generation -> [Key -> Content \union {Absent}]]
      /\ owner \in [Generation -> Owner]
  BY DEF TablesOK, TableTypes
<1>3. /\ item' \in [Generation -> [Key -> Content \union {Absent}]]
      /\ item'[g][k] = PlanRows[p][k]
      /\ \A h \in Generation, l \in Key :
           ~(h = g /\ l = k) => item'[h][l] = item[h][l]
  BY <1>1, <1>2
<1>4. Progress
  BY <1>1, <1>3 DEF Progress, Advances, OwnerIs
<1>5. \A h \in Generation \ {g} : OwnerOK(h)'
  BY <1>1, <1>3, <1>4, OwnerKept
<1>6. OwnerOK(g)'
  <2>1. \A l \in Key : item'[g][l] # Absent => item'[g][l] = PlanRows[p][l]
    BY <1>1, <1>3 DEF TablesOK, OwnerInv, OwnerOK, OwnerIs
  <2> QED BY <1>1, <2>1 DEF OwnerOK, OwnerIs, Late
<1>7. OwnerInv' /\ TableTypes'
  BY <1>1, <1>3, <1>5, <1>6 DEF OwnerInv, TableTypes, TablesOK
<1>8. Wrote(p, k)'
  BY <1>1, <1>3 DEF Wrote, Owned, Kept, OwnerIs
<1> QED BY <1>1, <1>4, <1>7, <1>8, OperationsKept DEF TablesOK

LEMMA ExpireHolds ==
  ASSUME TablesOK, NEW g \in Generation, NEW k \in Key, Expire(g, k)
  PROVE  TablesOK' /\ Progress
<1>1. /\ item' = [item EXCEPT ![g][k] = Absent]
      /\ expired' = expired \union {<<g, k, owner[g].state>>}
      /\ UNCHANGED <<owner, cand, ptr, op>>
  BY DEF Expire
<1>2. /\ item \in [Generation -> [Key -> Content \union {Absent}]]
      /\ owner[g].state \in OwnerState
  BY DEF TablesOK, TableTypes, Owner
<1>3. /\ item' \in [Generation -> [Key -> Content \union {Absent}]]
      /\ item'[g][k] = Absent
      /\ \A h \in Generation, l \in Key :
           ~(h = g /\ l = k) => item'[h][l] = item[h][l]
  BY <1>1, <1>2
<1>4. Progress
  BY <1>1, <1>3 DEF Progress, Advances
<1>5. OwnerInv'
  BY <1>1, <1>3, <1>4, OwnerKept DEF OwnerInv
<1>6. TableTypes'
  BY <1>1, <1>2, <1>3 DEF TablesOK, TableTypes
<1> QED BY <1>1, <1>4, <1>5, <1>6, OperationsKept DEF TablesOK

(* A move takes the next version, and the pointer from where the move      *)
(* before it left it.                                                      *)
LEMMA MoveExtendsTheChain ==
  ASSUME TablesOK, NEW p \in Plan, NEW e \in Expectation,
         ActivationTransaction(p, e)
  PROVE  /\ \A f \in FeatureSet : IsFiniteSet(Moves(f))'
         /\ OperationsAreTheChain'
<1> DEFINE f == PlanFs[p]
           v == ptr[f].version
<1>1. /\ op[p] = NoOp /\ ptr[f] = e /\ f \in FeatureSet /\ v \in Nat
      /\ op \in [Plan -> Activation \union {NoOp}]
      /\ ptr \in [FeatureSet -> [gen: GenerationOrNone, version: Nat]]
  BY PlanTypes DEF ActivationTransaction, MayActivate, TablesOK, TableTypes
<1>2. /\ op' = [op EXCEPT ![p] = [plan |-> p, expected |-> e]]
      /\ ptr' = [ptr EXCEPT ![f] = [gen |-> PlanGen[p], version |-> v + 1]]
  BY <1>1 DEF ActivationTransaction
<1>3. /\ op'[p] = [plan |-> p, expected |-> e] /\ op'[p] # NoOp
      /\ \A q \in Plan \ {p} : op'[q] = op[q]
  BY <1>1, <1>2, OperationAssumption DEF Activation
<1>4. /\ ptr'[f].version = v + 1 /\ ptr'[f].gen = PlanGen[p]
      /\ \A h \in FeatureSet \ {f} : ptr'[h] = ptr[h]
  BY <1>1, <1>2
<1>5. /\ Moves(f)' = Moves(f) \union {p} /\ p \notin Moves(f)
      /\ \A h \in FeatureSet \ {f} : Moves(h)' = Moves(h)
      /\ \A h \in FeatureSet \ {f} : p \notin Moves(h)
  BY <1>1, <1>3 DEF Moves
<1> DEFINE at(q) == op[q].expected.version + 1
           next(q) == op'[q].expected.version + 1
<1>6. \A h \in FeatureSet :
        /\ IsFiniteSet(Moves(h))
        /\ Cardinality(Moves(h)) = ptr[h].version
        /\ \A q \in Moves(h) : at(q) = ptr[h].version => ptr[h].gen = PlanGen[q]
        /\ \A q, s \in Moves(h) : at(s) = at(q) + 1 => op[s].expected.gen = PlanGen[q]
        /\ {at(q) : q \in Moves(h)} = 1..ptr[h].version
  BY DEF TablesOK, OperationInv, OperationsAreTheChain
<1>7. /\ \A h \in FeatureSet : \A q \in Moves(h) : next(q) = at(q) /\ op'[q].expected = op[q].expected
      /\ next(p) = v + 1 /\ op'[p].expected = ptr[f]
  <2>1. \A h \in FeatureSet : \A q \in Moves(h) : q \in Plan \ {p}
    BY <1>1 DEF Moves
  <2> QED BY <1>1, <1>3, <2>1
<1>8. \A q \in Moves(f) : at(q) \in 1..v
  BY <1>1, <1>6
<1> HIDE DEF at, next, f, v
<1>9. /\ IsFiniteSet(Moves(f))' /\ Cardinality(Moves(f))' = v + 1
  BY <1>1, <1>5, <1>6, FS_AddElement DEF v
<1>10. \A q \in Moves(f)' : next(q) = v + 1 => PlanGen[p] = PlanGen[q]
  BY <1>1, <1>5, <1>7, <1>8
<1>11. ASSUME NEW q \in Moves(f)', NEW s \in Moves(f)', next(s) = next(q) + 1
       PROVE  op'[s].expected.gen = PlanGen[q]
  <2>1. CASE q \in Moves(f) /\ s \in Moves(f)
    BY <1>1, <1>6, <1>7, <1>11, <2>1
  <2>2. CASE q \in Moves(f) /\ s = p
    <3>1. at(q) = v
      BY <1>1, <1>7, <1>8, <1>11, <2>2
    <3> QED BY <1>1, <1>6, <1>7, <2>2, <3>1 DEF v
  <2>3. CASE q = p
    <3>1. next(s) \in 1 .. v + 1
      BY <1>1, <1>5, <1>7, <1>8
    <3> QED BY <1>1, <1>7, <1>11, <2>3, <3>1
  <2> QED BY <1>5, <2>1, <2>2, <2>3
<1>12. {next(q) : q \in Moves(f)'} = 1..(v + 1)
  <2>1. {next(q) : q \in Moves(f)'} = {at(q) : q \in Moves(f)} \union {v + 1}
    BY <1>1, <1>5, <1>7
  <2> QED BY <1>1, <1>6, <2>1 DEF v
<1>13. ASSUME NEW h \in FeatureSet
       PROVE  /\ IsFiniteSet(Moves(h))'
              /\ Cardinality(Moves(h))' = ptr'[h].version
              /\ \A q \in Moves(h)' : next(q) = ptr'[h].version => ptr'[h].gen = PlanGen[q]
              /\ \A q, s \in Moves(h)' :
                   next(s) = next(q) + 1 => op'[s].expected.gen = PlanGen[q]
              /\ {next(q) : q \in Moves(h)'} = 1..ptr'[h].version
  <2>1. CASE h = f
    BY <1>4, <1>9, <1>10, <1>11, <1>12, <2>1
  <2>2. CASE h # f
    <3>1. Moves(h)' = Moves(h) /\ ptr'[h] = ptr[h]
      BY <1>4, <1>5, <2>2
    <3>2. \A q \in Moves(h) : next(q) = at(q) /\ op'[q].expected = op[q].expected
      BY <1>7
    <3>3. {next(q) : q \in Moves(h)} = {at(q) : q \in Moves(h)}
      BY <3>2
    <3> QED BY <1>6, <3>1, <3>2, <3>3
  <2> QED BY <2>1, <2>2
<1>14. \A h \in FeatureSet : IsFiniteSet(Moves(h))'
  BY <1>13
<1>15. OperationsAreTheChain'
  <2> SUFFICES ASSUME NEW h \in FeatureSet
      PROVE LET now == [q \in Moves(h) |-> op[q].expected.version + 1]'
            IN /\ Cardinality(Moves(h))' = ptr'[h].version
               /\ \A q \in Moves(h)' : now[q] = ptr'[h].version => ptr'[h].gen = PlanGen[q]
               /\ \A q, s \in Moves(h)' :
                    now[s] = now[q] + 1 => op'[s].expected.gen = PlanGen[q]
               /\ {now[q] : q \in Moves(h)'} = 1..ptr'[h].version
    BY DEF OperationsAreTheChain
  <2> DEFINE now == [q \in Moves(h)' |-> op'[q].expected.version + 1]
  <2>1. \A q \in Moves(h)' : now[q] = next(q)
    BY DEF next
  <2>2. {now[q] : q \in Moves(h)'} = {next(q) : q \in Moves(h)'}
    BY <2>1
  <2>3. now = [q \in Moves(h) |-> op[q].expected.version + 1]'
    OBVIOUS
  <2> HIDE DEF now
  <2>4. /\ Cardinality(Moves(h))' = ptr'[h].version
        /\ \A q \in Moves(h)' : now[q] = ptr'[h].version => ptr'[h].gen = PlanGen[q]
        /\ \A q, s \in Moves(h)' :
             now[s] = now[q] + 1 => op'[s].expected.gen = PlanGen[q]
        /\ {now[q] : q \in Moves(h)'} = 1..ptr'[h].version
    BY <1>13, <2>1, <2>2
  <2> QED BY <2>3, <2>4
<1> QED BY <1>14, <1>15

LEMMA ActivationHolds ==
  ASSUME TablesOK, NEW p \in Plan, NEW e \in Expectation,
         ActivationTransaction(p, e), UNCHANGED expired
  PROVE  /\ TablesOK' /\ Progress
         /\ op'[p] = [plan |-> p, expected |-> e]
<1>1. /\ UNCHANGED <<owner, item, cand>> /\ op[p] = NoOp
      /\ OwnerIs(p, "VALIDATED") /\ ptr[PlanFs[p]] = e
      /\ op' = [op EXCEPT ![p] = [plan |-> p, expected |-> e]]
      /\ ptr' = [ptr EXCEPT ![PlanFs[p]] = [gen |-> PlanGen[p], version |-> e.version + 1]]
  BY DEF ActivationTransaction, MayActivate
<1>2. TableTypes /\ OwnerInv /\ OperationInv
  BY DEF TablesOK
<1>3. e.version \in Nat
  BY <1>1, <1>2, PlanTypes DEF TableTypes
<1>4. [plan |-> p, expected |-> e] \in Activation
  BY DEF Activation
<1>5. op'[p] = [plan |-> p, expected |-> e] /\ \A q \in Plan \ {p} : op'[q] = op[q]
  BY <1>1, <1>2 DEF TableTypes
<1>6. TableTypes'
  BY <1>1, <1>2, <1>3, <1>4, PlanTypes DEF TableTypes, GenerationOrNone
<1>7. Progress
  BY <1>1, <1>5 DEF Progress, Advances
<1>8. OwnerInv'
  BY <1>1, <1>7, OwnerKept DEF OwnerInv
<1>9. \A q \in Plan : op'[q] # NoOp =>
        op'[q].plan = q /\ OwnerIs(q, "VALIDATED")' /\ op'[q].expected.version \in Nat
  <2> SUFFICES ASSUME NEW q \in Plan, op'[q] # NoOp
               PROVE  /\ op'[q].plan = q /\ OwnerIs(q, "VALIDATED")'
                      /\ op'[q].expected.version \in Nat
    OBVIOUS
  <2>1. CASE q = p
    BY <1>1, <1>3, <1>5, <2>1 DEF OwnerIs
  <2>2. CASE q # p
    BY <1>1, <1>2, <1>5, <2>2 DEF OperationInv, OwnerIs
  <2> QED BY <2>1, <2>2
<1>10. \A f \in FeatureSet : ptr'[f].version = 0 => ptr'[f].gen = NoGeneration
  <2> SUFFICES ASSUME NEW f \in FeatureSet, ptr'[f].version = 0
               PROVE  ptr'[f].gen = NoGeneration
    OBVIOUS
  <2>1. CASE f = PlanFs[p]
    BY <1>1, <1>2, <1>3, <2>1 DEF TableTypes
  <2>2. CASE f # PlanFs[p]
    BY <1>1, <1>2, <2>2 DEF TableTypes, OperationInv
  <2> QED BY <2>1, <2>2
<1>11. OperationInv'
  BY <1>9, <1>10, MoveExtendsTheChain DEF OperationInv
<1> QED BY <1>5, <1>6, <1>7, <1>8, <1>11 DEF TablesOK

(* What a success tells its worker, whether the request was performed now  *)
(* or is remembered.                                                       *)
Learned(r) ==
  /\ r.kind = "claim" => Owned(r.plan)
  /\ r.kind = "write" => Wrote(r.plan, r.key)
  /\ r.kind = "seal" => Beyond(r.plan)
  /\ r.kind = "validate" => OwnerIs(r.plan, "VALIDATED")
  /\ r.kind = "activate" => op[r.plan] = [plan |-> r.plan, expected |-> r.expected]

LEMMA CommitHolds ==
  ASSUME TablesOK, NEW r \in Request, RequestOK(r), Commit(r), UNCHANGED expired
  PROVE  TablesOK' /\ Progress /\ Learned(r)'
<1>1. /\ r.plan \in Plan
      /\ r.kind = "write" => r.key \in Key
      /\ r.kind = "activate" => r.expected \in Expectation
  BY DEF Request
<1>2. CASE r.kind = "claim" /\ Claim(r.plan)
  BY <1>1, <1>2, ClaimHolds DEF Learned, Owned
<1>3. CASE r.kind = "write" /\ PutRecord(r.plan, r.key)
  BY <1>1, <1>3, PutHolds DEF Learned, Wrote, Owned, Kept, Deleted
<1>4. CASE r.kind = "seal" /\ Seal(r.plan)
  <2>1. \A k \in Planned(r.plan) : Wrote(r.plan, k)
    BY <1>4 DEF RequestOK
  <2> QED BY <1>1, <1>4, <2>1, SealHolds DEF Learned, Beyond, Owned
<1>5. CASE r.kind = "validate" /\ PutCandidateValidation(r.plan)
  <2>1. \A k \in Planned(r.plan) : Read(r.plan, k)
    BY <1>5 DEF RequestOK
  <2> QED BY <1>1, <1>5, <2>1, ValidationHolds DEF Learned, OwnerIs
<1>6. CASE r.kind = "activate" /\ ActivationTransaction(r.plan, r.expected)
  BY <1>1, <1>6, ActivationHolds DEF Learned
<1> QED BY <1>2, <1>3, <1>4, <1>5, <1>6 DEF Commit

LEMMA RememberedIsTrue ==
  ASSUME NEW r \in Request, Remembered(r)
  PROVE  Learned(r)
BY DEF Request, Remembered, Learned, Wrote, Owned, Kept

LEMMA StillProgress ==
  ASSUME TablesOK, UNCHANGED <<tables, expired>>
  PROVE  TablesOK' /\ Progress
<1> USE DEF tables
<1>1. Progress
  BY DEF Progress, Advances
<1>2. OwnerInv' /\ TableTypes' /\ OperationInv'
  BY <1>1, OwnerKept, OperationsKept DEF TablesOK, TableTypes, OwnerInv
<1> QED BY <1>1, <1>2 DEF TablesOK

----------------------------------------------------------------------------
(* A fact about the invocation that a worker has become.                   *)
LEMMA SameInvocation ==
  ASSUME NEW w \in Worker, NEW r, worker'[w] = r, InvocationOK(r)'
  PROVE  InvocationOK(worker[w])'
BY DEF InvocationOK, Wrote, Read, Beyond, Owned, Kept, Deleted, OwnerIs, Planned

(* The invariant after a step: the tables go forward, and what moved or    *)
(* was sent is accounted for.                                              *)
LEMMA StepHolds ==
  ASSUME IInv, TablesOK', Progress,
         worker' \in [Worker -> Invocation],
         \A x \in Worker : worker'[x] = worker[x] \/ InvocationOK(worker[x])',
         network' \subseteq Request,
         \A r \in network' : r \in network \/ RequestOK(r)',
         lost' \in 0..MaxFaults, IsFiniteSet(expired')
  PROVE  IInv'
<1>1. TypeOK'
  BY DEF TypeOK, TablesOK, TableTypes
<1>2. WorkerInv'
  <2> SUFFICES ASSUME NEW x \in Worker, worker'[x] = worker[x]
               PROVE  InvocationOK(worker[x])'
    BY DEF WorkerInv
  <2>1. PICK r \in Invocation : r = worker[x]
    BY DEF IInv, TypeOK
  <2>2. InvocationOK(r)'
    BY <2>1, InvocationPersists DEF IInv, WorkerInv
  <2>3. worker'[x] = r
    BY <2>1
  <2> QED BY <2>2, <2>3, SameInvocation
<1>3. NetworkInv'
  <2> SUFFICES ASSUME NEW r \in network' PROVE RequestOK(r)'
    BY DEF NetworkInv
  <2>1. r \in network => RequestOK(r)
    BY DEF IInv, NetworkInv
  <2> QED BY <2>1, RequestPersists DEF IInv
<1> QED BY <1>1, <1>2, <1>3 DEF IInv

(* One worker moves, and the tables are only read.                         *)
LEMMA LookHolds ==
  ASSUME IInv, NEW w \in Worker, NEW r \in Invocation, InvocationOK(r),
         Move(w, r), ReadOnly
  PROVE  IInv'
<1>1. TablesOK' /\ Progress
  BY StillProgress DEF IInv, ReadOnly
<1>2. /\ worker' \in [Worker -> Invocation]
      /\ \A x \in Worker : worker'[x] = worker[x] \/ x = w
      /\ worker'[w] = r
  BY DEF Move, IInv, TypeOK
<1>3. InvocationOK(r)'
  BY <1>1, InvocationPersists DEF IInv
<1>4. InvocationOK(worker[w])'
  BY <1>2, <1>3, SameInvocation
<1>5. /\ network' \subseteq Request /\ lost' \in 0..MaxFaults /\ IsFiniteSet(expired')
      /\ \A s \in network' : s \in network
  BY DEF ReadOnly, IInv, TypeOK
<1> QED BY <1>1, <1>2, <1>4, <1>5, StepHolds

(* A worker sends a request it may send; a success tells it what it needs. *)
LEMMA SendHolds ==
  ASSUME IInv, NEW w \in Worker, NEW r \in Request, RequestOK(r),
         NEW good \in Invocation, NEW bad \in Invocation,
         Progress /\ Learned(r)' => InvocationOK(good)',
         InvocationOK(bad),
         Send(w, r, Move(w, good), Move(w, bad))
  PROVE  IInv'
<1> DEFINE Moved(s) == worker' = [worker EXCEPT ![w] = s]
<1>1. /\ TablesOK /\ worker \in [Worker -> Invocation]
      /\ network \subseteq Request /\ lost \in 0..MaxFaults /\ IsFiniteSet(expired)
  BY DEF IInv, TypeOK
<1>2. ASSUME NEW s \in Invocation, InvocationOK(s)', Moved(s)
      PROVE  /\ worker' \in [Worker -> Invocation]
             /\ \A x \in Worker : worker'[x] = worker[x] \/ InvocationOK(worker[x])'
  <2>1. /\ worker' \in [Worker -> Invocation]
        /\ \A x \in Worker : worker'[x] = worker[x] \/ x = w
        /\ worker'[w] = s
    BY <1>1, <1>2
  <2>2. InvocationOK(worker[w])'
    BY <1>2, <2>1, SameInvocation
  <2> QED BY <2>1, <2>2
<1>3. ASSUME Answered(w, r, Moved(good), Moved(bad))
      PROVE  IInv'
  <2>1. UNCHANGED <<network, lost, expired>>
    BY <1>3 DEF Answered
  <2>2. CASE Commit(r) /\ Moved(good)
    <3>1. TablesOK' /\ Progress /\ InvocationOK(good)'
      BY <1>1, <2>1, <2>2, CommitHolds
    <3> QED BY <1>1, <1>2, <2>1, <2>2, <3>1, StepHolds
  <2>3. CASE Remembered(r) /\ Moved(good) /\ UNCHANGED tables
    <3>1. Learned(r)'
      BY <2>1, <2>3, RememberedIsTrue
      DEF tables, Learned, Wrote, Owned, Kept, Deleted, Beyond, OwnerIs
    <3>2. TablesOK' /\ Progress /\ InvocationOK(good)'
      BY <1>1, <2>1, <2>3, <3>1, StillProgress
    <3> QED BY <1>1, <1>2, <2>1, <2>3, <3>2, StepHolds
  <2>4. CASE Moved(bad) /\ UNCHANGED tables
    <3>1. TablesOK' /\ Progress
      BY <1>1, <2>1, <2>4, StillProgress
    <3>2. InvocationOK(bad)'
      BY <1>1, <3>1, InvocationPersists
    <3> QED BY <1>1, <1>2, <2>1, <2>4, <3>1, <3>2, StepHolds
  <2> QED BY <1>3, <2>2, <2>3, <2>4 DEF Answered
<1>4. ASSUME Unanswered(w, r, Moved(bad))
      PROVE  IInv'
  <2>1. /\ lost + Cardinality(expired) < MaxFaults /\ lost' = lost + 1
        /\ network' = network \union {r} /\ UNCHANGED <<tables, expired>>
        /\ Moved(bad) \/ UNCHANGED worker
    BY <1>4 DEF Unanswered
  <2>2. Cardinality(expired) \in Nat
    BY <1>1, FS_CardinalityType
  <2>3. lost' \in 0..MaxFaults
    BY <1>1, <2>1, <2>2, BoundAssumption
  <2>4. TablesOK' /\ Progress
    BY <1>1, <2>1, StillProgress
  <2>5. InvocationOK(bad)' /\ RequestOK(r)'
    BY <1>1, <2>4, InvocationPersists, RequestPersists
  <2>6. network' \subseteq Request /\ \A s \in network' : s \in network \/ RequestOK(s)'
    <3>1. \A s \in network' : s \in network \/ s = r
      BY <2>1
    <3> QED BY <1>1, <2>1, <2>5, <3>1
  <2>7. /\ worker' \in [Worker -> Invocation]
        /\ \A x \in Worker : worker'[x] = worker[x] \/ InvocationOK(worker[x])'
    BY <1>1, <1>2, <2>1, <2>5
  <2> QED BY <1>1, <2>1, <2>3, <2>4, <2>6, <2>7, StepHolds
<1>5. Answered(w, r, Moved(good), Moved(bad)) \/ Unanswered(w, r, Moved(bad))
  BY DEF Send, Answered, Unanswered, Move
<1> QED BY <1>3, <1>4, <1>5

LEMMA ArriveStep ==
  ASSUME IInv, NEW r \in network, Arrive(r)
  PROVE  IInv'
<1>1. /\ r \in Request /\ RequestOK(r) /\ TablesOK
      /\ worker \in [Worker -> Invocation] /\ network \subseteq Request
      /\ lost \in 0..MaxFaults /\ IsFiniteSet(expired)
  BY DEF IInv, TypeOK, NetworkInv
<1>2. /\ Commit(r) \/ UNCHANGED tables
      /\ network' = network \ {r} /\ UNCHANGED <<worker, lost, expired>>
  BY DEF Arrive
<1>3. TablesOK' /\ Progress
  BY <1>1, <1>2, CommitHolds, StillProgress
<1> QED BY <1>1, <1>2, <1>3, StepHolds

LEMMA ExpireStep ==
  ASSUME IInv, NEW g \in Generation, NEW k \in Key, Expire(g, k)
  PROVE  IInv'
<1>1. /\ worker \in [Worker -> Invocation] /\ network \subseteq Request
      /\ lost \in 0..MaxFaults /\ TablesOK /\ IsFiniteSet(expired)
  BY DEF IInv, TypeOK
<1>2. TablesOK' /\ Progress
  BY <1>1, ExpireHolds
<1>3. UNCHANGED <<worker, network, lost>> /\ IsFiniteSet(expired')
  BY <1>1, FS_AddElement DEF Expire
<1> QED BY <1>1, <1>2, <1>3, StepHolds

----------------------------------------------------------------------------
(* The records an invocation becomes.                                      *)
LEMMA IdleHolds ==
  /\ Idle \in Invocation /\ InvocationOK(Idle)
  /\ [Idle EXCEPT !.pc = "failed"] \in Invocation
  /\ InvocationOK([Idle EXCEPT !.pc = "failed"])
<1>1. /\ Idle \in Invocation /\ Idle.pc = "idle" /\ Idle.seen = {}
  BY DEF Idle, Invocation, Phase
<1>2. [Idle EXCEPT !.pc = "failed"] \in Invocation
  BY DEF Idle, Invocation, Phase
<1>3. /\ [Idle EXCEPT !.pc = "failed"].pc = "failed"
      /\ [Idle EXCEPT !.pc = "failed"].seen = {}
  BY DEF Idle
<1> QED BY <1>1, <1>2, <1>3 DEF InvocationOK, Materializing, Activating

(* What Goto, Skip and Return make of an invocation.                       *)
LEMMA GotoFields ==
  ASSUME NEW r \in Invocation, NEW pc \in Phase
  PROVE  LET n == [r EXCEPT !.pc = pc]
         IN  /\ n \in Invocation /\ n.pc = pc /\ n.call = r.call /\ n.plan = r.plan
             /\ n.expected = r.expected /\ n.todo = r.todo /\ n.seen = r.seen
BY DEF Invocation

LEMMA SkipFields ==
  ASSUME NEW r \in Invocation, NEW pc \in Phase
  PROVE  LET n == [r EXCEPT !.pc = pc, !.todo = {}]
         IN  /\ n \in Invocation /\ n.pc = pc /\ n.call = r.call /\ n.plan = r.plan
             /\ n.expected = r.expected /\ n.todo = {} /\ n.seen = r.seen
BY DEF Invocation

LEMMA ReturnFields ==
  ASSUME NEW r \in Invocation
  PROVE  LET done == [Idle EXCEPT !.pc = "done", !.call = r.call, !.plan = r.plan,
                                  !.expected = r.expected]
         IN  /\ done \in Invocation /\ done.pc = "done" /\ done.call = r.call
             /\ done.plan = r.plan /\ done.expected = r.expected /\ done.seen = {}
BY DEF Invocation, Idle, Phase

LEMMA ReturnIsTrue ==
  ASSUME NEW r \in Invocation,
         r.plan \in Plan, r.call # "none",
         r.call = "materialize" => OwnerIs(r.plan, "VALIDATED"),
         r.call = "records" => Beyond(r.plan),
         r.call = "activate" => /\ r.expected \in Expectation
                                /\ op[r.plan] = [plan |-> r.plan, expected |-> r.expected]
  PROVE  InvocationOK([Idle EXCEPT !.pc = "done", !.call = r.call, !.plan = r.plan,
                                   !.expected = r.expected])
<1> DEFINE done == [Idle EXCEPT !.pc = "done", !.call = r.call, !.plan = r.plan,
                                !.expected = r.expected]
<1>1. /\ done.pc = "done" /\ done.call = r.call
      /\ done.plan = r.plan /\ done.expected = r.expected /\ done.seen = {}
  BY ReturnFields
<1> HIDE DEF done
<1>2. InvocationOK(done)
  BY <1>1 DEF InvocationOK, Materializing, Activating
<1> QED BY <1>2 DEF done

(* What an invocation keeps when its step and its list change.             *)
LEMMA BecomesHolds ==
  ASSUME NEW r \in Invocation, InvocationOK(r), NEW n \in Invocation, r.plan \in Plan,
         n.call = r.call, n.plan = r.plan, n.expected = r.expected, n.seen = r.seen,
         n.pc \notin {"idle", "done", "failed"},
         n.pc \in Materializing => r.call = "materialize",
         n.pc = "page" => r.call \in {"materialize", "records"},
         n.pc \in Activating => r.call = "activate" /\ r.expected \in Expectation,
         n.pc \in {"own", "claim", "reclaim"} => Planned(r.plan) \subseteq n.todo,
         n.pc \in {"write", "rewrite"} =>
           Owned(r.plan) /\ \A k \in Planned(r.plan) \ n.todo : Wrote(r.plan, k),
         n.pc = "seal" => Beyond(r.plan),
         n.pc \in {"validate", "revalidate", "confirm"} =>
           \A k \in Planned(r.plan) : Read(r.plan, k),
         n.pc = "confirm" => OwnerIs(r.plan, "VALIDATED")
  PROVE  InvocationOK(n)
<1>1. \A k \in r.seen : Read(r.plan, k)
  BY DEF InvocationOK
<1> QED BY <1>1 DEF InvocationOK

LEMMA GotoHolds ==
  ASSUME NEW r \in Invocation, InvocationOK(r), NEW pc \in Phase, r.plan \in Plan,
         pc \notin {"idle", "done", "failed"},
         pc \in Materializing => r.call = "materialize",
         pc = "page" => r.call \in {"materialize", "records"},
         pc \in Activating => r.call = "activate" /\ r.expected \in Expectation,
         pc \in {"own", "claim", "reclaim"} => Planned(r.plan) \subseteq r.todo,
         pc \in {"write", "rewrite"} =>
           Owned(r.plan) /\ \A k \in Planned(r.plan) \ r.todo : Wrote(r.plan, k),
         pc = "seal" => Beyond(r.plan),
         pc \in {"validate", "revalidate", "confirm"} =>
           \A k \in Planned(r.plan) : Read(r.plan, k),
         pc = "confirm" => OwnerIs(r.plan, "VALIDATED")
  PROVE  [r EXCEPT !.pc = pc] \in Invocation /\ InvocationOK([r EXCEPT !.pc = pc])
<1> DEFINE n == [r EXCEPT !.pc = pc]
<1>1. /\ n \in Invocation /\ n.pc = pc /\ n.call = r.call /\ n.plan = r.plan
      /\ n.expected = r.expected /\ n.todo = r.todo /\ n.seen = r.seen
  BY GotoFields
<1> HIDE DEF n
<1>2. InvocationOK(n)
  BY <1>1, BecomesHolds
<1> QED BY <1>1, <1>2 DEF n

(* Nothing is left to write: on to the seal or to the scan.                *)
LEMMA SkipHolds ==
  ASSUME NEW r \in Invocation, InvocationOK(r), NEW pc \in {"page", "seal"},
         r.plan \in Plan, r.call = "materialize", Beyond(r.plan)
  PROVE  /\ [r EXCEPT !.pc = pc, !.todo = {}] \in Invocation
         /\ InvocationOK([r EXCEPT !.pc = pc, !.todo = {}])
<1> DEFINE n == [r EXCEPT !.pc = pc, !.todo = {}]
<1>1. pc \in Phase
  BY DEF Phase
<1>2. /\ n \in Invocation /\ n.pc = pc /\ n.call = r.call /\ n.plan = r.plan
      /\ n.expected = r.expected /\ n.seen = r.seen
  BY <1>1, SkipFields
<1> HIDE DEF n
<1>3. InvocationOK(n)
  BY <1>2, BecomesHolds DEF Materializing, Activating
<1> QED BY <1>2, <1>3 DEF n

LEMMA AtWork ==
  ASSUME IInv, NEW w \in Worker
  PROVE  \E r \in Invocation : r = worker[w] /\ InvocationOK(r)
BY DEF IInv, TypeOK, WorkerInv

----------------------------------------------------------------------------
(* Each step of a worker.                                                  *)
LEMMA StartStep ==
  ASSUME IInv, NEW w \in Worker, NEW call \in {"materialize", "records", "activate"},
         NEW p \in Plan, NEW e \in Expectation \union {NoOp},
         call = "activate" => e \in Expectation,
         Start(w, call, p, e)
  PROVE  IInv'
<1> DEFINE todo == IF call = "materialize" THEN Planned(p) ELSE {}
           r == [Idle EXCEPT !.pc = Entry[call], !.call = call, !.plan = p,
                             !.expected = e, !.todo = todo]
<1>1. todo \in SUBSET Key
  BY PlanTypes
<1>2. Entry[call] \in Phase
  BY DEF Entry, Phase
<1>3. /\ r \in Invocation
      /\ r.pc = Entry[call] /\ r.call = call /\ r.plan = p /\ r.expected = e
      /\ r.todo = todo /\ r.seen = {}
  BY <1>1, <1>2 DEF Idle, Invocation
<1>4. /\ r.pc \in {"own", "page", "replay"}
      /\ r.pc = "own" <=> call = "materialize"
      /\ r.pc = "page" <=> call = "records"
      /\ r.pc = "replay" <=> call = "activate"
  BY <1>3 DEF Entry
<1>5. Move(w, r) /\ ReadOnly
  BY DEF Start
<1> HIDE DEF r
<1>6. InvocationOK(r)
  BY <1>3, <1>4 DEF InvocationOK, Materializing, Activating
<1> QED BY <1>3, <1>5, <1>6, LookHolds

LEMMA CallStep ==
  ASSUME IInv, NEW w \in Worker, Call(w)
  PROVE  IInv'
<1>1. \A p \in Plan : Expects[p] \subseteq Expectation
  BY DEF Expectation
<1>2. CASE CallMaterialize(w)
  BY <1>2, StartStep DEF CallMaterialize
<1>3. CASE CallRecords(w)
  BY <1>3, StartStep DEF CallRecords
<1>4. CASE CallActivate(w)
  BY <1>1, <1>4, StartStep DEF CallActivate
<1> QED BY <1>2, <1>3, <1>4 DEF Call

LEMMA RaiseStep ==
  ASSUME IInv, NEW w \in Worker, Raise(w), ReadOnly
  PROVE  IInv'
BY IdleHolds, LookHolds DEF Raise

LEMMA DieStep ==
  ASSUME IInv, NEW w \in Worker, Die(w)
  PROVE  IInv'
BY IdleHolds, LookHolds DEF Die

(* An owner that is read as this plan's and written or sealed.             *)
LEMMA MineIs ==
  ASSUME IInv, NEW w \in Worker, worker[w].plan \in Plan, Mine(w)
  PROVE  /\ Owned(worker[w].plan)
         /\ StateOf(w) # "ABSENT"
         /\ StateOf(w) \in Late => Beyond(worker[w].plan)
         /\ StateOf(w) # "WRITING" => Beyond(worker[w].plan)
         /\ StateOf(w) = "VALIDATED" => OwnerIs(worker[w].plan, "VALIDATED")
<1>1. PICK p \in Plan : p = worker[w].plan
  OBVIOUS
<1>2. Owned(p)
  BY <1>1 DEF Mine, Owned
<1>3. owner[PlanGen[p]] \in Owner /\ owner[PlanGen[p]].state # "ABSENT"
  BY <1>2, PlanTypes, OwnedIsClaimed DEF IInv, TablesOK, TableTypes
<1>4. StateOf(w) = owner[PlanGen[p]].state
  BY <1>1 DEF StateOf
<1> QED BY <1>1, <1>2, <1>3, <1>4 DEF Owner, OwnerState, Beyond, Owned, OwnerIs, Late

LEMMA ReadOwnerStep ==
  ASSUME IInv, NEW w \in Worker, ReadOwner(w)
  PROVE  IInv'
<1>1. PICK r \in Invocation : r = worker[w] /\ InvocationOK(r)
  BY AtWork
<1>2. /\ ReadOnly /\ r.pc \in {"own", "reclaim"}
      /\ r.plan \in Plan /\ r.call = "materialize"
      /\ Planned(r.plan) \subseteq r.todo
      /\ \A k \in r.seen : Read(r.plan, k)
  BY <1>1 DEF ReadOwner, InvocationOK, Materializing
<1>3. CASE Raise(w)
  BY <1>2, <1>3, RaiseStep
<1>4. CASE Goto(w, "claim")
  <2>1. "claim" \in Phase
    BY DEF Phase
  <2>2. /\ [r EXCEPT !.pc = "claim"] \in Invocation
        /\ InvocationOK([r EXCEPT !.pc = "claim"])
    BY <1>1, <1>2, <2>1, GotoHolds DEF Materializing, Activating
  <2> QED BY <1>1, <1>2, <1>4, <2>2, LookHolds DEF Goto
<1>5. CASE Mine(w) /\ Proceed(w)
  <2>1. /\ Owned(r.plan)
        /\ StateOf(w) # "WRITING" => Beyond(r.plan)
    BY <1>1, <1>2, <1>5, MineIs
  <2>2. CASE StateOf(w) = "WRITING"
    <3>1. "write" \in Phase /\ \A k \in Planned(r.plan) \ r.todo : Wrote(r.plan, k)
      BY <1>2 DEF Phase
    <3>2. /\ [r EXCEPT !.pc = "write"] \in Invocation
          /\ InvocationOK([r EXCEPT !.pc = "write"])
      BY <1>1, <1>2, <2>1, <3>1, GotoHolds DEF Materializing, Activating
    <3>3. Move(w, [r EXCEPT !.pc = "write"])
      BY <1>1, <1>5, <2>2 DEF Proceed, Goto
    <3> QED BY <1>2, <3>2, <3>3, LookHolds
  <2>3. CASE StateOf(w) # "WRITING"
    <3>1. /\ [r EXCEPT !.pc = "page", !.todo = {}] \in Invocation
          /\ InvocationOK([r EXCEPT !.pc = "page", !.todo = {}])
      BY <1>1, <1>2, <2>1, <2>3, SkipHolds
    <3> QED BY <1>1, <1>2, <1>5, <2>3, <3>1, LookHolds DEF Proceed, Skip
  <2> QED BY <2>2, <2>3
<1> QED BY <1>3, <1>4, <1>5 DEF ReadOwner

LEMMA SendClaimStep ==
  ASSUME IInv, NEW w \in Worker, SendClaim(w)
  PROVE  IInv'
<1>1. PICK r \in Invocation : r = worker[w] /\ InvocationOK(r)
  BY AtWork
<1> DEFINE q == [kind |-> "claim", plan |-> r.plan]
           good == [r EXCEPT !.pc = "write"]
           bad == [r EXCEPT !.pc = "reclaim"]
<1>2. /\ r.pc = "claim" /\ r.plan \in Plan /\ r.call = "materialize"
      /\ Planned(r.plan) \subseteq r.todo
      /\ Send(w, q, Move(w, good), Move(w, bad))
  BY <1>1 DEF SendClaim, InvocationOK, Materializing, Send, Answered, Unanswered, Goto
<1>3. q \in Request /\ RequestOK(q) /\ (Learned(q)' => Owned(r.plan)')
  BY <1>2 DEF Request, RequestOK, Learned, Owned
<1>4. "write" \in Phase /\ "reclaim" \in Phase
  BY DEF Phase
<1>5. bad \in Invocation /\ InvocationOK(bad)
  BY <1>1, <1>2, <1>4, GotoHolds DEF Materializing, Activating
<1>6. /\ good \in Invocation /\ good.pc = "write" /\ good.call = r.call
      /\ good.plan = r.plan /\ good.todo = r.todo /\ good.seen = r.seen
  BY <1>4, GotoFields
<1> HIDE DEF good, bad, q
<1>7. ASSUME Progress, Learned(q)'
      PROVE  InvocationOK(good)'
  <2>1. InvocationOK(r)' /\ Owned(r.plan)'
    BY <1>1, <1>3, <1>7, InvocationPersists DEF IInv
  <2>2. \A k \in r.seen : Read(r.plan, k)'
    BY <2>1 DEF InvocationOK
  <2> QED BY <1>2, <1>6, <2>1, <2>2 DEF InvocationOK, Materializing, Activating, Planned
<1> QED BY <1>2, <1>3, <1>5, <1>6, <1>7, SendHolds

LEMMA SendRecordStep ==
  ASSUME IInv, NEW w \in Worker, SendRecord(w)
  PROVE  IInv'
<1>1. PICK r \in Invocation : r = worker[w] /\ InvocationOK(r)
  BY AtWork
<1>2. PICK k \in r.todo :
        Send(w, [kind |-> "write", plan |-> r.plan, key |-> k],
             Move(w, [r EXCEPT !.todo = @ \ {k}]), Goto(w, "rewrite"))
  BY <1>1 DEF SendRecord, First
<1> DEFINE q == [kind |-> "write", plan |-> r.plan, key |-> k]
           good == [r EXCEPT !.todo = @ \ {k}]
           bad == [r EXCEPT !.pc = "rewrite"]
<1>3. /\ r.pc = "write" /\ r.plan \in Plan /\ r.call = "materialize" /\ k \in Key
      /\ Owned(r.plan) /\ \A l \in Planned(r.plan) \ r.todo : Wrote(r.plan, l)
  BY <1>1 DEF SendRecord, InvocationOK, Materializing, Invocation
<1>4. Send(w, q, Move(w, good), Move(w, bad))
  BY <1>1, <1>2 DEF Send, Answered, Unanswered, Goto
<1>5. q \in Request /\ RequestOK(q) /\ (Learned(q)' => Wrote(r.plan, k)')
  BY <1>3 DEF Request, RequestOK, Learned, Wrote, Owned, Kept, Deleted
<1>6. "rewrite" \in Phase
  BY DEF Phase
<1>7. bad \in Invocation /\ InvocationOK(bad)
  BY <1>1, <1>3, <1>6, GotoHolds DEF Materializing, Activating
<1>8. /\ good \in Invocation /\ good.pc = r.pc /\ good.call = r.call
      /\ good.plan = r.plan /\ good.todo = r.todo \ {k} /\ good.seen = r.seen
  BY DEF Invocation
<1> HIDE DEF good, bad, q
<1>9. ASSUME Progress, Learned(q)'
      PROVE  InvocationOK(good)'
  <2>1. InvocationOK(r)' /\ Wrote(r.plan, k)'
    BY <1>1, <1>5, <1>9, InvocationPersists DEF IInv
  <2>2. /\ \A l \in r.seen : Read(r.plan, l)'
        /\ Owned(r.plan)'
        /\ \A l \in Planned(r.plan) \ r.todo : Wrote(r.plan, l)'
    BY <1>3, <2>1 DEF InvocationOK, Planned
  <2>3. \A l \in Planned(r.plan) \ good.todo : Wrote(r.plan, l)'
    BY <1>8, <2>1, <2>2
  <2> QED BY <1>3, <1>8, <2>2, <2>3 DEF InvocationOK, Materializing, Activating, Planned
<1> QED BY <1>4, <1>5, <1>7, <1>8, <1>9, SendHolds

LEMMA ExplainWriteStep ==
  ASSUME IInv, NEW w \in Worker, ExplainWrite(w)
  PROVE  IInv'
<1>1. PICK r \in Invocation : r = worker[w] /\ InvocationOK(r)
  BY AtWork
<1>2. r.plan \in Plan /\ r.call = "materialize" /\ ReadOnly
  BY <1>1 DEF ExplainWrite, InvocationOK, Materializing
<1>3. CASE Mine(w) /\ StateOf(w) \in {"SEALED", "VALIDATED"} /\ Skip(w, "seal")
  <2>1. Beyond(r.plan)
    BY <1>1, <1>2, <1>3, MineIs DEF Late
  <2>2. /\ [r EXCEPT !.pc = "seal", !.todo = {}] \in Invocation
        /\ InvocationOK([r EXCEPT !.pc = "seal", !.todo = {}])
    BY <1>1, <1>2, <2>1, SkipHolds
  <2> QED BY <1>1, <1>2, <1>3, <2>2, LookHolds DEF Skip
<1>4. CASE Raise(w)
  BY <1>2, <1>4, RaiseStep
<1> QED BY <1>3, <1>4 DEF ExplainWrite

LEMMA SealedWasWritten ==
  ASSUME TablesOK, NEW p \in Plan, Beyond(p)
  PROVE  \A k \in Planned(p) : Wrote(p, k)
BY PlanTypes DEF TablesOK, OwnerInv, OwnerOK, Beyond, Owned

LEMMA SendSealStep ==
  ASSUME IInv, NEW w \in Worker, SendSeal(w)
  PROVE  IInv'
<1>1. PICK r \in Invocation : r = worker[w] /\ InvocationOK(r)
  BY AtWork
<1> DEFINE q == [kind |-> "seal", plan |-> r.plan]
           good == [r EXCEPT !.pc = "page"]
           bad == [r EXCEPT !.pc = "reseal"]
<1>2. /\ r.plan \in Plan /\ r.call = "materialize"
      /\ Send(w, q, Move(w, good), Move(w, bad))
  BY <1>1 DEF SendSeal, InvocationOK, Materializing, Send, Answered, Unanswered, Goto
<1>3. \A k \in Planned(r.plan) : Wrote(r.plan, k)
  <2>1. CASE r.pc = "write" /\ r.todo = {}
    BY <1>1, <2>1 DEF InvocationOK
  <2>2. CASE r.pc = "seal"
    BY <1>1, <1>2, <2>2, SealedWasWritten DEF InvocationOK, IInv
  <2> QED BY <1>1, <2>1, <2>2 DEF SendSeal
<1>4. q \in Request /\ RequestOK(q)
  BY <1>2, <1>3 DEF Request, RequestOK
<1>5. "page" \in Phase /\ "reseal" \in Phase
  BY DEF Phase
<1>6. /\ bad \in Invocation /\ InvocationOK(bad)
      /\ good \in Invocation /\ InvocationOK(good)
  BY <1>1, <1>2, <1>5, GotoHolds DEF Materializing, Activating
<1> HIDE DEF good, bad, q
<1>7. Progress => InvocationOK(good)'
  BY <1>6, InvocationPersists DEF IInv
<1> QED BY <1>2, <1>4, <1>6, <1>7, SendHolds

LEMMA ConfirmSealStep ==
  ASSUME IInv, NEW w \in Worker, ConfirmSeal(w)
  PROVE  IInv'
<1>1. PICK r \in Invocation : r = worker[w] /\ InvocationOK(r)
  BY AtWork
<1>2. r.plan \in Plan /\ r.call = "materialize" /\ ReadOnly
  BY <1>1 DEF ConfirmSeal, InvocationOK, Materializing
<1>3. CASE Goto(w, "page")
  <2>1. "page" \in Phase
    BY DEF Phase
  <2>2. /\ [r EXCEPT !.pc = "page"] \in Invocation
        /\ InvocationOK([r EXCEPT !.pc = "page"])
    BY <1>1, <1>2, <2>1, GotoHolds DEF Materializing, Activating
  <2> QED BY <1>1, <1>2, <1>3, <2>2, LookHolds DEF Goto
<1>4. CASE Raise(w)
  BY <1>2, <1>4, RaiseStep
<1> QED BY <1>3, <1>4 DEF ConfirmSeal

(* The scan: what it has seen of a sealed generation is as planned.        *)
LEMMA PageTypes ==
  ASSUME NEW cursor, NEW gk \in Page(cursor)
  PROVE  gk \in Generation \X Key /\ SlotOf(gk) \in Nat
<1>1. gk \in Generation \X Key
  BY DEF Page, Occupied
<1> QED BY <1>1, PlanAssumption DEF SlotOf

LEMMA ScannedHolds ==
  ASSUME NEW r \in Invocation, InvocationOK(r), r.pc = "page", r.plan \in Plan,
         NEW seen \in SUBSET Key, NEW cursor \in Nat,
         \A k \in seen : Read(r.plan, k)
  PROVE  LET n == [r EXCEPT !.pages = @ + 1, !.seen = seen, !.cursor = cursor]
         IN  n \in Invocation /\ InvocationOK(n)
<1> DEFINE n == [r EXCEPT !.pages = @ + 1, !.seen = seen, !.cursor = cursor]
<1>1. r.pages + 1 \in Nat
  BY DEF Invocation
<1>2. PICK pages \in Nat : pages = r.pages + 1
  BY <1>1
<1>3. n = [r EXCEPT !.pages = pages, !.seen = seen, !.cursor = cursor]
  BY <1>2
<1>4. /\ n \in Invocation /\ n.pc = "page" /\ n.call = r.call /\ n.plan = r.plan
      /\ n.seen = seen
  <2> HIDE DEF n
  <2> QED BY <1>3 DEF Invocation
<1> HIDE DEF n
<1>5. InvocationOK(n)
  BY <1>4 DEF InvocationOK, Materializing, Activating
<1> QED BY <1>4, <1>5 DEF n

(* A worker returns what it has just found to be true.                     *)
LEMMA ReturnStep ==
  ASSUME IInv, NEW w \in Worker, NEW r \in Invocation, r = worker[w],
         r.plan \in Plan, r.call # "none",
         r.call = "materialize" => OwnerIs(r.plan, "VALIDATED"),
         r.call = "records" => Beyond(r.plan),
         r.call = "activate" => /\ r.expected \in Expectation
                                /\ op[r.plan] = [plan |-> r.plan, expected |-> r.expected],
         Return(w), ReadOnly
  PROVE  IInv'
<1> DEFINE done == [Idle EXCEPT !.pc = "done", !.call = r.call, !.plan = r.plan,
                                !.expected = r.expected]
<1>1. Move(w, done)
  BY DEF Return
<1>2. done \in Invocation /\ InvocationOK(done)
  BY ReturnFields, ReturnIsTrue
<1> HIDE DEF done
<1> QED BY <1>1, <1>2, LookHolds

LEMMA AfterScanStep ==
  ASSUME IInv, NEW w \in Worker, NEW r \in Invocation, r = worker[w],
         InvocationOK(r), r.pc = "page", Beyond(r.plan),
         \A k \in Planned(r.plan) : Read(r.plan, k),
         AfterScan(w), ReadOnly
  PROVE  IInv'
<1>1. r.plan \in Plan /\ r.call \in {"materialize", "records"}
  BY DEF InvocationOK
<1>2. CASE r.call = "materialize"
  <2>1. Move(w, [r EXCEPT !.pc = "validate"])
    BY <1>2 DEF AfterScan, Goto
  <2>2. "validate" \in Phase
    BY DEF Phase
  <2>3. /\ [r EXCEPT !.pc = "validate"] \in Invocation
        /\ InvocationOK([r EXCEPT !.pc = "validate"])
    BY <1>1, <1>2, <2>2, GotoHolds DEF Materializing, Activating
  <2> QED BY <2>1, <2>3, LookHolds
<1>3. CASE r.call = "records"
  BY <1>1, <1>3, ReturnStep DEF AfterScan
<1> QED BY <1>1, <1>2, <1>3

LEMMA ScanPageStep ==
  ASSUME IInv, NEW w \in Worker, ScanPage(w)
  PROVE  IInv'
<1>1. PICK r \in Invocation : r = worker[w] /\ InvocationOK(r)
  BY AtWork
<1> DEFINE page == Page(r.cursor)
           mine == {gk[2] : gk \in {x \in page : x[1] = PlanGen[r.plan]}}
           seen == r.seen \union mine
<1>2. r.pc = "page" /\ r.plan \in Plan /\ ReadOnly /\ r.seen \subseteq Key
  BY <1>1 DEF ScanPage, InvocationOK, Invocation
<1>3. CASE Raise(w)
  BY <1>2, <1>3, RaiseStep
<1>4. \/ Raise(w)
      \/ /\ Mine(w) /\ StateOf(w) # "WRITING"
         /\ \A k \in mine : item[PlanGen[r.plan]][k] = PlanRows[r.plan][k]
         /\ \/ seen = Planned(r.plan) /\ AfterScan(w)
            \/ Continue(w, page, seen)
  BY <1>1 DEF ScanPage
<1>5. mine \subseteq Key
  BY PageTypes
<1>6. ASSUME Mine(w), StateOf(w) # "WRITING",
             \A k \in mine : item[PlanGen[r.plan]][k] = PlanRows[r.plan][k]
      PROVE  Beyond(r.plan) /\ \A k \in seen : Read(r.plan, k)
  <2>1. Beyond(r.plan)
    BY <1>1, <1>2, <1>6, MineIs
  <2>2. \A k \in mine : Read(r.plan, k)
    BY <1>6, <2>1 DEF Read, Kept
  <2>3. \A k \in r.seen : Read(r.plan, k)
    BY <1>1 DEF InvocationOK
  <2> QED BY <2>1, <2>2, <2>3
<1> HIDE DEF page, mine
<1>7. CASE /\ Beyond(r.plan) /\ \A k \in seen : Read(r.plan, k)
           /\ seen = Planned(r.plan) /\ AfterScan(w)
  BY <1>1, <1>2, <1>7, AfterScanStep
<1>8. CASE /\ \A k \in seen : Read(r.plan, k)
           /\ Continue(w, page, seen)
  <2>1. PICK gk \in page :
          Move(w, [r EXCEPT !.pages = @ + 1, !.seen = seen, !.cursor = SlotOf(gk)])
    BY <1>1, <1>8 DEF Continue
  <2>2. SlotOf(gk) \in Nat /\ seen \in SUBSET Key
    BY <1>2, <1>5, PageTypes DEF page
  <2> HIDE DEF seen
  <2> DEFINE n == [r EXCEPT !.pages = @ + 1, !.seen = seen, !.cursor = SlotOf(gk)]
  <2>3. n \in Invocation /\ InvocationOK(n)
    BY <1>1, <1>2, <1>8, <2>2, ScannedHolds
  <2> HIDE DEF n
  <2>4. Move(w, n)
    BY <2>1 DEF n
  <2> QED BY <1>2, <2>3, <2>4, LookHolds
<1> QED BY <1>3, <1>4, <1>6, <1>7, <1>8

LEMMA SendValidationStep ==
  ASSUME IInv, NEW w \in Worker, SendValidation(w)
  PROVE  IInv'
<1>1. PICK r \in Invocation : r = worker[w] /\ InvocationOK(r)
  BY AtWork
<1> DEFINE q == [kind |-> "validate", plan |-> r.plan]
           good == [r EXCEPT !.pc = "confirm"]
           bad == [r EXCEPT !.pc = "revalidate"]
<1>2. /\ r.pc = "validate" /\ r.plan \in Plan /\ r.call = "materialize"
      /\ \A k \in Planned(r.plan) : Read(r.plan, k)
      /\ Send(w, q, Move(w, good), Move(w, bad))
  BY <1>1 DEF SendValidation, InvocationOK, Materializing, Send, Answered, Unanswered, Goto
<1>3. /\ q \in Request /\ RequestOK(q)
      /\ Learned(q)' => OwnerIs(r.plan, "VALIDATED")'
  BY <1>2 DEF Request, RequestOK, Learned, OwnerIs
<1>4. "confirm" \in Phase /\ "revalidate" \in Phase
  BY DEF Phase
<1>5. bad \in Invocation /\ InvocationOK(bad)
  BY <1>1, <1>2, <1>4, GotoHolds DEF Materializing, Activating
<1>6. /\ good \in Invocation /\ good.pc = "confirm" /\ good.call = r.call
      /\ good.plan = r.plan /\ good.seen = r.seen
  BY <1>4, GotoFields
<1> HIDE DEF good, bad, q
<1>7. ASSUME Progress, Learned(q)'
      PROVE  InvocationOK(good)'
  <2>1. InvocationOK(r)' /\ OwnerIs(r.plan, "VALIDATED")'
    BY <1>1, <1>3, <1>7, InvocationPersists DEF IInv
  <2>2. /\ \A k \in r.seen : Read(r.plan, k)'
        /\ \A k \in Planned(r.plan) : Read(r.plan, k)'
    BY <1>2, <2>1 DEF InvocationOK, Planned
  <2> QED BY <1>2, <1>6, <2>1, <2>2 DEF InvocationOK, Materializing, Activating, Planned
<1> QED BY <1>2, <1>3, <1>5, <1>6, <1>7, SendHolds

LEMMA ExplainValidationStep ==
  ASSUME IInv, NEW w \in Worker, ExplainValidation(w)
  PROVE  IInv'
<1>1. PICK r \in Invocation : r = worker[w] /\ InvocationOK(r)
  BY AtWork
<1>2. /\ r.plan \in Plan /\ r.call = "materialize" /\ ReadOnly
      /\ \A k \in Planned(r.plan) : Read(r.plan, k)
  BY <1>1 DEF ExplainValidation, InvocationOK, Materializing
<1>3. CASE Mine(w) /\ StateOf(w) = "VALIDATED" /\ Goto(w, "confirm")
  <2>1. "confirm" \in Phase /\ OwnerIs(r.plan, "VALIDATED")
    BY <1>1, <1>2, <1>3, MineIs DEF Phase
  <2>2. /\ [r EXCEPT !.pc = "confirm"] \in Invocation
        /\ InvocationOK([r EXCEPT !.pc = "confirm"])
    BY <1>1, <1>2, <2>1, GotoHolds DEF Materializing, Activating
  <2> QED BY <1>1, <1>2, <1>3, <2>2, LookHolds DEF Goto
<1>4. CASE Raise(w)
  BY <1>2, <1>4, RaiseStep
<1> QED BY <1>3, <1>4 DEF ExplainValidation

LEMMA ConfirmCandidateStep ==
  ASSUME IInv, NEW w \in Worker, ConfirmCandidate(w)
  PROVE  IInv'
<1>1. PICK r \in Invocation : r = worker[w] /\ InvocationOK(r)
  BY AtWork
<1>2. /\ r.plan \in Plan /\ r.call = "materialize" /\ ReadOnly
      /\ OwnerIs(r.plan, "VALIDATED")
  BY <1>1 DEF ConfirmCandidate, InvocationOK, Materializing
<1>3. CASE Return(w)
  BY <1>1, <1>2, <1>3, ReturnStep
<1>4. CASE Raise(w)
  BY <1>2, <1>4, RaiseStep
<1> QED BY <1>3, <1>4 DEF ConfirmCandidate

LEMMA ReplayOperationStep ==
  ASSUME IInv, NEW w \in Worker, ReplayOperation(w)
  PROVE  IInv'
<1>1. PICK r \in Invocation : r = worker[w] /\ InvocationOK(r)
  BY AtWork
<1>2. /\ r.plan \in Plan /\ r.call = "activate" /\ r.expected \in Expectation /\ ReadOnly
  BY <1>1 DEF ReplayOperation, InvocationOK, Activating
<1>3. CASE Return(w) /\ op[r.plan] = [plan |-> r.plan, expected |-> r.expected]
  BY <1>1, <1>2, <1>3, ReturnStep
<1>4. CASE Goto(w, "activate")
  <2>1. "activate" \in Phase
    BY DEF Phase
  <2>2. /\ [r EXCEPT !.pc = "activate"] \in Invocation
        /\ InvocationOK([r EXCEPT !.pc = "activate"])
    BY <1>1, <1>2, <2>1, GotoHolds DEF Materializing, Activating
  <2> QED BY <1>1, <1>2, <1>4, <2>2, LookHolds DEF Goto
<1>5. CASE Raise(w)
  BY <1>2, <1>5, RaiseStep
<1> QED BY <1>1, <1>3, <1>4, <1>5 DEF ReplayOperation

LEMMA SendActivationStep ==
  ASSUME IInv, NEW w \in Worker, SendActivation(w)
  PROVE  IInv'
<1>1. PICK r \in Invocation : r = worker[w] /\ InvocationOK(r)
  BY AtWork
<1> DEFINE q == [kind |-> "activate", plan |-> r.plan, expected |-> r.expected]
           good == [Idle EXCEPT !.pc = "done", !.call = r.call, !.plan = r.plan,
                                !.expected = r.expected]
           bad == [r EXCEPT !.pc = "recheck"]
<1>2. /\ r.pc = "activate" /\ r.plan \in Plan /\ r.call = "activate"
      /\ r.expected \in Expectation
      /\ Send(w, q, Move(w, good), Move(w, bad))
  BY <1>1 DEF SendActivation, InvocationOK, Activating, Send, Answered, Unanswered,
              Goto, Return
<1>3. /\ q \in Request /\ RequestOK(q)
      /\ Learned(q)' => op'[r.plan] = [plan |-> r.plan, expected |-> r.expected]
  BY <1>2 DEF Request, RequestOK, Learned
<1>4. "recheck" \in Phase
  BY DEF Phase
<1>5. bad \in Invocation /\ InvocationOK(bad)
  BY <1>1, <1>2, <1>4, GotoHolds DEF Materializing, Activating
<1>6. /\ good \in Invocation /\ good.pc = "done" /\ good.call = r.call
      /\ good.plan = r.plan /\ good.expected = r.expected /\ good.seen = {}
  BY ReturnFields
<1> HIDE DEF good, bad, q
<1>7. Learned(q)' => InvocationOK(good)'
  BY <1>2, <1>3, <1>6 DEF InvocationOK, Materializing, Activating
<1> QED BY <1>2, <1>3, <1>5, <1>6, <1>7, SendHolds

LEMMA WorkerHolds ==
  ASSUME IInv, NEW w \in Worker, WorkerStep(w)
  PROVE  IInv'
BY ReadOwnerStep, SendClaimStep, SendRecordStep, ExplainWriteStep, SendSealStep,
   ConfirmSealStep, ScanPageStep, SendValidationStep, ExplainValidationStep,
   ConfirmCandidateStep, ReplayOperationStep, SendActivationStep
   DEF WorkerStep

LEMMA InitHolds == Init => IInv
<1> SUFFICES ASSUME Init PROVE IInv
  OBVIOUS
<1>1. /\ \A g \in Generation : owner[g] = [state |-> "ABSENT", plan |-> NoPlan]
      /\ \A g \in Generation, k \in Key : item[g][k] = Absent
      /\ \A f \in FeatureSet : ptr[f] = [gen |-> NoGeneration, version |-> 0]
      /\ \A p \in Plan : op[p] = NoOp
      /\ \A w \in Worker : worker[w] = Idle
      /\ network = {} /\ lost = 0 /\ expired = {}
  BY DEF Init
<1>2. TableTypes
  BY DEF Init, TableTypes, Owner, OwnerState, GenerationOrNone
<1>3. OwnerInv
  BY <1>1 DEF OwnerInv, OwnerOK, Late
<1>4. \A f \in FeatureSet : Moves(f) = {}
  BY <1>1 DEF Moves
<1>5. OperationsAreTheChain
  <2> SUFFICES ASSUME NEW f \in FeatureSet
      PROVE LET at == [p \in Moves(f) |-> op[p].expected.version + 1]
            IN  /\ Cardinality(Moves(f)) = ptr[f].version
                /\ \A p \in Moves(f) : at[p] = ptr[f].version => ptr[f].gen = PlanGen[p]
                /\ \A p, q \in Moves(f) :
                     at[q] = at[p] + 1 => op[q].expected.gen = PlanGen[p]
                /\ {at[p] : p \in Moves(f)} = 1..ptr[f].version
    BY DEF OperationsAreTheChain
  <2>1. Moves(f) = {} /\ ptr[f].version = 0 /\ 1..0 = {}
    BY <1>1, <1>4
  <2>2. Cardinality(Moves(f)) = 0
    BY <2>1, FS_EmptySet
  <2> QED BY <2>1, <2>2
<1>6. OperationInv
  BY <1>1, <1>4, <1>5, FS_EmptySet DEF OperationInv
<1>7. worker \in [Worker -> Invocation] /\ WorkerInv
  BY <1>1, IdleHolds DEF Init, WorkerInv
<1>8. NetworkInv /\ network \subseteq Request /\ lost \in 0..MaxFaults
  BY <1>1, BoundAssumption DEF NetworkInv
<1>9. TypeOK
  BY <1>2, <1>7, <1>8 DEF TypeOK, TableTypes
<1> QED BY <1>1, <1>2, <1>3, <1>6, <1>7, <1>8, <1>9, FS_EmptySet DEF IInv, TablesOK

LEMMA StutterHolds ==
  ASSUME IInv, UNCHANGED vars
  PROVE  IInv'
<1>1. TablesOK' /\ Progress
  BY StillProgress DEF IInv, vars
<1> QED BY <1>1, StepHolds DEF IInv, TypeOK, vars

LEMMA NextHolds == IInv /\ [Next]_vars => IInv'
<1> SUFFICES ASSUME IInv, [Next]_vars PROVE IInv'
  OBVIOUS
<1>1. CASE \E w \in Worker : Call(w)
  BY <1>1, CallStep
<1>2. CASE \E w \in Worker : WorkerStep(w)
  BY <1>2, WorkerHolds
<1>3. CASE \E w \in Worker : Die(w)
  BY <1>3, DieStep
<1>4. CASE \E r \in network : Arrive(r)
  BY <1>4, ArriveStep
<1>5. CASE \E g \in Generation, k \in Key : Expire(g, k)
  BY <1>5, ExpireStep
<1>6. CASE UNCHANGED vars
  BY <1>6, StutterHolds
<1> QED BY <1>1, <1>2, <1>3, <1>4, <1>5, <1>6 DEF Next

----------------------------------------------------------------------------
(* The inductive invariant holds in every state of DynamoOnlineRuntime.    *)
THEOREM Invariance == Spec => []IInv
BY InitHolds, NextHolds, PTL DEF Spec

(* Type correctness, for any number of tables' items, workers and faults.  *)
THEOREM TypeCorrect == Spec => []TypeOK
<1>1. IInv => TypeOK
  BY DEF IInv
<1> QED BY <1>1, Invariance, PTL

(* What _seal and put_candidate_validation make durable is whole: no       *)
(* request that arrives late, twice or after a crash adds or replaces a    *)
(* record, and what was deleted before the seal never becomes VALIDATED.   *)
THEOREM SealedHolds == Spec => []SealedIsWhole
<1>1. ASSUME IInv PROVE SealedIsWhole
  <2> SUFFICES ASSUME NEW g \in Generation, NEW k \in Key, owner[g].state \in Late
               PROVE  \/ item[g][k] = PlanRows[owner[g].plan][k]
                      \/ /\ item[g][k] = Absent
                         /\ Deleted(g, k, IF owner[g].state = "SEALED" THEN OwnerState ELSE Late)
    BY DEF SealedIsWhole, Late
  <2>1. PICK p \in Plan : p = owner[g].plan /\ PlanGen[p] = g
    BY <1>1 DEF IInv, TablesOK, OwnerInv, OwnerOK, Late
  <2>2. /\ item[g][k] # Absent => item[g][k] = PlanRows[p][k]
        /\ k \in Planned(p) => Wrote(p, k)
        /\ owner[g].state = "VALIDATED" /\ k \in Planned(p) => Read(p, k)
    BY <1>1, <2>1 DEF IInv, TablesOK, OwnerInv, OwnerOK
  <2>3. CASE k \notin Planned(p)
    BY <2>1, <2>2, <2>3 DEF Planned
  <2>4. CASE k \in Planned(p)
    BY <2>1, <2>2, <2>4 DEF Wrote, Read, Kept, Late
  <2> QED BY <2>3, <2>4
<1> QED BY <1>1, Invariance, PTL

(* The operation items chain into the pointer: no activation is lost,      *)
(* doubled or reordered by activate's retries and late transactions.       *)
THEOREM ChainHolds == Spec => []OperationsAreTheChain
<1>1. IInv => OperationsAreTheChain
  BY DEF IInv, TablesOK, OperationInv
<1> QED BY <1>1, Invariance, PTL

(* What materialize, records and activate return is true, and stays true.  *)
THEOREM AnswersHold == Spec => []AnswersAreDurable
<1>1. ASSUME IInv PROVE AnswersAreDurable
  <2> SUFFICES ASSUME NEW w \in Worker, worker[w].pc = "done"
      PROVE  LET p == worker[w].plan IN
             CASE worker[w].call = "materialize" -> OwnerIs(p, "VALIDATED")
               [] worker[w].call = "records" ->
                    OwnerIs(p, "SEALED") \/ OwnerIs(p, "VALIDATED")
               [] worker[w].call = "activate" ->
                    op[p] = [plan |-> p, expected |-> worker[w].expected]
    BY DEF AnswersAreDurable
  <2>1. PICK r \in Invocation : r = worker[w] /\ InvocationOK(r)
    BY <1>1, AtWork
  <2>2. r.call \in {"materialize", "records", "activate"} /\ r.plan \in Plan
    BY <2>1 DEF InvocationOK, Invocation
  <2>3. CASE r.call = "materialize"
    BY <2>1, <2>3 DEF InvocationOK
  <2>4. CASE r.call = "records"
    <3>1. owner[PlanGen[r.plan]] \in Owner /\ Beyond(r.plan)
      BY <1>1, <2>1, <2>2, <2>4, PlanTypes DEF InvocationOK, IInv, TablesOK, TableTypes
    <3>2. OwnerIs(r.plan, "SEALED") \/ OwnerIs(r.plan, "VALIDATED")
      BY <3>1 DEF Owner, Beyond, Owned, Late, OwnerIs
    <3> QED BY <2>1, <2>4, <3>2
  <2>5. CASE r.call = "activate"
    BY <2>1, <2>5 DEF InvocationOK
  <2> QED BY <2>2, <2>3, <2>4, <2>5
<1> QED BY <1>1, Invariance, PTL

----------------------------------------------------------------------------
(* What a step may be to the tables: one request, one deletion or nothing. *)
Requested == \E r \in Request : Commit(r) /\ UNCHANGED expired
Untouched == UNCHANGED <<tables, expired>>

LEMMA SendTouches ==
  ASSUME NEW w \in Worker, NEW r \in Request, NEW ok, NEW exc, Send(w, r, ok, exc)
  PROVE  Requested \/ Untouched
BY DEF Send, Answered, Unanswered, Requested, Untouched, tables

LEMMA WorkerTouches ==
  ASSUME IInv, NEW w \in Worker, WorkerStep(w)
  PROVE  Requested \/ Untouched
<1>1. PICK r \in Invocation : r = worker[w] /\ InvocationOK(r)
  BY AtWork
<1>2. r.pc \notin {"idle", "failed"} => r.plan \in Plan
  BY <1>1 DEF InvocationOK
<1>3. CASE SendClaim(w)
  <2>1. [kind |-> "claim", plan |-> r.plan] \in Request
    BY <1>1, <1>2, <1>3 DEF SendClaim, Request
  <2> QED BY <1>1, <1>3, <2>1, SendTouches DEF SendClaim
<1>4. CASE SendRecord(w)
  <2>1. PICK k \in r.todo :
          Send(w, [kind |-> "write", plan |-> r.plan, key |-> k],
               Move(w, [r EXCEPT !.todo = @ \ {k}]), Goto(w, "rewrite"))
    BY <1>1, <1>4 DEF SendRecord, First
  <2>2. [kind |-> "write", plan |-> r.plan, key |-> k] \in Request
    BY <1>1, <1>2, <1>4 DEF SendRecord, Request, Invocation
  <2> QED BY <2>1, <2>2, SendTouches
<1>5. CASE SendSeal(w)
  <2>1. [kind |-> "seal", plan |-> r.plan] \in Request
    BY <1>1, <1>2, <1>5 DEF SendSeal, Request
  <2> QED BY <1>1, <1>5, <2>1, SendTouches DEF SendSeal
<1>6. CASE SendValidation(w)
  <2>1. [kind |-> "validate", plan |-> r.plan] \in Request
    BY <1>1, <1>2, <1>6 DEF SendValidation, Request
  <2> QED BY <1>1, <1>6, <2>1, SendTouches DEF SendValidation
<1>7. CASE SendActivation(w)
  <2>1. [kind |-> "activate", plan |-> r.plan, expected |-> r.expected] \in Request
    BY <1>1, <1>2, <1>7 DEF SendActivation, Request, InvocationOK, Activating
  <2> QED BY <1>1, <1>7, <2>1, SendTouches DEF SendActivation
<1>8. CASE ReadOnly
  BY <1>8 DEF ReadOnly, Untouched
<1> QED BY <1>3, <1>4, <1>5, <1>6, <1>7, <1>8
        DEF WorkerStep, ReadOwner, ExplainWrite, ConfirmSeal, ScanPage,
            ExplainValidation, ConfirmCandidate, ReplayOperation

LEMMA StepTouches ==
  ASSUME IInv, [Next]_vars
  PROVE  Requested \/ Untouched \/ \E g \in Generation, k \in Key : Expire(g, k)
<1>1. CASE \E w \in Worker : Call(w) \/ Die(w)
  BY <1>1 DEF Call, CallMaterialize, CallRecords, CallActivate, Start, Die, ReadOnly,
              Untouched
<1>2. CASE \E w \in Worker : WorkerStep(w)
  BY <1>2, WorkerTouches
<1>3. CASE \E r \in network : Arrive(r)
  <2>1. PICK r \in network : Arrive(r)
    BY <1>3
  <2>2. r \in Request
    BY DEF IInv, TypeOK
  <2> QED BY <2>1, <2>2 DEF Arrive, Requested, Untouched
<1>4. CASE UNCHANGED vars
  BY <1>4 DEF vars, Untouched
<1> QED BY <1>1, <1>2, <1>3, <1>4 DEF Next

(* A request goes forward, whatever it relies on.                          *)
LEMMA RequestedIsProgress ==
  ASSUME TablesOK, Requested
  PROVE  Progress
<1>1. PICK r \in Request : Commit(r) /\ UNCHANGED expired
  BY DEF Requested
<1>2. /\ r.plan \in Plan
      /\ r.kind = "write" => r.key \in Key
      /\ r.kind = "activate" => r.expected \in Expectation
  BY DEF Request
<1>3. CASE r.kind = "claim" /\ Claim(r.plan)
  BY <1>1, <1>2, <1>3, ClaimHolds
<1>4. CASE r.kind = "write" /\ PutRecord(r.plan, r.key)
  BY <1>1, <1>2, <1>4, PutHolds
<1>5. CASE r.kind = "seal" /\ Seal(r.plan)
  BY <1>1, <1>2, <1>5, OwnerMoves DEF Seal, MaySeal, OwnerState
<1>6. CASE r.kind = "validate" /\ PutCandidateValidation(r.plan)
  BY <1>1, <1>2, <1>6, OwnerMoves DEF PutCandidateValidation, MayValidate, OwnerState
<1>7. CASE r.kind = "activate" /\ ActivationTransaction(r.plan, r.expected)
  BY <1>1, <1>2, <1>7, ActivationHolds
<1> QED BY <1>1, <1>3, <1>4, <1>5, <1>6, <1>7 DEF Commit

LEMMA NextIsProgress ==
  ASSUME IInv, [Next]_vars
  PROVE  Progress
BY StepTouches, RequestedIsProgress, StillProgress, ExpireHolds DEF IInv, Untouched

(* An owner is never replaced, its state never goes back, and an operation *)
(* on record is never rewritten: what a worker was told keeps its meaning. *)
THEOREM ForwardHolds == Spec => OnlyForward
<1> DEFINE Forward ==
      /\ \A g \in Generation :
           /\ Rank[owner'[g].state] >= Rank[owner[g].state]
           /\ owner[g].state # "ABSENT" => owner'[g].plan = owner[g].plan
      /\ \A p \in Plan : op[p] # NoOp => op'[p] = op[p]
<1>1. ASSUME IInv, [Next]_vars
      PROVE  Forward
  <2>1. Progress
    BY <1>1, NextIsProgress
  <2>2. \A g \in Generation : owner[g].state \in OwnerState
    BY <1>1 DEF IInv, TypeOK, Owner
  <2>3. ASSUME NEW g \in Generation
        PROVE  /\ Rank[owner'[g].state] >= Rank[owner[g].state]
               /\ owner[g].state # "ABSENT" => owner'[g].plan = owner[g].plan
    <3>1. Advances(g)
      BY <2>1 DEF Progress
    <3> QED BY <2>2, <3>1 DEF Advances, Rank, OwnerState
  <2> QED BY <2>1, <2>3 DEF Progress
<1>2. IInv /\ [Next]_vars => [Forward]_vars
  BY <1>1
<1> QED BY <1>2, Invariance, PTL DEF Spec, OnlyForward

----------------------------------------------------------------------------
(* The scan of DynamoOnlineRuntime.records against a table that others     *)
(* write to: why it cannot fail by itself.                                 *)

(* A nonempty set of numbers has a least element.                          *)
LEMMA LeastNumber ==
  ASSUME NEW T \in SUBSET Nat, T # {}
  PROVE  \E x \in T : \A y \in T : x <= y
<1>1. PICK x \in T : \A y \in T : ~ (<<y, x>> \in OpToRel(<, Nat))
  BY WFMin, NatLessThanWellFounded
<1>2. \A y \in T : ~ (y < x)
  BY <1>1 DEF OpToRel
<1> QED BY <1>2

(* What the table has held: it grows by one item at a time, and never      *)
(* shrinks.                                                                *)
LEMMA HeldGrows ==
  ASSUME TablesOK, Progress
  PROVE  Held \subseteq Held'
<1>1. ASSUME NEW g \in Generation, NEW k \in Key, item[g][k] # Absent
      PROVE  <<g, k>> \in Held'
  <2>1. owner[g].state # "ABSENT" /\ item[g][k] = PlanRows[owner[g].plan][k]
    BY <1>1 DEF TablesOK, OwnerInv, OwnerOK
  <2>2. item'[g][k] = item[g][k] \/ <<g, k, owner[g].state>> \in expired'
    BY <2>1 DEF Progress
  <2>3. CASE item'[g][k] = item[g][k]
    BY <1>1, <2>3 DEF Held, Occupied
  <2>4. CASE <<g, k, owner[g].state>> \in expired'
    <3>1. PICK x \in expired' : x = <<g, k, owner[g].state>>
      BY <2>4
    <3>2. <<x[1], x[2]>> = <<g, k>>
      BY <3>1
    <3> QED BY <3>2 DEF Held
  <2> QED BY <2>2, <2>3, <2>4
<1>2. ASSUME NEW x \in expired
      PROVE  <<x[1], x[2]>> \in Held'
  BY DEF Progress, Held
<1> QED BY <1>1, <1>2 DEF Held, Occupied

(* The records of a sealed generation are only deleted.                    *)
LEMMA SettledStays ==
  ASSUME IInv, [Next]_vars, NEW p \in Plan, Beyond(p), NEW k \in Key
  PROVE  item'[PlanGen[p]][k] \in {item[PlanGen[p]][k], Absent}
<1>1. /\ item \in [Generation -> [Key -> Content \union {Absent}]]
      /\ PlanGen[p] \in Generation /\ owner[PlanGen[p]].state \in Late
  BY PlanTypes DEF IInv, TypeOK, Beyond
<1>2. CASE Requested
  <2>1. PICK r \in Request : Commit(r)
    BY <1>2 DEF Requested
  <2>2. CASE r.kind = "write" /\ PutRecord(r.plan, r.key)
    <3>1. /\ r.plan \in Plan /\ r.key \in Key /\ owner[PlanGen[r.plan]].state = "WRITING"
          /\ item' = [item EXCEPT ![PlanGen[r.plan]][r.key] = PlanRows[r.plan][r.key]]
      BY <2>2 DEF Request, PutRecord, MayPut, OwnerIs
    <3>2. PlanGen[r.plan] # PlanGen[p]
      BY <1>1, <3>1 DEF Late
    <3> QED BY <1>1, <3>1, <3>2, PlanTypes
  <2>3. CASE UNCHANGED item
    BY <2>3
  <2> QED BY <2>1, <2>2, <2>3
      DEF Commit, Claim, Seal, PutCandidateValidation, ActivationTransaction
<1>3. CASE Untouched
  BY <1>3 DEF Untouched, tables
<1>4. CASE \E g \in Generation, l \in Key : Expire(g, l)
  BY <1>1, <1>4 DEF Expire
<1> QED BY <1>2, <1>3, <1>4, StepTouches

LEMMA HeldIsFinite ==
  ASSUME IInv, [Next]_vars, IsFiniteSet(Held)
  PROVE  IsFiniteSet(Held')
<1>1. item \in [Generation -> [Key -> Content \union {Absent}]]
  BY DEF IInv, TypeOK
<1>2. \E new : Held' \subseteq Held \union {new}
  <2>1. CASE Requested
    <3>1. PICK r \in Request : Commit(r) /\ UNCHANGED expired
      BY <2>1 DEF Requested
    <3>2. CASE r.kind = "write" /\ PutRecord(r.plan, r.key)
      <4>1. /\ r.plan \in Plan /\ r.key \in Key
            /\ item' = [item EXCEPT ![PlanGen[r.plan]][r.key] = PlanRows[r.plan][r.key]]
        BY <3>2 DEF Request, PutRecord
      <4>2. \A g \in Generation, k \in Key :
              <<g, k>> # <<PlanGen[r.plan], r.key>> => item'[g][k] = item[g][k]
        BY <1>1, <4>1, PlanTypes
      <4>3. Occupied' \subseteq Occupied \union {<<PlanGen[r.plan], r.key>>}
        BY <4>2 DEF Occupied
      <4> QED BY <3>1, <4>3 DEF Held
    <3>3. CASE UNCHANGED item
      BY <3>1, <3>3 DEF Held, Occupied
    <3> QED BY <3>1, <3>2, <3>3
        DEF Commit, Claim, Seal, PutCandidateValidation, ActivationTransaction
  <2>2. CASE Untouched
    BY <2>2 DEF Untouched, tables, Held, Occupied
  <2>3. ASSUME NEW g \in Generation, NEW k \in Key, Expire(g, k)
        PROVE  Held' \subseteq Held \union {<<g, k>>}
    <3>1. /\ item' = [item EXCEPT ![g][k] = Absent]
          /\ expired' = expired \union {<<g, k, owner[g].state>>}
      BY <2>3 DEF Expire
    <3>2. Occupied' \subseteq Occupied
      BY <1>1, <3>1 DEF Occupied
    <3>3. \A x \in expired' : x \in expired \/ <<x[1], x[2]>> = <<g, k>>
      BY <3>1
    <3> QED BY <3>2, <3>3 DEF Held
  <2> QED BY <2>1, <2>2, <2>3, StepTouches
<1>3. PICK new : Held' \subseteq Held \union {new}
  BY <1>2
<1>4. IsFiniteSet(Held \union {new})
  BY FS_AddElement
<1> QED BY <1>3, <1>4, FS_Subset

----------------------------------------------------------------------------
(* A page is an initial part of what lies after the cursor, and a page     *)
(* that is not full is all of it.                                          *)
After(cursor) == {gk \in Occupied : SlotOf(gk) > cursor}

LEMMA PageIs ==
  ASSUME NEW cursor \in Nat, IsFiniteSet(Held)
  PROVE  /\ Page(cursor) \subseteq After(cursor)
         /\ IsFiniteSet(Page(cursor))
         /\ Cardinality(Page(cursor)) \in Nat
         /\ \A gk \in After(cursor) : gk \in Generation \X Key /\ SlotOf(gk) \in Nat
         /\ \A gk \in Page(cursor), o \in After(cursor) :
              SlotOf(o) <= SlotOf(gk) => o \in Page(cursor)
         /\ Cardinality(Page(cursor)) < PageLimit => Page(cursor) = After(cursor)
<1> DEFINE after == After(cursor)
           page == Page(cursor)
           Below(gk) == {o \in after : SlotOf(o) < SlotOf(gk)}
<1>1. /\ page = {gk \in after : Cardinality(Below(gk)) < PageLimit}
      /\ PageLimit \in Nat
  BY PlanAssumption DEF Page, After
<1>2. IsFiniteSet(after) /\ \A gk \in after : gk \in Generation \X Key
  <2>1. after \subseteq Held
    BY DEF After, Held
  <2> QED BY <2>1, FS_Subset DEF After, Occupied
<1>3. \A gk \in after : SlotOf(gk) \in Nat
  BY <1>2, PlanAssumption DEF SlotOf
<1>4. \A gk \in after : IsFiniteSet(Below(gk)) /\ Cardinality(Below(gk)) \in Nat
  BY <1>2, FS_Subset, FS_CardinalityType
<1>5. page \subseteq after /\ IsFiniteSet(page) /\ Cardinality(page) \in Nat
  BY <1>1, <1>2, FS_Subset, FS_CardinalityType
<1>6. ASSUME NEW gk \in page, NEW o \in after, SlotOf(o) <= SlotOf(gk)
      PROVE  o \in page
  <2>1. Below(o) \subseteq Below(gk)
    BY <1>3, <1>5, <1>6
  <2>2. Cardinality(Below(o)) <= Cardinality(Below(gk))
    BY <1>4, <1>5, <2>1, FS_Subset
  <2>3. Cardinality(Below(gk)) < PageLimit
    BY <1>1
  <2>4. Cardinality(Below(o)) \in Nat /\ Cardinality(Below(gk)) \in Nat
    BY <1>4, <1>5
  <2>5. Cardinality(Below(o)) < PageLimit
    BY <1>1, <2>2, <2>3, <2>4
  <2> QED BY <1>1, <2>5
<1>7. ASSUME Cardinality(page) < PageLimit, NEW gk \in after, gk \notin page
      PROVE  FALSE
  <2> DEFINE slots == {SlotOf(o) : o \in after \ page}
  <2>1. slots \subseteq Nat /\ slots # {}
    BY <1>3, <1>7
  <2> HIDE DEF slots
  <2>2. PICK least \in slots : \A s \in slots : least <= s
    BY <2>1, LeastNumber
  <2>3. PICK o \in after \ page : SlotOf(o) = least
    BY DEF slots
  <2>4. \A other \in after \ page : SlotOf(o) <= SlotOf(other)
    BY <2>2, <2>3 DEF slots
  <2>5. Below(o) \subseteq page
    BY <1>3, <2>4
  <2>6. Cardinality(Below(o)) <= Cardinality(page)
    BY <1>5, <2>5, FS_Subset
  <2>7. Cardinality(Below(o)) \in Nat /\ ~ (Cardinality(Below(o)) < PageLimit)
    BY <1>1, <1>4
  <2> QED BY <1>1, <1>5, <1>7, <2>6, <2>7
<1> QED BY <1>2, <1>3, <1>5, <1>6, <1>7

----------------------------------------------------------------------------
(* What a scan knows on its way: it saw only records of its plan, of a     *)
(* sealed generation, and every one that is still there behind its cursor; *)
(* and each full page it took was as many items as a request evaluates.    *)
Passed(cursor) == {gk \in Held : SlotOf(gk) <= cursor}
BeforeScan == {"own", "claim", "reclaim", "write", "rewrite", "seal", "reseal"}

AtStart(r) == r.cursor = 0 /\ r.pages = 0 /\ r.seen = {}

Scanning(r) ==
  /\ r.cursor # 0 => Beyond(r.plan)
  /\ r.seen \subseteq Planned(r.plan)
  /\ \A k \in Key :
       item[PlanGen[r.plan]][k] # Absent /\ Slot[PlanGen[r.plan]][k] <= r.cursor =>
         k \in r.seen
  /\ PageLimit * r.pages <= Cardinality(Passed(r.cursor))

ScanOK(r) ==
  /\ r.pc \in BeforeScan => AtStart(r)
  /\ r.pc = "page" => Scanning(r)

ScanInv == IsFiniteSet(Held) /\ \A w \in Worker : ScanOK(worker[w])

LEMMA PassedIsFinite ==
  ASSUME IsFiniteSet(Held), NEW cursor
  PROVE  IsFiniteSet(Passed(cursor)) /\ Cardinality(Passed(cursor)) \in Nat
BY FS_Subset, FS_CardinalityType DEF Passed

LEMMA ScanStarts ==
  ASSUME IsFiniteSet(Held), NEW r \in Invocation, AtStart(r),
         r.pc = "page" => r.plan \in Plan
  PROVE  ScanOK(r)
<1> SUFFICES ASSUME r.pc = "page" PROVE Scanning(r)
  BY DEF ScanOK
<1>1. \A k \in Key : Slot[PlanGen[r.plan]][k] \in Nat \ {0}
  BY PlanTypes, PlanAssumption
<1>2. PageLimit * r.pages = 0
  BY PlanAssumption DEF AtStart
<1>3. PageLimit * r.pages <= Cardinality(Passed(r.cursor))
  BY <1>2, PassedIsFinite
<1> QED BY <1>1, <1>3 DEF Scanning, AtStart

(* A scan that rests while others act loses nothing.                       *)
LEMMA ScanPersists ==
  ASSUME IInv, [Next]_vars, Progress, IsFiniteSet(Held), IsFiniteSet(Held'),
         NEW r \in Invocation, r.pc = "page" => r.plan \in Plan, ScanOK(r)
  PROVE  ScanOK(r)'
<1> SUFFICES ASSUME r.pc = "page" PROVE Scanning(r)'
  BY DEF ScanOK, AtStart, BeforeScan
<1>1. r.plan \in Plan /\ Scanning(r) /\ TablesOK /\ r.cursor \in Nat /\ r.pages \in Nat
  BY DEF ScanOK, IInv, Invocation
<1>2. r.cursor # 0 => Beyond(r.plan)'
  BY <1>1, BeyondPersists DEF Scanning
<1>3. (r.seen \subseteq Planned(r.plan))'
  BY <1>1 DEF Scanning, Planned
<1>4. ASSUME NEW k \in Key,
             item'[PlanGen[r.plan]][k] # Absent, Slot[PlanGen[r.plan]][k] <= r.cursor
      PROVE  k \in r.seen
  <2>1. Slot[PlanGen[r.plan]][k] \in Nat \ {0}
    BY <1>1, PlanTypes, PlanAssumption
  <2>2. Beyond(r.plan)
    BY <1>1, <1>4, <2>1 DEF Scanning
  <2>3. item[PlanGen[r.plan]][k] # Absent
    BY <1>1, <1>4, <2>2, SettledStays
  <2> QED BY <1>1, <1>4, <2>3 DEF Scanning
<1>5. PageLimit * r.pages <= Cardinality(Passed(r.cursor)')
  <2>1. Passed(r.cursor) \subseteq Passed(r.cursor)'
    BY <1>1, HeldGrows DEF Passed, SlotOf
  <2>2. /\ IsFiniteSet(Passed(r.cursor)') /\ Cardinality(Passed(r.cursor)') \in Nat
        /\ Passed(r.cursor)' = {gk \in Held' : SlotOf(gk) <= r.cursor}
    BY FS_Subset, FS_CardinalityType DEF Passed, SlotOf
  <2>3. Cardinality(Passed(r.cursor)) <= Cardinality(Passed(r.cursor)')
    BY <2>1, <2>2, FS_Subset
  <2>4. PageLimit * r.pages <= Cardinality(Passed(r.cursor)) /\ PageLimit * r.pages \in Nat
    BY <1>1, PlanAssumption DEF Scanning
  <2>5. Cardinality(Passed(r.cursor)) \in Nat
    BY PassedIsFinite
  <2> QED BY <2>2, <2>3, <2>4, <2>5
<1> QED BY <1>2, <1>3, <1>4, <1>5 DEF Scanning

(* A full page is that many items more than those behind the cursor.       *)
LEMMA FullPage ==
  ASSUME IsFiniteSet(Held), NEW cursor \in Nat, NEW pages \in Nat,
         PageLimit * pages <= Cardinality(Passed(cursor)),
         ~ (Cardinality(Page(cursor)) < PageLimit),
         NEW S, IsFiniteSet(S), Passed(cursor) \union Page(cursor) \subseteq S
  PROVE  PageLimit * (pages + 1) <= Cardinality(S)
<1> DEFINE passed == Passed(cursor)
           page == Page(cursor)
<1>1. /\ IsFiniteSet(passed) /\ Cardinality(passed) \in Nat
      /\ IsFiniteSet(page) /\ Cardinality(page) \in Nat
  BY PassedIsFinite, PageIs
<1>2. passed \intersect page = {}
  <2>1. \A gk \in page : SlotOf(gk) \in Nat /\ SlotOf(gk) > cursor
    BY PageIs DEF After
  <2> QED BY <2>1 DEF Passed
<1>3. Cardinality(passed \union page) = Cardinality(passed) + Cardinality(page)
  <2>1. Cardinality(passed \union page)
          = Cardinality(passed) + Cardinality(page) - Cardinality(passed \intersect page)
    BY <1>1, FS_Union
  <2>2. Cardinality(passed \intersect page) = 0
    BY <1>2, FS_EmptySet
  <2> HIDE DEF passed, page
  <2> QED BY <1>1, <2>1, <2>2
<1>4. Cardinality(passed \union page) <= Cardinality(S) /\ Cardinality(S) \in Nat
  BY FS_Subset, FS_CardinalityType
<1>5. ~ (Cardinality(page) < PageLimit) /\ PageLimit \in Nat /\ PageLimit * pages \in Nat
      /\ PageLimit * pages <= Cardinality(passed)
      /\ PageLimit * (pages + 1) = PageLimit * pages + PageLimit
  BY PlanAssumption
<1> HIDE DEF passed, page
<1> QED BY <1>1, <1>3, <1>4, <1>5

(* The records of a plan that a page of its sealed generation holds are    *)
(* among those that were planned, with their planned content.              *)
Mined(r) == {gk[2] : gk \in {x \in Page(r.cursor) : x[1] = PlanGen[r.plan]}}

LEMMA MinedIsPlanned ==
  ASSUME IInv, IsFiniteSet(Held), NEW r \in Invocation, r.plan \in Plan, Beyond(r.plan)
  PROVE  \A k \in Mined(r) :
           /\ k \in Planned(r.plan)
           /\ item[PlanGen[r.plan]][k] = PlanRows[r.plan][k]
<1> SUFFICES ASSUME NEW k \in Mined(r)
             PROVE  /\ k \in Planned(r.plan)
                    /\ item[PlanGen[r.plan]][k] = PlanRows[r.plan][k]
  OBVIOUS
<1>1. r.cursor \in Nat
  BY DEF Invocation
<1>2. PICK gk \in Page(r.cursor) : gk[1] = PlanGen[r.plan] /\ gk[2] = k
  BY DEF Mined
<1>3. k \in Key /\ item[PlanGen[r.plan]][k] # Absent
  BY <1>1, <1>2, PageIs DEF After, Occupied
<1>4. item[PlanGen[r.plan]][k] = PlanRows[r.plan][k]
  BY <1>3, PlanTypes DEF IInv, TablesOK, OwnerInv, OwnerOK, Beyond, Owned
<1> QED BY <1>3, <1>4 DEF Planned

(* Whatever page of its generation comes next, no record that is still     *)
(* there is passed over.                                                   *)
LEMMA NothingIsSkipped ==
  ASSUME IsFiniteSet(Held), NEW r \in Invocation, r.plan \in Plan, Scanning(r),
         NEW cursor \in Nat,
         \A gk \in After(r.cursor) : SlotOf(gk) <= cursor => gk \in Page(r.cursor),
         NEW k \in Key, item[PlanGen[r.plan]][k] # Absent,
         Slot[PlanGen[r.plan]][k] <= cursor
  PROVE  k \in r.seen \union Mined(r)
<1> DEFINE gk == <<PlanGen[r.plan], k>>
<1>1. /\ r.cursor \in Nat /\ gk \in Occupied
      /\ SlotOf(gk) = Slot[PlanGen[r.plan]][k] /\ SlotOf(gk) \in Nat
  BY PlanTypes, PlanAssumption DEF Invocation, Occupied, SlotOf
<1>2. CASE SlotOf(gk) <= r.cursor
  BY <1>1, <1>2 DEF Scanning
<1>3. CASE SlotOf(gk) > r.cursor
  <2>1. gk \in Page(r.cursor)
    BY <1>1, <1>3 DEF After
  <2> QED BY <2>1 DEF Mined
<1> QED BY <1>1, <1>2, <1>3

LEMMA ScanContinues ==
  ASSUME IInv, IsFiniteSet(Held), NEW r \in Invocation, r.plan \in Plan,
         Scanning(r), Beyond(r.plan), ~ (Cardinality(Page(r.cursor)) < PageLimit),
         NEW gk \in Page(r.cursor),
         \A other \in Page(r.cursor) : SlotOf(other) <= SlotOf(gk),
         NEW n \in Invocation, n.plan = r.plan, n.pages = r.pages + 1,
         n.seen = r.seen \union Mined(r), n.cursor = SlotOf(gk)
  PROVE  Scanning(n)
<1>1. /\ r.cursor \in Nat /\ r.pages \in Nat /\ n.cursor \in Nat
      /\ n.seen \subseteq Planned(n.plan)
  BY MinedIsPlanned DEF Invocation, Scanning
<1>2. /\ Page(r.cursor) \subseteq After(r.cursor)
      /\ \A o \in After(r.cursor) : SlotOf(o) <= n.cursor => o \in Page(r.cursor)
      /\ SlotOf(gk) > r.cursor
  BY <1>1, PageIs DEF After
<1>3. \A k \in Key :
        item[PlanGen[n.plan]][k] # Absent /\ Slot[PlanGen[n.plan]][k] <= n.cursor =>
          k \in n.seen
  BY <1>1, <1>2, NothingIsSkipped
<1>4. PageLimit * n.pages <= Cardinality(Passed(n.cursor))
  <2>1. \A o \in Passed(r.cursor) : o \in Passed(n.cursor)
    <3> SUFFICES ASSUME NEW o \in Held, SlotOf(o) <= r.cursor
                 PROVE  SlotOf(o) <= n.cursor
      BY DEF Passed
    <3>1. o \in Generation \X Key
      BY DEF Held, Occupied, IInv, TypeOK
    <3>2. SlotOf(o) \in Nat
      BY <3>1, PlanAssumption DEF SlotOf
    <3> QED BY <1>1, <1>2, <3>2
  <2>2. \A o \in Page(r.cursor) : o \in Passed(n.cursor)
    BY <1>2 DEF Passed, After, Held
  <2>3. PageLimit * r.pages <= Cardinality(Passed(r.cursor))
    BY DEF Scanning
  <2> QED BY <1>1, <2>1, <2>2, <2>3, PassedIsFinite, FullPage
<1> QED BY <1>1, <1>3, <1>4 DEF Scanning

----------------------------------------------------------------------------
(* What a step makes of an invocation: the same, one that has not begun to *)
(* scan or will not scan any more, or one that has read another page.      *)
Elsewhere == Phase \ (BeforeScan \union {"page"})

Moved(r, n) ==
  \/ n = r
  \/ AtStart(n) /\ (n.pc = "page" => n.plan \in Plan)
  \/ n.pc \in Elsewhere
  \/ /\ r.pc \in BeforeScan
     /\ n.cursor = r.cursor /\ n.pages = r.pages /\ n.seen = r.seen
     /\ n.plan = r.plan

ReadAnother(r, n) ==
  /\ r.pc = "page" /\ Beyond(r.plan) /\ ~ (Cardinality(Page(r.cursor)) < PageLimit)
  /\ n.pc = "page" /\ n.plan = r.plan
  /\ n.pages = r.pages + 1 /\ n.seen = r.seen \union Mined(r)
  /\ \E gk \in Page(r.cursor) :
       /\ \A other \in Page(r.cursor) : SlotOf(other) <= SlotOf(gk)
       /\ n.cursor = SlotOf(gk)

LEMMA IdleMoves ==
  ASSUME NEW r, NEW call, NEW plan, NEW expected, NEW pc \in {"idle", "done", "failed"}
  PROVE  /\ Moved(r, Idle) /\ Moved(r, [Idle EXCEPT !.pc = "failed"])
         /\ Moved(r, [Idle EXCEPT !.pc = "done", !.call = call, !.plan = plan,
                                  !.expected = expected])
BY DEF Moved, Idle, AtStart

LEMMA GotoMoves ==
  ASSUME NEW r \in Invocation, NEW pc \in Phase, r.pc \in BeforeScan \/ pc \in Elsewhere
  PROVE  /\ Moved(r, [r EXCEPT !.pc = pc])
         /\ Moved(r, [r EXCEPT !.pc = pc, !.todo = {}])
<1>1. /\ [r EXCEPT !.pc = pc].pc = pc
      /\ [r EXCEPT !.pc = pc].cursor = r.cursor
      /\ [r EXCEPT !.pc = pc].pages = r.pages
      /\ [r EXCEPT !.pc = pc].seen = r.seen
      /\ [r EXCEPT !.pc = pc].plan = r.plan
  BY DEF Invocation
<1>2. /\ [r EXCEPT !.pc = pc, !.todo = {}].pc = pc
      /\ [r EXCEPT !.pc = pc, !.todo = {}].cursor = r.cursor
      /\ [r EXCEPT !.pc = pc, !.todo = {}].pages = r.pages
      /\ [r EXCEPT !.pc = pc, !.todo = {}].seen = r.seen
      /\ [r EXCEPT !.pc = pc, !.todo = {}].plan = r.plan
  BY DEF Invocation
<1> QED BY <1>1, <1>2 DEF Moved

(* Wherever a request leads, it leads to a record that r may become.       *)
LEMMA SendMoves ==
  ASSUME NEW w \in Worker, NEW r \in Invocation, NEW q, NEW good, NEW bad,
         worker \in [Worker -> Invocation],
         Moved(r, good), Moved(r, bad), r = worker[w],
         Send(w, q, Move(w, good), Move(w, bad))
  PROVE  /\ \A x \in Worker \ {w} : worker'[x] = worker[x]
         /\ \E n : n = worker'[w] /\ Moved(r, n)
<1>1. \/ worker' = [worker EXCEPT ![w] = good]
      \/ worker' = [worker EXCEPT ![w] = bad]
      \/ worker' = worker
  BY DEF Send, Answered, Unanswered, Move
<1>2. Moved(r, r)
  BY DEF Moved
<1>3. CASE worker' = [worker EXCEPT ![w] = good]
  BY <1>3
<1>4. CASE worker' = [worker EXCEPT ![w] = bad]
  BY <1>4
<1>5. CASE worker' = worker
  BY <1>2, <1>5
<1> QED BY <1>1, <1>3, <1>4, <1>5

OneMoves(w) ==
  /\ \A x \in Worker \ {w} : worker'[x] = worker[x]
  /\ Moved(worker[w], worker'[w]) \/ ReadAnother(worker[w], worker'[w])

LEMMA MoveMoves ==
  ASSUME NEW w \in Worker, worker \in [Worker -> Invocation], NEW n, Move(w, n),
         Moved(worker[w], n) \/ ReadAnother(worker[w], n)
  PROVE  OneMoves(w)
<1>1. worker'[w] = n /\ \A x \in Worker \ {w} : worker'[x] = worker[x]
  BY DEF Move
<1>2. Moved(worker[w], worker'[w]) \/ ReadAnother(worker[w], worker'[w])
  BY <1>1
<1> QED BY <1>1, <1>2 DEF OneMoves

LEMMA RaiseMoves ==
  ASSUME NEW w \in Worker, worker \in [Worker -> Invocation],
         Raise(w) \/ Return(w) \/ Move(w, Idle)
  PROVE  OneMoves(w)
<1>1. PICK r : r = worker[w]
  OBVIOUS
<1>2. /\ Moved(r, Idle) /\ Moved(r, [Idle EXCEPT !.pc = "failed"])
      /\ Moved(r, [Idle EXCEPT !.pc = "done", !.call = r.call, !.plan = r.plan,
                               !.expected = r.expected])
  BY IdleMoves
<1> QED BY <1>1, <1>2, MoveMoves DEF Raise, Return

LEMMA GotoIsMove ==
  ASSUME NEW w \in Worker, worker \in [Worker -> Invocation],
         NEW pc \in Phase, worker[w].pc \in BeforeScan \/ pc \in Elsewhere,
         Goto(w, pc) \/ Skip(w, pc)
  PROVE  OneMoves(w)
<1>1. PICK r \in Invocation : r = worker[w]
  OBVIOUS
<1>2. /\ Moved(r, [r EXCEPT !.pc = pc])
      /\ Moved(r, [r EXCEPT !.pc = pc, !.todo = {}])
  BY <1>1, GotoMoves
<1> QED BY <1>1, <1>2, MoveMoves DEF Goto, Skip

LEMMA ScanPageMoves ==
  ASSUME IInv, NEW w \in Worker, ScanPage(w)
  PROVE  OneMoves(w)
<1>1. PICK r \in Invocation : r = worker[w] /\ InvocationOK(r)
  BY AtWork
<1>2. /\ r.pc = "page" /\ r.plan \in Plan /\ r.call \in {"materialize", "records"}
      /\ worker \in [Worker -> Invocation]
  BY <1>1 DEF ScanPage, InvocationOK, IInv, TypeOK
<1>3. \/ Raise(w)
      \/ AfterScan(w)
      \/ /\ Mine(w) /\ StateOf(w) # "WRITING"
         /\ ~ (Cardinality(Page(r.cursor)) < PageLimit)
         /\ Continue(w, Page(r.cursor), r.seen \union Mined(r))
  BY <1>1 DEF ScanPage, Mined
<1>4. CASE AfterScan(w)
  <2>1. "validate" \in Phase /\ "validate" \in Elsewhere
    BY DEF Phase, Elsewhere, BeforeScan
  <2>2. Goto(w, "validate") \/ Return(w)
    BY <1>1, <1>2, <1>4 DEF AfterScan
  <2> QED BY <1>2, <2>1, <2>2, GotoIsMove, RaiseMoves
<1>5. CASE /\ Mine(w) /\ StateOf(w) # "WRITING"
           /\ ~ (Cardinality(Page(r.cursor)) < PageLimit)
           /\ Continue(w, Page(r.cursor), r.seen \union Mined(r))
  <2>1. Beyond(r.plan)
    BY <1>1, <1>2, <1>5, MineIs
  <2>2. PICK gk \in Page(r.cursor) :
          /\ \A other \in Page(r.cursor) : SlotOf(other) <= SlotOf(gk)
          /\ Move(w, [r EXCEPT !.pages = @ + 1, !.seen = r.seen \union Mined(r),
                               !.cursor = SlotOf(gk)])
    BY <1>1, <1>5 DEF Continue
  <2>3. PICK n : n = [r EXCEPT !.pages = @ + 1, !.seen = r.seen \union Mined(r),
                               !.cursor = SlotOf(gk)]
    OBVIOUS
  <2>4. /\ n.pc = "page" /\ n.plan = r.plan /\ n.pages = r.pages + 1
        /\ n.seen = r.seen \union Mined(r) /\ n.cursor = SlotOf(gk)
    BY <1>2, <2>3 DEF Invocation
  <2>5. ReadAnother(r, n)
    BY <1>2, <1>5, <2>1, <2>2, <2>4 DEF ReadAnother
  <2> QED BY <1>1, <1>2, <2>2, <2>3, <2>5, MoveMoves
<1> QED BY <1>2, <1>3, <1>4, <1>5, RaiseMoves

LEMMA WorkerMoves ==
  ASSUME IInv, NEW w \in Worker, WorkerStep(w)
  PROVE  OneMoves(w)
<1>1. PICK r \in Invocation : r = worker[w] /\ worker \in [Worker -> Invocation]
  BY DEF IInv, TypeOK
<1>2. /\ \A pc \in BeforeScan \union Elsewhere \union {"page"} : pc \in Phase
      /\ {"confirm", "revalidate", "activate", "recheck"} \subseteq Elsewhere
      /\ {"claim", "write", "reclaim", "rewrite", "seal", "reseal"} \subseteq BeforeScan
  BY DEF BeforeScan, Elsewhere, Phase
<1>3. CASE ReadOwner(w)
  BY <1>1, <1>2, <1>3, GotoIsMove, RaiseMoves DEF ReadOwner, Proceed, BeforeScan
<1>4. CASE ExplainWrite(w) \/ ConfirmSeal(w)
  BY <1>1, <1>2, <1>4, GotoIsMove, RaiseMoves DEF ExplainWrite, ConfirmSeal, BeforeScan
<1>5. CASE ExplainValidation(w) \/ ConfirmCandidate(w) \/ ReplayOperation(w)
  BY <1>1, <1>2, <1>5, GotoIsMove, RaiseMoves
  DEF ExplainValidation, ConfirmCandidate, ReplayOperation
<1>6. ASSUME NEW q, NEW good, NEW bad, Moved(r, good), Moved(r, bad),
             Send(w, q, Move(w, good), Move(w, bad))
      PROVE  OneMoves(w)
  BY <1>1, <1>6, SendMoves DEF OneMoves
<1>7. ASSUME NEW q, NEW ok \in Phase, NEW exc \in Phase,
             \/ r.pc \in BeforeScan
             \/ ok \in Elsewhere /\ exc \in Elsewhere,
             Send(w, q, Goto(w, ok), Goto(w, exc))
      PROVE  OneMoves(w)
  <2>1. Moved(r, [r EXCEPT !.pc = ok]) /\ Moved(r, [r EXCEPT !.pc = exc])
    BY <1>7, GotoMoves
  <2>2. Send(w, q, Move(w, [r EXCEPT !.pc = ok]), Move(w, [r EXCEPT !.pc = exc]))
    BY <1>1, <1>7 DEF Send, Answered, Unanswered, Goto
  <2> QED BY <1>6, <2>1, <2>2
<1>8. CASE SendClaim(w)
  BY <1>1, <1>2, <1>7, <1>8 DEF SendClaim, BeforeScan
<1>9. CASE SendRecord(w)
  <2>1. PICK k \in r.todo :
          Send(w, [kind |-> "write", plan |-> r.plan, key |-> k],
               Move(w, [r EXCEPT !.todo = @ \ {k}]), Goto(w, "rewrite"))
    BY <1>1, <1>9 DEF SendRecord, First
  <2>2. r.pc \in BeforeScan
    BY <1>1, <1>9 DEF SendRecord, BeforeScan
  <2>3. Moved(r, [r EXCEPT !.pc = "rewrite"])
    BY <1>2, <2>2, GotoMoves
  <2>4. Moved(r, [r EXCEPT !.todo = @ \ {k}])
    <3>1. PICK n : n = [r EXCEPT !.todo = @ \ {k}]
      OBVIOUS
    <3>2. n.cursor = r.cursor /\ n.pages = r.pages /\ n.seen = r.seen /\ n.plan = r.plan
      BY <3>1 DEF Invocation
    <3>3. Moved(r, n)
      BY <2>2, <3>2 DEF Moved
    <3> QED BY <3>1, <3>3
  <2>5. Send(w, [kind |-> "write", plan |-> r.plan, key |-> k],
             Move(w, [r EXCEPT !.todo = @ \ {k}]), Move(w, [r EXCEPT !.pc = "rewrite"]))
    BY <1>1, <2>1 DEF Send, Answered, Unanswered, Goto
  <2> QED BY <1>6, <2>3, <2>4, <2>5
<1>10. CASE SendSeal(w)
  BY <1>1, <1>2, <1>7, <1>10 DEF SendSeal, BeforeScan
<1>11. CASE SendValidation(w)
  BY <1>1, <1>2, <1>7, <1>11 DEF SendValidation
<1>12. CASE SendActivation(w)
  <2> DEFINE done == [Idle EXCEPT !.pc = "done", !.call = r.call, !.plan = r.plan,
                                  !.expected = r.expected]
  <2>1. Moved(r, done) /\ Moved(r, [r EXCEPT !.pc = "recheck"])
    BY <1>2, IdleMoves, GotoMoves
  <2>2. Send(w, [kind |-> "activate", plan |-> r.plan, expected |-> r.expected],
             Move(w, done), Move(w, [r EXCEPT !.pc = "recheck"]))
    BY <1>1, <1>12 DEF SendActivation, Send, Answered, Unanswered, Goto, Return
  <2> QED BY <1>6, <2>1, <2>2
<1> QED BY <1>3, <1>4, <1>5, <1>8, <1>9, <1>10, <1>11, <1>12, ScanPageMoves
        DEF WorkerStep

LEMMA SomeoneMoves ==
  ASSUME IInv, [Next]_vars, NEW w \in Worker
  PROVE  Moved(worker[w], worker'[w]) \/ ReadAnother(worker[w], worker'[w])
<1>1. worker \in [Worker -> Invocation]
  BY DEF IInv, TypeOK
<1>2. Moved(worker[w], worker[w])
  BY DEF Moved
<1>3. CASE UNCHANGED worker
  BY <1>2, <1>3
<1>4. ASSUME NEW x \in Worker, OneMoves(x)
      PROVE  Moved(worker[w], worker'[w]) \/ ReadAnother(worker[w], worker'[w])
  <2>1. CASE x = w
    BY <1>4, <2>1 DEF OneMoves
  <2>2. CASE x # w
    BY <1>2, <1>4, <2>2 DEF OneMoves
  <2> QED BY <2>1, <2>2
<1>5. ASSUME NEW x \in Worker, NEW call \in {"materialize", "records", "activate"},
             NEW p \in Plan, NEW e, Start(x, call, p, e)
      PROVE  OneMoves(x)
  <2>1. PICK n : n = [Idle EXCEPT !.pc = Entry[call], !.call = call, !.plan = p,
                        !.expected = e,
                        !.todo = IF call = "materialize" THEN Planned(p) ELSE {}]
    OBVIOUS
  <2>2. n.plan = p /\ n.cursor = 0 /\ n.pages = 0 /\ n.seen = {}
    BY <2>1 DEF Idle
  <2>3. Move(x, n)
    BY <1>5, <2>1 DEF Start
  <2>4. Moved(worker[x], n)
    BY <2>2 DEF Moved, AtStart
  <2> QED BY <1>1, <2>3, <2>4, MoveMoves
<1>6. CASE \E x \in Worker : Call(x)
  BY <1>4, <1>5, <1>6 DEF Call, CallMaterialize, CallRecords, CallActivate
<1>7. CASE \E x \in Worker : WorkerStep(x)
  BY <1>4, <1>7, WorkerMoves
<1>8. CASE \E x \in Worker : Die(x)
  BY <1>1, <1>4, <1>8, RaiseMoves DEF Die
<1>9. CASE \/ \E r \in network : Arrive(r)
           \/ \E g \in Generation, k \in Key : Expire(g, k)
           \/ UNCHANGED vars
  BY <1>3, <1>9 DEF Arrive, Expire, vars
<1> QED BY <1>6, <1>7, <1>8, <1>9 DEF Next

LEMMA NextScans ==
  ASSUME IInv, IInv', ScanInv, [Next]_vars
  PROVE  ScanInv'
<1>1. IsFiniteSet(Held) /\ IsFiniteSet(Held') /\ Progress
  BY HeldIsFinite, NextIsProgress DEF ScanInv
<1>2. ASSUME NEW w \in Worker
      PROVE  ScanOK(worker[w])'
  <2>1. PICK r \in Invocation : r = worker[w] /\ InvocationOK(r)
    BY AtWork
  <2>2. PICK n \in Invocation : n = worker'[w]
    BY DEF IInv, TypeOK
  <2>3. Moved(r, n) \/ ReadAnother(r, n)
    <3>1. Moved(worker[w], worker'[w]) \/ ReadAnother(worker[w], worker'[w])
      BY SomeoneMoves
    <3> QED BY <2>1, <2>2, <3>1
  <2>4. ScanOK(r) /\ (r.pc \in BeforeScan \union {"page"} => r.plan \in Plan)
    BY <2>1 DEF ScanInv, InvocationOK, BeforeScan
  <2>5. ScanOK(n) /\ (n.pc = "page" => n.plan \in Plan)
    <3>1. CASE n = r
      BY <2>4, <3>1
    <3>2. CASE AtStart(n) /\ (n.pc = "page" => n.plan \in Plan)
      BY <1>1, <3>2, ScanStarts
    <3>3. CASE n.pc \in Elsewhere
      BY <3>3 DEF Elsewhere, ScanOK
    <3>4. CASE /\ r.pc \in BeforeScan
               /\ n.cursor = r.cursor /\ n.pages = r.pages /\ n.seen = r.seen
               /\ n.plan = r.plan
      <4>1. AtStart(n) /\ n.plan \in Plan
        BY <2>4, <3>4 DEF ScanOK, AtStart
      <4> QED BY <1>1, <4>1, ScanStarts
    <3>5. CASE ReadAnother(r, n)
      <4>1. Scanning(r) /\ r.plan \in Plan /\ n.plan = r.plan /\ n.pc = "page"
        BY <2>4, <3>5 DEF ScanOK, ReadAnother
      <4>2. Scanning(n)
        BY <1>1, <3>5, <4>1, ScanContinues DEF ReadAnother
      <4> QED BY <4>1, <4>2 DEF ScanOK, BeforeScan
    <3> QED BY <2>3, <3>1, <3>2, <3>3, <3>4, <3>5 DEF Moved
  <2>6. ScanOK(n)'
    BY <1>1, <2>5, ScanPersists
  <2> QED BY <2>2, <2>6 DEF ScanOK, Scanning, AtStart, Beyond, Owned, Planned, Passed
<1> QED BY <1>1, <1>2 DEF ScanInv

LEMMA InitScans == Init => ScanInv
<1> SUFFICES ASSUME Init PROVE ScanInv
  OBVIOUS
<1>1. Held = {}
  BY DEF Init, Held, Occupied
<1>2. \A w \in Worker : worker[w] = Idle
  BY DEF Init
<1>3. ScanOK(Idle)
  BY DEF ScanOK, Idle, BeforeScan
<1> QED BY <1>1, <1>2, <1>3, FS_EmptySet DEF ScanInv

(* A scan fails for lack of something, never by its own doing: of a sealed *)
(* generation of its plan all of whose records are there it misses none,   *)
(* and it gives up its page budget only where the table held as many items *)
(* as the budget pays for (DynamoOnlineRuntime.records).                   *)
THEOREM ScanHolds == Spec => ScanNeverSpurious
<1> DEFINE Fair(w) ==
      LET p == worker[w].plan IN
      (worker[w].pc = "page" /\ worker'[w].pc = "failed") =>
        \/ ~Mine(w) \/ StateOf(w) = "WRITING"
        \/ \E k \in Planned(p) : Deleted(PlanGen[p], k, OwnerState)
        \/ Cardinality(Held) >= PageLimit * (Cardinality(Planned(p)) + 2)
<1>1. ASSUME IInv, ScanInv, NEW w \in Worker, ScanPage(w)
      PROVE  Fair(w)
  <2>1. PICK r \in Invocation : r = worker[w] /\ InvocationOK(r)
    BY <1>1, AtWork
  <2>2. /\ r.pc = "page" /\ r.plan \in Plan /\ Scanning(r) /\ IsFiniteSet(Held)
        /\ r.cursor \in Nat /\ r.pages \in Nat
    BY <1>1, <2>1 DEF ScanPage, InvocationOK, ScanInv, ScanOK, Invocation
  <2> SUFFICES ASSUME Mine(w), StateOf(w) # "WRITING", worker'[w].pc = "failed",
                      ~ \E k \in Planned(r.plan) : Deleted(PlanGen[r.plan], k, OwnerState)
               PROVE  Cardinality(Held) >= PageLimit * (Cardinality(Planned(r.plan)) + 2)
    BY <2>1
  <2>3. Beyond(r.plan)
    BY <1>1, <2>1, <2>2, MineIs
  <2>4. \A k \in Mined(r) : item[PlanGen[r.plan]][k] = PlanRows[r.plan][k]
    BY <1>1, <2>2, <2>3, MinedIsPlanned
  <2>5. ASSUME Cardinality(Page(r.cursor)) < PageLimit
        PROVE  r.seen \union Mined(r) = Planned(r.plan)
    <3>1. ASSUME NEW k \in Planned(r.plan)
          PROVE  k \in r.seen \union Mined(r)
      <4>1. /\ k \in Key /\ item[PlanGen[r.plan]][k] # Absent
            /\ Slot[PlanGen[r.plan]][k] \in Nat
        <5>1. Wrote(r.plan, k) /\ k \in Key
          BY <1>1, <2>2, <2>3, <3>1, SealedWasWritten, PlanTypes DEF IInv
        <5> QED BY <2>2, <3>1, <5>1, PlanTypes, PlanAssumption DEF Wrote, Kept, Planned
      <4>2. PICK cursor \in Nat : cursor = Slot[PlanGen[r.plan]][k]
        BY <4>1
      <4>3. Page(r.cursor) = After(r.cursor) /\ Slot[PlanGen[r.plan]][k] <= cursor
        BY <2>2, <2>5, <4>2, PageIs
      <4> QED BY <2>2, <4>1, <4>3, NothingIsSkipped
    <3>2. \A k \in Mined(r) : k \in Planned(r.plan)
      BY <1>1, <2>2, <2>3, MinedIsPlanned
    <3> QED BY <2>2, <3>1, <3>2 DEF Scanning
  <2>6. worker \in [Worker -> Invocation]
    BY <1>1 DEF IInv, TypeOK
  <2>7. ~ AfterScan(w) /\ ~ Continue(w, Page(r.cursor), r.seen \union Mined(r))
    <3>1. ASSUME NEW n, Move(w, n), n.pc # "failed"
          PROVE  FALSE
      BY <2>6, <3>1 DEF Move
    <3>2. /\ [r EXCEPT !.pc = "validate"].pc = "validate"
          /\ \A a, b, c : [Idle EXCEPT !.pc = "done", !.call = a, !.plan = b,
                                       !.expected = c].pc = "done"
      BY DEF Invocation, Idle
    <3>3. r.call \in {"materialize", "records"}
      BY <2>1, <2>2 DEF InvocationOK
    <3>4. ~ AfterScan(w)
      BY <2>1, <3>1, <3>2, <3>3 DEF AfterScan, Goto, Return
    <3>5. ASSUME Continue(w, Page(r.cursor), r.seen \union Mined(r))
          PROVE  FALSE
      <4>1. PICK gk \in Page(r.cursor) :
              Move(w, [r EXCEPT !.pages = @ + 1, !.seen = r.seen \union Mined(r),
                                !.cursor = SlotOf(gk)])
        BY <2>1, <3>5 DEF Continue
      <4>2. PICK n : n = [r EXCEPT !.pages = @ + 1, !.seen = r.seen \union Mined(r),
                                   !.cursor = SlotOf(gk)]
        OBVIOUS
      <4>3. n.pc = "page"
        BY <2>2, <4>2 DEF Invocation
      <4> QED BY <3>1, <4>1, <4>2, <4>3
    <3> QED BY <3>4, <3>5
  <2>8. /\ ~ (Cardinality(Page(r.cursor)) < PageLimit)
        /\ r.pages + 1 = Cardinality(Planned(r.plan)) + 2
    BY <1>1, <2>1, <2>4, <2>5, <2>7 DEF ScanPage, Mined
  <2>9. Passed(r.cursor) \union Page(r.cursor) \subseteq Held
    BY <2>2, PageIs DEF Passed, After, Held
  <2>10. PageLimit * (r.pages + 1) <= Cardinality(Held)
    BY <2>2, <2>8, <2>9, FullPage DEF Scanning
  <2>11. Cardinality(Held) \in Nat /\ PageLimit * (r.pages + 1) \in Nat
    BY <2>2, FS_CardinalityType, PlanAssumption
  <2> QED BY <2>8, <2>10, <2>11
<1>2. ASSUME IInv, ScanInv, [Next]_vars, NEW w \in Worker
      PROVE  Fair(w)
  <2> SUFFICES ASSUME worker[w].pc = "page", worker'[w].pc = "failed", ~ ScanPage(w)
               PROVE  FALSE
    BY <1>1, <1>2
  <2>1. worker \in [Worker -> Invocation] /\ worker'[w] # worker[w]
    BY <1>2 DEF IInv, TypeOK
  <2>2. ASSUME NEW x \in Worker, x # w, \E n : Move(x, n)
        PROVE  FALSE
    BY <2>1, <2>2 DEF Move
  <2>3. CASE \E x \in Worker : Call(x)
    BY <2>2, <2>3 DEF Call, CallMaterialize, CallRecords, CallActivate, Start
  <2>4. CASE \E x \in Worker : WorkerStep(x)
    <3>1. PICK x \in Worker : WorkerStep(x)
      BY <2>4
    <3>2. x = w
      BY <1>2, <2>1, <3>1, WorkerMoves DEF OneMoves
    <3> QED BY <3>1, <3>2 DEF WorkerStep, ReadOwner, SendClaim, SendRecord, ExplainWrite,
               SendSeal, ConfirmSeal, SendValidation, ExplainValidation, ConfirmCandidate,
               ReplayOperation, SendActivation
  <2>5. CASE \E x \in Worker : Die(x)
    <3>1. PICK x \in Worker : Move(x, Idle)
      BY <2>5 DEF Die
    <3>2. Move(w, Idle)
      BY <2>2, <3>1
    <3>3. worker'[w] = Idle /\ Idle.pc = "idle"
      BY <2>1, <3>2 DEF Move, Idle
    <3> QED BY <3>3
  <2>6. CASE \/ \E r \in network : Arrive(r)
             \/ \E g \in Generation, k \in Key : Expire(g, k)
             \/ UNCHANGED vars
    BY <2>1, <2>6 DEF Arrive, Expire, vars
  <2> QED BY <1>2, <2>3, <2>4, <2>5, <2>6 DEF Next
<1>3. IInv /\ ScanInv /\ [Next]_vars => [\A w \in Worker : Fair(w)]_vars
  BY <1>2
<1>4. Spec => []ScanInv
  BY InitScans, NextScans, Invariance, PTL DEF Spec
<1> QED BY <1>3, <1>4, Invariance, PTL DEF Spec, ScanNeverSpurious

----------------------------------------------------------------------------
(* The refinement of Publication.                                          *)

(* A validated generation serves its plan, now and when records expire.    *)
LEMMA ServesItsPlan ==
  ASSUME TablesOK, NEW p \in Plan, OwnerIs(p, "VALIDATED")
  PROVE  Served(PlanGen[p]) = PlanRows[p]
<1> DEFINE g == PlanGen[p]
<1>1. /\ g \in Generation /\ owner[g].plan = p /\ owner[g].state = "VALIDATED"
      /\ PlanRows[p] \in [Key -> Content \union {Absent}]
  BY PlanTypes DEF OwnerIs
<1>2. ASSUME NEW k \in Key, ~Deleted(g, k, Late)
      PROVE  item[g][k] = PlanRows[p][k]
  <2>1. item[g][k] # Absent => item[g][k] = PlanRows[p][k]
    BY <1>1 DEF TablesOK, OwnerInv, OwnerOK
  <2>2. k \in Planned(p) => Read(p, k)
    BY <1>1 DEF TablesOK, OwnerInv, OwnerOK
  <2>3. k \in Planned(p) => Kept(p, k, Late)
    BY <2>2 DEF Read
  <2> QED BY <1>2, <2>1, <2>3 DEF Kept, Planned
<1>3. \A k \in Key :
        (IF Deleted(g, k, Late) THEN PlanRows[owner[g].plan][k] ELSE item[g][k])
          = PlanRows[p][k]
  BY <1>1, <1>2
<1>4. Served(g) = [k \in Key |-> PlanRows[p][k]]
  BY <1>3 DEF Served, Late
<1> QED BY <1>1, <1>4

PublishedIsPlanned ==
  \A p \in Plan : op[p] # NoOp => VisibleRows[PlanGen[p]] = PlanRows[p]

LEMMA VisibleIsThePlan == TablesOK => PublishedIsPlanned
<1> SUFFICES ASSUME TablesOK, NEW p \in Plan, op[p] # NoOp
             PROVE  VisibleRows[PlanGen[p]] = PlanRows[p]
  BY DEF PublishedIsPlanned
<1>1. OwnerIs(p, "VALIDATED") /\ Published(PlanGen[p]) /\ PlanGen[p] \in Generation
  BY PlanTypes DEF TablesOK, OperationInv, Published
<1> QED BY <1>1, ServesItsPlan DEF VisibleRows

LEMMA VisibleIsThePlanNext == TablesOK' => PublishedIsPlanned'
BY VisibleIsThePlan, PTL

(* While pointers and operations stay, a reader sees no change: records    *)
(* that expire were promised until then.                                   *)
LEMMA PublicationStutters ==
  ASSUME TablesOK, TablesOK', UNCHANGED <<ptr, op>>
  PROVE  UNCHANGED Abstract!vars
<1>1. \A g \in Generation : VisibleRows'[g] = VisibleRows[g]
  <2> SUFFICES ASSUME NEW g \in Generation PROVE VisibleRows'[g] = VisibleRows[g]
    OBVIOUS
  <2>1. Published(g)' <=> Published(g)
    BY DEF Published
  <2>2. CASE Published(g)
    <3>1. PICK p \in Plan : op[p] # NoOp /\ PlanGen[p] = g
      BY <2>2 DEF Published
    <3>2. VisibleRows[g] = PlanRows[p]
      BY <3>1, VisibleIsThePlan DEF PublishedIsPlanned
    <3>3. VisibleRows'[g] = PlanRows[p]
      BY <3>1, VisibleIsThePlanNext DEF PublishedIsPlanned
    <3> QED BY <3>2, <3>3
  <2>3. CASE ~Published(g)
    BY <2>1, <2>3 DEF VisibleRows
  <2> QED BY <2>2, <2>3
<1>2. VisibleRows' = VisibleRows
  BY <1>1 DEF VisibleRows
<1>3. PublicationLog' = PublicationLog
  BY DEF PublicationLog
<1> QED BY <1>2, <1>3 DEF Abstract!vars

(* The pointer of a feature set names only what an operation moved it to.  *)
LEMMA PointerWasMoved ==
  ASSUME TablesOK, NEW f \in FeatureSet, ptr[f].gen # NoGeneration
  PROVE  \E q \in Plan : op[q] # NoOp /\ PlanGen[q] = ptr[f].gen
<1> DEFINE at == [p \in Moves(f) |-> op[p].expected.version + 1]
<1>1. /\ {at[p] : p \in Moves(f)} = 1..ptr[f].version
      /\ \A p \in Moves(f) : at[p] = ptr[f].version => ptr[f].gen = PlanGen[p]
      /\ ptr[f].version \in Nat /\ ptr[f].version # 0
  BY DEF TablesOK, TableTypes, OperationInv, OperationsAreTheChain
<1> HIDE DEF at
<1>2. ptr[f].version \in {at[p] : p \in Moves(f)}
  BY <1>1
<1>3. PICK q \in Moves(f) : at[q] = ptr[f].version
  BY <1>2
<1> QED BY <1>1, <1>3 DEF Moves

(* A committed activation is one publication of a generation that no       *)
(* reader had seen (activate's transaction).                               *)
LEMMA ActivationPublishes ==
  ASSUME TablesOK, TablesOK', NEW p \in Plan, NEW e \in Expectation,
         ActivationTransaction(p, e)
  PROVE  Abstract!Next
<1> DEFINE f == PlanFs[p]
           g == PlanGen[p]
           v == e.version
<1>1. /\ f \in FeatureSet /\ g \in Generation /\ g # NoGeneration
      /\ OwnerIs(p, "VALIDATED") /\ ptr[f] = e /\ op[p] = NoOp
      /\ op' = [op EXCEPT ![p] = [plan |-> p, expected |-> e]]
      /\ ptr' = [ptr EXCEPT ![f] = [gen |-> g, version |-> v + 1]]
      /\ op \in [Plan -> Activation \union {NoOp}]
  BY PlanTypes, NullAssumption DEF ActivationTransaction, MayActivate, TablesOK, TableTypes
<1>2. /\ op'[p] = [plan |-> p, expected |-> e] /\ op'[p] # NoOp
      /\ \A q \in Plan \ {p} : op'[q] = op[q]
  BY <1>1, OperationAssumption DEF Activation
<1>3. ASSUME NEW q \in Plan, op[q] # NoOp
      PROVE  PlanGen[q] # g
  <2>1. OwnerIs(q, "VALIDATED") /\ q # p
    BY <1>1, <1>3 DEF TablesOK, OperationInv
  <2>2. owner[PlanGen[q]].plan = q /\ owner[g].plan = p
    BY <1>1, <2>1 DEF OwnerIs
  <2> QED BY <2>1, <2>2
<1>4. ~Published(g) /\ VisibleRows[g] = Absent
  BY <1>1, <1>3 DEF Published, VisibleRows
<1>5. e.gen # g
  BY <1>1, <1>3, PointerWasMoved
<1>6. VisibleRows'[g] = PlanRows[p]
  BY <1>2, VisibleIsThePlanNext DEF PublishedIsPlanned
<1>7. \A h \in Generation \ {g} : VisibleRows'[h] = VisibleRows[h]
  <2> SUFFICES ASSUME NEW h \in Generation \ {g} PROVE VisibleRows'[h] = VisibleRows[h]
    OBVIOUS
  <2>1. Published(h)' <=> Published(h)
    BY <1>2 DEF Published
  <2>2. CASE Published(h)
    <3>1. PICK q \in Plan : op[q] # NoOp /\ PlanGen[q] = h
      BY <2>2 DEF Published
    <3>2. op'[q] # NoOp
      BY <1>2, <3>1
    <3>3. VisibleRows[h] = PlanRows[q] /\ VisibleRows'[h] = PlanRows[q]
      BY <3>1, <3>2, VisibleIsThePlan, VisibleIsThePlanNext DEF PublishedIsPlanned
    <3> QED BY <3>3
  <2>3. CASE ~Published(h)
    BY <2>1, <2>3 DEF VisibleRows
  <2> QED BY <2>2, <2>3
<1>8. VisibleRows' = [VisibleRows EXCEPT ![g] = PlanRows[p]]
  BY <1>6, <1>7 DEF VisibleRows
<1>9. PublicationLog' = PublicationLog \union {[fs |-> f, version |-> v + 1, gen |-> g]}
  <2> DEFINE entry(q, r) ==
        [fs |-> PlanFs[q], version |-> r.expected.version + 1, gen |-> PlanGen[q]]
  <2>1. PublicationLog = {entry(q, op[q]) : q \in {s \in Plan : op[s] # NoOp}}
    BY DEF PublicationLog
  <2>2. PublicationLog' = {entry(q, op'[q]) : q \in {s \in Plan : op'[s] # NoOp}}
    BY DEF PublicationLog
  <2>3. {s \in Plan : op'[s] # NoOp} = {s \in Plan : op[s] # NoOp} \union {p}
    BY <1>1, <1>2
  <2>4. entry(p, op'[p]) = [fs |-> f, version |-> v + 1, gen |-> g]
    BY <1>2
  <2>5. \A q \in {s \in Plan : op[s] # NoOp} : entry(q, op'[q]) = entry(q, op[q])
    BY <1>1, <1>2
  <2> HIDE DEF entry
  <2> QED BY <2>1, <2>2, <2>3, <2>4, <2>5
<1>10. PlanRows[p] \in PromisedRows[f][g]
  BY <1>1 DEF PromisedRows
<1>11. Abstract!MoveHead(f, g)
  BY <1>1, <1>5, <1>9 DEF Abstract!MoveHead
<1>12. Abstract!PublishFirst(f, g)
  BY <1>4, <1>8, <1>10, <1>11 DEF Abstract!PublishFirst
<1> QED BY <1>1, <1>12 DEF Abstract!Next

(* Empty tables are an empty Publication.                                  *)
LEMMA InitRefines == Init => Abstract!Init
BY DEF Init, Abstract!Init, VisibleRows, Published, PublicationLog

LEMMA NextRefines == IInv /\ IInv' /\ [Next]_vars => [Abstract!Next]_(Abstract!vars)
<1> SUFFICES ASSUME IInv, IInv', [Next]_vars
             PROVE  Abstract!Next \/ UNCHANGED Abstract!vars
  OBVIOUS
<1>1. TablesOK /\ TablesOK'
  BY DEF IInv
<1>2. CASE UNCHANGED <<ptr, op>>
  BY <1>1, <1>2, PublicationStutters
<1>3. CASE Requested
  <2>1. PICK r \in Request : Commit(r)
    BY <1>3 DEF Requested
  <2>2. CASE r.kind = "activate" /\ ActivationTransaction(r.plan, r.expected)
    <3>1. r.plan \in Plan /\ r.expected \in Expectation
      BY <2>2 DEF Request
    <3> QED BY <1>1, <2>2, <3>1, ActivationPublishes
  <2> QED BY <1>2, <2>1, <2>2 DEF Commit, Claim, PutRecord, Seal, PutCandidateValidation
<1> QED BY <1>2, <1>3, StepTouches DEF Untouched, tables, Expire

(* DynamoOnlineRuntime, with requests that arrive late, twice or never,    *)
(* workers that die and records that expire, is a Publication: a           *)
(* generation appears once, whole, as its plan promised.                   *)
THEOREM Refinement == Spec => ImplementsPublication
BY Invariance, InitRefines, NextRefines, PTL DEF Spec, ImplementsPublication, Abstract!Spec

=============================================================================
