------------------------- MODULE OnlineStoreProofs -------------------------
(***************************************************************************)
(* Proofs about OnlineStore, for any number of plans, clients, readers,    *)
(* feature sets and operations: the inductive invariant, the safety        *)
(* invariants the runs check, and the refinement of Publication.           *)
(***************************************************************************)
EXTENDS OnlineStore, TLAPS

Admitted(p) ==
  \/ ops[PlanOp[p]] = MaterializeRow(p, "WRITING")
  \/ ops[PlanOp[p]] = MaterializeRow(p, "COMPLETED")

(* A candidate belongs to the plan that admitted it, and has a receipt     *)
(* only from VALIDATED on.                                                 *)
CandidateInv ==
  \A g \in Generation :
    /\ cand[g].state = "ABSENT" <=> cand[g].plan = NoPlan
    /\ cand[g].plan # NoPlan => PlanGen[cand[g].plan] = g /\ Admitted(cand[g].plan)
    /\ cand[g].state \in {"ABSENT", "WRITING"} => cand[g].receipt = NoPlan

(* No row was ever written but those of the admitted plan.                 *)
RowInv ==
  \A g \in Generation, k \in Key :
    rows[g][k] # Absent =>
      cand[g].plan # NoPlan /\ rows[g][k] = PlanRows[cand[g].plan][k]

(* A completed materialization left its receipt on its candidate, and only *)
(* a completed one leaves a candidate VALIDATED.                           *)
CompletedInv ==
  /\ \A p \in Plan :
       ops[PlanOp[p]] = MaterializeRow(p, "COMPLETED") => cand[PlanGen[p]].receipt = p
  /\ \A g \in Generation :
       cand[g].state \notin {"ABSENT", "WRITING"} =>
         ops[PlanOp[cand[g].plan]] = MaterializeRow(cand[g].plan, "COMPLETED")

PointerInv ==
  /\ \A f \in FeatureSet : ptr[f].gen = NoGeneration <=> ptr[f].version = 0
  /\ PointerNamesActive

Activated(o) == ops[o] # NoOp /\ ops[o].kind = "ACTIVATE"

(* History holds exactly the published generations, and every row of it    *)
(* was made by the operation it names.                                     *)
HistoryInv ==
  /\ \A h \in history :
       /\ Published(h.to)
       /\ PlanFs[cand[h.to].plan] = h.fs
       /\ Activated(h.op)
       /\ ops[h.op].result = h
  /\ \A g \in Generation : Published(g) => \E h \in history : h.to = g

(* An activation on record was performed as requested.                     *)
Performed(o) ==
  LET req == ops[o].request
      h   == ops[o].result
  IN  /\ h \in history
      /\ h.op = o
      /\ h.to = req.gen
      /\ h.from = req.expected.gen
      /\ h.version = req.expected.version + 1
      /\ cand[req.gen].receipt = req.receipt

ActivationInv == \A o \in OpId : Activated(o) => Performed(o)

StoreInv ==
  /\ CandidateInv
  /\ RowInv
  /\ CompletedInv
  /\ ReceiptIsTruth
  /\ PointerInv
  /\ HistoryInv
  /\ HistoryChain
  /\ ActivationInv

(* Every planned row outside todo is there.                                *)
Stored(p, todo) ==
  \A k \in PlannedKeys(p) \ todo : rows[PlanGen[p]][k] # Absent

(* A client inside materialize() works on an admitted candidate, and its   *)
(* list is stale only in what is on it: nothing that is off it is missing. *)
ClientInv ==
  \A c \in Client :
    /\ mat[c].pc # "idle" => cand[PlanGen[mat[c].plan]].plan = mat[c].plan
    /\ mat[c].pc = "writing" => Stored(mat[c].plan, mat[c].todo)

(* The decision on record for o is the request's, and licenses it.         *)
Licensed(o, req) ==
  LET d == decisions[o]
  IN  /\ d # NoDecision
      /\ d = req.policy
      /\ d.status = "ELIGIBLE" /\ ~d.reasons
      /\ d.gen = req.gen
      /\ d.expected = req.expected
      /\ d.receipt = req.receipt

AnswerInv ==
  /\ \A a \in answers :
       /\ Activated(a.op)
       /\ ops[a.op].request = a.request
       /\ ops[a.op].result = a.result
       /\ a.gated => Licensed(a.op, a.request)
  /\ \A p \in receipts : ops[PlanOp[p]] = MaterializeRow(p, "COMPLETED")

(* What was damaged before its publication was never published.            *)
DamageInv ==
  \A g \in Generation, k \in Key : <<g, k, FALSE>> \in damaged => ~Published(g)

ReaderInv ==
  /\ PinnedReadsConsistent
  /\ DamageInv
  /\ \A r \in Reader : reader[r].result # NoResult => reader[r].token # NoToken

IInv == TypeOK /\ StoreInv /\ ClientInv /\ AnswerInv /\ ReaderInv

----------------------------------------------------------------------------

(* Initially nothing is stored, answered or pinned.                        *)
LEMMA InitIInv == Init => IInv
<1> SUFFICES ASSUME Init PROVE IInv
  OBVIOUS
<1> USE DEF Init
<1>1. TypeOK
  BY NullAssumption DEF TypeOK, Candidate, Pointer, GenerationOrNone
<1>2. StoreInv
  <2>1. CandidateInv /\ RowInv /\ ReceiptIsTruth
    BY DEF CandidateInv, RowInv, ReceiptIsTruth
  <2>2. CompletedInv
    BY NullAssumption, PlanAssumption DEF CompletedInv, MaterializeRow, MaterializeOp
  <2>3. PointerInv /\ HistoryInv /\ HistoryChain
    BY DEF PointerInv, PointerNamesActive, HistoryInv, HistoryChain, Published
  <2>4. ActivationInv
    BY DEF ActivationInv, Activated
  <2> QED BY <2>1, <2>2, <2>3, <2>4 DEF StoreInv
<1>3. ClientInv /\ AnswerInv /\ ReaderInv
  BY DEF ClientInv, AnswerInv, ReaderInv, PinnedReadsConsistent, DamageInv
<1> QED BY <1>1, <1>2, <1>3 DEF IInv

----------------------------------------------------------------------------
(* Steps of a client or a reader that leave the tables alone.              *)

(* What the tables satisfy, a step that leaves the tables alone keeps.     *)
LEMMA StoreFrame ==
  ASSUME StoreInv, UNCHANGED store PROVE StoreInv'
<1> USE DEF store
<1>1. CandidateInv' /\ RowInv' /\ CompletedInv' /\ ReceiptIsTruth'
  BY DEF StoreInv, CandidateInv, RowInv, CompletedInv, ReceiptIsTruth, Admitted
<1>2. PointerInv' /\ HistoryInv' /\ HistoryChain'
  BY DEF StoreInv, PointerInv, PointerNamesActive, HistoryInv, HistoryChain, Published, Activated
<1>3. ActivationInv'
  BY DEF StoreInv, ActivationInv, Activated, Performed
<1> QED BY <1>1, <1>2, <1>3 DEF StoreInv

(* A client that leaves materialize(), refused or dead, disturbs nothing.  *)
LEMMA IdleStep ==
  ASSUME IInv, NEW c \in Client, mat' = Idle(c),
         UNCHANGED <<store, damaged, reader, given>>, crashes' \in Nat
  PROVE  IInv'
<1>1. TypeOK'
  BY DEF IInv, TypeOK, Idle, store, given
<1>2. StoreInv'
  BY StoreFrame DEF IInv
<1>3. ClientInv'
  BY DEF IInv, TypeOK, ClientInv, Stored, Idle, store
<1>4. AnswerInv' /\ ReaderInv'
  BY DEF IInv, AnswerInv, Activated, Licensed, ReaderInv, PinnedReadsConsistent,
         DamageInv, Published, Moved, AnsweredAsPlanned, store, given
<1> QED BY <1>1, <1>2, <1>3, <1>4 DEF IInv

(* A replayed materialization returns a receipt that is on record          *)
(* (begin_materialization).                                                *)
LEMMA ReplayMaterializationStep ==
  ASSUME IInv, NEW c \in Client, NEW p \in Plan, ReplayMaterialization(c, p)
  PROVE  IInv'
<1> USE DEF ReplayMaterialization
<1>1. TypeOK'
  BY DEF IInv, TypeOK, store
<1>2. StoreInv'
  BY StoreFrame DEF IInv
<1>3. ClientInv' /\ AnswerInv' /\ ReaderInv'
  BY DEF IInv, ClientInv, Stored, AnswerInv, Activated, Licensed, ReaderInv, PinnedReadsConsistent,
         DamageInv, Published, Moved, AnsweredAsPlanned, store
<1> QED BY <1>1, <1>2, <1>3 DEF IInv

(* Listing the missing records keeps the client on its admitted plan       *)
(* (missing_records).                                                      *)
LEMMA ListMissingStep ==
  ASSUME IInv, NEW c \in Client, ListMissing(c)
  PROVE  IInv'
<1> USE DEF ListMissing
<1>1. TypeOK'
  BY DEF IInv, TypeOK, store, given, Missing, PlannedKeys
<1>2. StoreInv'
  BY StoreFrame DEF IInv
<1>3. ClientInv'
  <2>1. /\ \A d \in Client \ {c} : mat'[d] = mat[d]
        /\ mat'[c].plan = mat[c].plan /\ mat[c].pc # "idle"
        /\ Stored(mat'[c].plan, mat'[c].todo)
    BY DEF IInv, TypeOK, Stored, Missing
  <2> QED BY <2>1 DEF IInv, ClientInv, Stored, store
<1>4. AnswerInv' /\ ReaderInv'
  BY DEF IInv, AnswerInv, Activated, Licensed, ReaderInv, PinnedReadsConsistent,
         DamageInv, Published, Moved, AnsweredAsPlanned, store, given
<1> QED BY <1>1, <1>2, <1>3, <1>4 DEF IInv

(* A damaged body may make reads CORRUPT_RECORD, and nothing else (read).  *)
LEMMA DamageStep ==
  ASSUME IInv, NEW g \in Generation, NEW k \in Key, Damage(g, k)
  PROVE  IInv'
<1> USE DEF Damage
<1>1. TypeOK'
  <2>1. Published(g) \in BOOLEAN
    BY DEF Published
  <2>2. <<g, k, Published(g)>> \in Generation \X Key \X BOOLEAN
    <3> DEFINE served == Published(g)
    <3>1. served \in BOOLEAN
      BY <2>1
    <3> HIDE DEF served
    <3>2. <<g, k, served>> \in Generation \X Key \X BOOLEAN
      BY <3>1
    <3> QED BY <3>2 DEF served
  <2>3. damaged' \subseteq Generation \X Key \X BOOLEAN
    BY <2>2, Zenon DEF IInv, TypeOK
  <2> QED BY <2>3 DEF IInv, TypeOK, store, given
<1>2. StoreInv'
  BY StoreFrame DEF IInv
<1>3. ClientInv' /\ AnswerInv'
  BY DEF IInv, ClientInv, Stored, AnswerInv, Activated, Licensed, store, given
<1>4. PinnedReadsConsistent'
  BY DEF IInv, ReaderInv, PinnedReadsConsistent, Moved, AnsweredAsPlanned, store
<1>5. DamageInv'
  <2> SUFFICES ASSUME NEW h \in Generation, NEW j \in Key, <<h, j, FALSE>> \in damaged'
               PROVE  ~Published(h)
    BY DEF DamageInv, Published, store
  <2>1. CASE <<h, j, FALSE>> \in damaged
    BY <2>1 DEF IInv, ReaderInv, DamageInv
  <2>2. CASE <<h, j, FALSE>> = <<g, k, Published(g)>>
    BY <2>2
  <2> QED BY <2>1, <2>2
<1>6. ReaderInv'
  BY <1>4, <1>5 DEF IInv, ReaderInv
<1> QED BY <1>1, <1>2, <1>3, <1>6 DEF IInv

(* A replayed activation returns the result that is on record (activate).  *)
LEMMA ReplayActivationStep ==
  ASSUME IInv, NEW o \in OpId, NEW req \in Request, NEW gated \in BOOLEAN,
         ReplayActivation(o, req, gated), gated => Licensed(o, req)
  PROVE  IInv'
<1> USE DEF ReplayActivation, SameRequest, Answer
<1>1. ops[o] \in ActivateOp
  BY DEF IInv, TypeOK, MaterializeOp
<1>2. TypeOK'
  BY <1>1 DEF IInv, TypeOK, store, ActivateOp
<1>3. StoreInv'
  BY StoreFrame DEF IInv
<1>4. ClientInv' /\ ReaderInv'
  BY DEF IInv, ClientInv, Stored, ReaderInv, PinnedReadsConsistent,
         DamageInv, Published, Moved, AnsweredAsPlanned, store
<1>5. AnswerInv'
  BY DEF IInv, AnswerInv, Activated, Licensed, store
<1> QED BY <1>2, <1>3, <1>4, <1>5 DEF IInv

----------------------------------------------------------------------------
(* Steps of a reader.                                                      *)

(* A step of a reader reads what it does not change: what it answers may   *)
(* be judged against the tables before the step (pin_reader, read).        *)
LEMMA ReaderOnlyStep ==
  ASSUME ReaderInv, UNCHANGED <<history, cand, damaged>>,
         \A q \in Reader :
           /\ reader'[q].token # NoToken => Moved(reader'[q].token)
           /\ reader'[q].result # NoResult =>
                /\ AnsweredAsPlanned(reader'[q].token, reader'[q].result)
                /\ reader'[q].token # NoToken
  PROVE  ReaderInv'
BY Zenon DEF ReaderInv, PinnedReadsConsistent, DamageInv, Published, Moved, AnsweredAsPlanned

(* A pinned token is a move that was really made (pin_reader).             *)
LEMMA PinReaderStep ==
  ASSUME IInv, NEW r \in Reader, NEW f \in FeatureSet, PinReader(r, f)
  PROVE  IInv'
<1> USE DEF PinReader
<1>1. ptr[f] \in Pointer /\ ptr[f].gen \in Generation
  BY DEF IInv, TypeOK, Pointer, GenerationOrNone
<1>2. reader'[r].token \in Token /\ reader'[r].token # NoToken
  BY <1>1, NullAssumption DEF Token, Pointer, IInv, TypeOK
<1>3. TypeOK'
  BY <1>2 DEF IInv, TypeOK, store, given
<1>4. StoreInv'
  BY StoreFrame DEF IInv
<1>5. ClientInv' /\ AnswerInv'
  BY DEF IInv, ClientInv, Stored, AnswerInv, Activated, Licensed, store, given
<1>6. \E h \in history : h.fs = f /\ h.version = ptr[f].version /\ h.to = ptr[f].gen
  <2>1. ptr[f].version \in 1 .. ptr[f].version
    BY <1>1, NullAssumption DEF IInv, StoreInv, PointerInv, Pointer
  <2>2. PICK h \in history : h.fs = f /\ h.version = ptr[f].version
    BY <2>1 DEF IInv, StoreInv, HistoryChain
  <2> QED BY <2>2 DEF IInv, StoreInv, HistoryChain
<1>7. ReaderInv'
  <2>1. history' = history /\ cand' = cand /\ damaged' = damaged
    BY DEF store
  <2>2. /\ reader'[r].token = [fs |-> f, gen |-> ptr[f].gen, version |-> ptr[f].version]
        /\ reader'[r].result = NoResult
        /\ \A q \in Reader \ {r} : reader'[q] = reader[q]
    BY DEF IInv, TypeOK
  <2>3. ASSUME NEW q \in Reader
        PROVE  /\ reader'[q].token # NoToken => Moved(reader'[q].token)
               /\ reader'[q].result # NoResult =>
                    /\ AnsweredAsPlanned(reader'[q].token, reader'[q].result)
                    /\ reader'[q].token # NoToken
    <3>1. CASE q = r
      BY <1>6, <2>2, <3>1 DEF Moved
    <3>2. CASE q # r
      BY <2>2, <3>2 DEF IInv, ReaderInv, PinnedReadsConsistent
    <3> QED BY <3>1, <3>2
  <2> QED BY <2>1, <2>3, ReaderOnlyStep DEF IInv
<1> QED BY <1>3, <1>4, <1>5, <1>7 DEF IInv

(* The generation a reader pinned is published, for the feature set it     *)
(* pinned it for, and its rows are all the rows of its plan.               *)
LEMMA PinnedIsPublished ==
  ASSUME IInv, NEW r \in Reader, reader[r].token # NoToken
  PROVE  LET t == reader[r].token
         IN  /\ t \in Token
             /\ Published(t.gen)
             /\ cand[t.gen].plan \in Plan
             /\ PlanFs[cand[t.gen].plan] = t.fs
             /\ rows[t.gen] = PlanRows[cand[t.gen].plan]
<1> DEFINE t == reader[r].token
<1>1. t \in Token
  BY DEF IInv, TypeOK
<1>2. PICK h \in history : h.fs = t.fs /\ h.to = t.gen
  BY DEF IInv, ReaderInv, PinnedReadsConsistent, Moved
<1>3. Published(t.gen) /\ PlanFs[cand[t.gen].plan] = t.fs
  BY <1>2 DEF IInv, StoreInv, HistoryInv
<1>4. cand[t.gen].plan \in Plan /\ rows[t.gen] = PlanRows[cand[t.gen].plan]
  BY <1>1, <1>3 DEF IInv, StoreInv, ReceiptIsTruth, Published, Token
<1> QED BY <1>1, <1>3, <1>4

(* The first SELECT never finds a pinned generation unavailable (read).    *)
LEMMA SelectCandidateStep ==
  ASSUME IInv, NEW r \in Reader, NEW k \in Key, SelectCandidate(r, k)
  PROVE  IInv'
<1> DEFINE t == reader[r].token
           next == [phase |-> "selected", token |-> t, key |-> k, result |-> NoResult]
<1>1. t # NoToken
  BY DEF IInv, TypeOK, SelectCandidate
<1>2. t \in Token /\ Published(t.gen) /\ PlanFs[cand[t.gen].plan] = t.fs
  BY <1>1, PinnedIsPublished
<1>3. reader' = [reader EXCEPT ![r] = next] /\ UNCHANGED <<store, damaged, mat, crashes, given>>
  BY <1>2 DEF Published, ReadableStates, SelectCandidate
<1>4. TypeOK'
  <2>1. reader' \in [Reader -> [phase: {"new", "pinned", "selected"},
                                token: Token \union {NoToken}, key: Key \union {NoKey},
                                result: Result \union {NoResult}]]
    BY <1>2, <1>3 DEF IInv, TypeOK
  <2>2. next.token # NoToken /\ next.key # NoKey /\ next.result = NoResult
    BY <1>1, NullAssumption
  <2> QED BY <1>3, <2>1, <2>2 DEF IInv, TypeOK, store, given
<1>5. StoreInv'
  BY <1>3, StoreFrame DEF IInv
<1>6. ClientInv' /\ AnswerInv'
  BY <1>3 DEF IInv, ClientInv, Stored, AnswerInv, Activated, Licensed, store, given
<1>7. ReaderInv'
  <2>1. reader'[r].token = t /\ reader'[r].result = NoResult
    BY <1>3 DEF IInv, TypeOK
  <2>2. \A q \in Reader \ {r} : reader'[q] = reader[q]
    BY <1>3 DEF IInv, TypeOK
  <2>3. UNCHANGED <<cand, history, damaged>>
    BY <1>3 DEF store
  <2>4. \E h \in history : h.fs = t.fs /\ h.version = t.version /\ h.to = t.gen
    BY <1>1 DEF IInv, ReaderInv, PinnedReadsConsistent, Moved
  <2>5. PinnedReadsConsistent'
    <3> SUFFICES ASSUME NEW q \in Reader
                 PROVE  (/\ reader[q].token # NoToken => Moved(reader[q].token)
                         /\ reader[q].result # NoResult =>
                              AnsweredAsPlanned(reader[q].token, reader[q].result))'
      BY DEF PinnedReadsConsistent
    <3>1. CASE q = r
      BY <3>1, <2>1, <2>3, <2>4 DEF Moved
    <3>2. CASE q # r
      <4>1. /\ reader[q].token # NoToken => Moved(reader[q].token)
            /\ reader[q].result # NoResult =>
                 AnsweredAsPlanned(reader[q].token, reader[q].result)
        BY DEF IInv, ReaderInv, PinnedReadsConsistent
      <4>2. reader'[q] = reader[q]
        BY <2>2, <3>2
      <4> QED BY <2>3, <4>1, <4>2 DEF Moved, AnsweredAsPlanned
    <3> QED BY <3>1, <3>2
  <2>6. DamageInv'
    BY <2>3 DEF IInv, ReaderInv, DamageInv, Published
  <2> QED BY <2>1, <2>2, <2>5, <2>6 DEF IInv, ReaderInv
<1> QED BY <1>4, <1>5, <1>6, <1>7 DEF IInv

(* The second SELECT answers what the plan of the generation says (read).  *)
LEMMA SelectRowStep ==
  ASSUME IInv, NEW r \in Reader, SelectRow(r)
  PROVE  IInv'
<1> DEFINE t == reader[r].token
           k == reader[r].key
           planned == PlanRows[cand[t.gen].plan][k]
<1>1. t # NoToken /\ k \in Key /\ reader[r].phase = "selected"
  BY DEF IInv, TypeOK, SelectRow
<1>2. t \in Token /\ cand[t.gen].plan \in Plan /\ rows[t.gen] = PlanRows[cand[t.gen].plan]
  BY <1>1, PinnedIsPublished
<1>3. planned \in Content \union {Absent} /\ rows[t.gen][k] = planned
  BY <1>1, <1>2, PlanAssumption
<1>4. PICK status \in RowStatuses(t.gen, k) :
        reader' = [reader EXCEPT ![r] =
          [phase |-> "pinned", token |-> t, key |-> NoKey,
           result |-> [status |-> status, gen |-> t.gen, key |-> k,
                       content |-> IF status = "FOUND" THEN planned ELSE Absent]]]
  BY <1>3 DEF SelectRow, ReadResult
<1>5. /\ status \in Statuses \ {"GENERATION_UNAVAILABLE"}
      /\ status = "ABSENT" <=> planned = Absent
      /\ status = "CORRUPT_RECORD" => <<t.gen, k, TRUE>> \in damaged
  <2>1. <<t.gen, k, FALSE>> \notin damaged
    BY <1>1, <1>2, PinnedIsPublished DEF IInv, ReaderInv, DamageInv, Token
  <2>2. Damaged(t.gen, k) => <<t.gen, k, TRUE>> \in damaged
    BY <2>1, Zenon DEF Damaged
  <2> QED BY <1>3, <2>2 DEF RowStatuses, Statuses
<1>6. TypeOK'
  <2>1. reader'[r].result \in Result
    BY <1>1, <1>2, <1>3, <1>4, <1>5 DEF Result, Token, IInv, TypeOK
  <2>2. reader'[r].result.status = "FOUND" <=> reader'[r].result.content \in Content
    BY <1>1, <1>3, <1>4, <1>5, NullAssumption DEF IInv, TypeOK
  <2> QED BY <1>1, <1>2, <1>4, <2>1, <2>2
             DEF IInv, TypeOK, store, given, SelectRow
<1>7. StoreInv'
  BY StoreFrame DEF IInv, SelectRow
<1>8. ClientInv' /\ AnswerInv'
  BY DEF IInv, ClientInv, Stored, AnswerInv, Activated, Licensed, store, given, SelectRow
<1>9. ReaderInv'
  <2> DEFINE answer == [status |-> status, gen |-> t.gen, key |-> k,
                        content |-> IF status = "FOUND" THEN planned ELSE Absent]
  <2>1. history' = history /\ cand' = cand /\ damaged' = damaged
    BY DEF SelectRow, store
  <2>2. /\ reader'[r].token = t
        /\ reader'[r].result = answer
        /\ \A q \in Reader \ {r} : reader'[q] = reader[q]
    BY <1>4 DEF IInv, TypeOK
  <2>3. AnsweredAsPlanned(t, answer)
    BY <1>5 DEF AnsweredAsPlanned
  <2>4. ASSUME NEW q \in Reader
        PROVE  /\ reader'[q].token # NoToken => Moved(reader'[q].token)
               /\ reader'[q].result # NoResult =>
                    /\ AnsweredAsPlanned(reader'[q].token, reader'[q].result)
                    /\ reader'[q].token # NoToken
    <3>1. CASE q = r
      BY <1>1, <2>2, <2>3, <3>1 DEF IInv, ReaderInv, PinnedReadsConsistent
    <3>2. CASE q # r
      BY <2>2, <3>2 DEF IInv, ReaderInv, PinnedReadsConsistent
    <3> QED BY <3>1, <3>2
  <2> QED BY <2>1, <2>4, ReaderOnlyStep DEF IInv
<1> QED BY <1>6, <1>7, <1>8, <1>9 DEF IInv

----------------------------------------------------------------------------
(* Steps of materialize() that write the tables.                           *)

(* Readers depend only on the plans of published generations.              *)
LEMMA ReaderFrame ==
  ASSUME IInv, UNCHANGED <<reader, damaged>>, history \subseteq history',
         \A g \in Generation : Published(g) => cand'[g].plan = cand[g].plan,
         \A g \in Generation : Published(g)' => Published(g) \/ Intact(g)
  PROVE  ReaderInv'
<1>1. PinnedReadsConsistent'
  <2> SUFFICES ASSUME NEW r \in Reader
               PROVE  (/\ reader[r].token # NoToken => Moved(reader[r].token)
                       /\ reader[r].result # NoResult =>
                            AnsweredAsPlanned(reader[r].token, reader[r].result))'
    BY DEF PinnedReadsConsistent
  <2>1. reader[r].token # NoToken => Moved(reader[r].token)'
    BY DEF IInv, ReaderInv, PinnedReadsConsistent, Moved
  <2>2. ASSUME reader[r].result # NoResult
        PROVE  AnsweredAsPlanned(reader[r].token, reader[r].result)'
    <3>1. AnsweredAsPlanned(reader[r].token, reader[r].result) /\ reader[r].token # NoToken
      BY <2>2 DEF IInv, ReaderInv, PinnedReadsConsistent
    <3>2. reader[r].token.gen \in Generation /\ Published(reader[r].token.gen)
      BY <3>1, PinnedIsPublished DEF Token
    <3> QED BY <3>1, <3>2 DEF AnsweredAsPlanned
  <2> QED BY <2>1, <2>2
<1>2. DamageInv'
  BY DEF IInv, ReaderInv, DamageInv, Intact, Damaged
<1> QED BY <1>1, <1>2 DEF IInv, ReaderInv

(* What was published, and how, survives a step that moves no pointer.     *)
LEMMA PublishedFrame ==
  ASSUME IInv, UNCHANGED <<ptr, history>>,
         \A g \in Generation : Published(g) => cand'[g] = cand[g],
         \A g \in Generation : Published(g)' => Published(g),
         \A o \in OpId : Activated(o) => ops'[o] = ops[o],
         \A o \in OpId : Activated(o)' => ops'[o] = ops[o]
  PROVE  PointerInv' /\ HistoryInv' /\ HistoryChain' /\ ActivationInv'
<1>1. PointerInv'
  <2>1. \A f \in FeatureSet : ptr[f].gen \in Generation \union {NoGeneration}
    BY DEF IInv, TypeOK, Pointer, GenerationOrNone
  <2>2. \A f \in FeatureSet :
          ptr[f].gen # NoGeneration => Published(ptr[f].gen) /\ cand'[ptr[f].gen] = cand[ptr[f].gen]
    BY <2>1 DEF IInv, StoreInv, PointerInv, PointerNamesActive, Published
  <2>3. \A g \in Generation : cand'[g].state = "ACTIVE" => cand'[g] = cand[g]
    BY DEF Published
  <2> QED BY <2>2, <2>3 DEF IInv, StoreInv, PointerInv, PointerNamesActive
<1>2. HistoryInv'
  <2>1. ASSUME NEW h \in history
        PROVE  /\ Published(h.to)'
               /\ PlanFs[cand'[h.to].plan] = h.fs
               /\ Activated(h.op)'
               /\ ops'[h.op].result = h
    <3>1. h.to \in Generation /\ h.op \in OpId
      BY DEF IInv, TypeOK, HistoryEntry
    <3>2. Published(h.to) /\ PlanFs[cand[h.to].plan] = h.fs /\ Activated(h.op) /\ ops[h.op].result = h
      BY DEF IInv, StoreInv, HistoryInv
    <3>3. cand'[h.to] = cand[h.to] /\ ops'[h.op] = ops[h.op]
      BY <3>1, <3>2
    <3> QED BY <3>2, <3>3 DEF Published, Activated
  <2>2. \A g \in Generation : Published(g)' => \E h \in history : h.to = g
    BY DEF IInv, StoreInv, HistoryInv
  <2> QED BY <2>1, <2>2 DEF HistoryInv
<1>3. HistoryChain'
  BY DEF IInv, StoreInv, HistoryChain
<1>4. ActivationInv'
  <2> SUFFICES ASSUME NEW o \in OpId, Activated(o)' PROVE Performed(o)'
    BY DEF ActivationInv
  <2>1. ops'[o] = ops[o] /\ Activated(o)
    BY DEF Activated
  <2>2. Performed(o)
    BY <2>1 DEF IInv, StoreInv, ActivationInv
  <2>3. ops[o].result.to \in Generation /\ Published(ops[o].result.to)
    BY <2>2 DEF Performed, IInv, TypeOK, HistoryEntry, StoreInv, HistoryInv
  <2>4. cand'[ops[o].result.to] = cand[ops[o].result.to]
    BY <2>3
  <2> QED BY <2>1, <2>2, <2>4 DEF Performed
<1> QED BY <1>1, <1>2, <1>3, <1>4

(* What was answered stays on record in a step that keeps the operations.  *)
LEMMA AnswerFrame ==
  ASSUME IInv, UNCHANGED <<answers, receipts>>,
         \A o \in OpId : Activated(o) => ops'[o] = ops[o],
         \A o \in OpId : decisions[o] # NoDecision => decisions'[o] = decisions[o],
         \A p \in Plan : ops[PlanOp[p]] = MaterializeRow(p, "COMPLETED") =>
                          ops'[PlanOp[p]] = MaterializeRow(p, "COMPLETED")
  PROVE  AnswerInv'
<1>1. ASSUME NEW a \in answers
      PROVE  (/\ Activated(a.op)
              /\ ops[a.op].request = a.request
              /\ ops[a.op].result = a.result
              /\ a.gated => Licensed(a.op, a.request))'
  <2>1. a.op \in OpId
    BY DEF IInv, TypeOK
  <2>2. /\ Activated(a.op) /\ ops[a.op].request = a.request /\ ops[a.op].result = a.result
        /\ a.gated => Licensed(a.op, a.request)
    BY DEF IInv, AnswerInv
  <2>3. ops'[a.op] = ops[a.op]
    BY <2>1, <2>2
  <2>4. Licensed(a.op, a.request) => Licensed(a.op, a.request)'
    BY <2>1, Zenon DEF Licensed
  <2> QED BY <2>2, <2>3, <2>4, Zenon DEF Activated
<1>2. \A p \in receipts : ops'[PlanOp[p]] = MaterializeRow(p, "COMPLETED")
  BY DEF IInv, AnswerInv, TypeOK
<1> QED BY <1>1, <1>2 DEF AnswerInv

(* Admitting a plan takes an operation and a candidate that are free or    *)
(* its own (begin_materialization).                                        *)
LEMMA BeginMaterializationStep ==
  ASSUME IInv, NEW c \in Client, NEW p \in Plan, BeginMaterialization(c, p)
  PROVE  IInv'
<1> DEFINE g == PlanGen[p]
           o == PlanOp[p]
           admitted == MaterializeRow(p, "WRITING")
<1>1. g \in Generation /\ o \in OpId /\ admitted \in MaterializeOp /\ p # NoPlan
  BY PlanAssumption, NullAssumption DEF MaterializeRow, MaterializeOp
<1>2. /\ ops[o] \in {NoOp, admitted}
      /\ ops' = [ops EXCEPT ![o] = admitted]
      /\ mat' = [mat EXCEPT ![c] = [pc |-> "listing", plan |-> p, todo |-> {}]]
      /\ UNCHANGED <<rows, ptr, history, decisions, damaged, crashes, reader, receipts, answers>>
  BY DEF BeginMaterialization, given
<1>3. \/ cand[g].plan = p /\ UNCHANGED cand
      \/ /\ cand[g].plan = NoPlan
         /\ cand' = [cand EXCEPT ![g] = [state |-> "WRITING", plan |-> p, receipt |-> NoPlan]]
  BY <1>1 DEF BeginMaterialization
<1>4. /\ cand \in [Generation -> Candidate]
      /\ ops \in [OpId -> MaterializeOp \union ActivateOp \union {NoOp}]
      /\ cand' \in [Generation -> Candidate]
      /\ ops' \in [OpId -> MaterializeOp \union ActivateOp \union {NoOp}]
  <2>1. /\ cand \in [Generation -> Candidate]
        /\ ops \in [OpId -> MaterializeOp \union ActivateOp \union {NoOp}]
    BY DEF IInv, TypeOK
  <2>2. [state |-> "WRITING", plan |-> p, receipt |-> NoPlan] \in Candidate
    BY DEF Candidate
  <2>3. cand' \in [Generation -> Candidate]
    BY <1>3, <2>1, <2>2
  <2> QED BY <1>1, <1>2, <2>1, <2>3
<1>5. TypeOK'
  BY <1>1, <1>2, <1>4 DEF IInv, TypeOK
<1>6. CASE cand[g].plan = p
  <2>1. UNCHANGED cand
    BY <1>1, <1>3, <1>6
  <2>2. ops[o] = admitted
    <3>1. Admitted(p)
      BY <1>1, <1>6 DEF IInv, StoreInv, CandidateInv
    <3>2. MaterializeRow(p, "COMPLETED") \notin {NoOp, admitted}
      BY NullAssumption DEF MaterializeRow, MaterializeOp
    <3> QED BY <1>2, <3>1, <3>2 DEF Admitted
  <2>3. ops' = ops
    BY <1>1, <1>2, <1>4, <2>2
  <2>4. StoreInv'
    BY <1>2, <2>1, <2>3, StoreFrame DEF IInv, store
  <2>5. ClientInv'
    <3>1. mat'[c] = [pc |-> "listing", plan |-> p, todo |-> {}]
          /\ \A d \in Client \ {c} : mat'[d] = mat[d]
      BY <1>2 DEF IInv, TypeOK
    <3> QED BY <1>1, <1>2, <1>6, <2>1, <3>1 DEF IInv, ClientInv, Stored
  <2>6. AnswerInv'
    BY <1>2, <2>3 DEF IInv, AnswerInv, Activated, Licensed
  <2>7. ReaderInv'
    BY <1>2, <2>1, ReaderFrame DEF Published
  <2> QED BY <1>5, <2>4, <2>5, <2>6, <2>7 DEF IInv
<1>7. CASE cand[g].plan = NoPlan
  <2>1. cand' = [cand EXCEPT ![g] = [state |-> "WRITING", plan |-> p, receipt |-> NoPlan]]
    BY <1>1, <1>3, <1>7
  <2>2. cand[g].state = "ABSENT" /\ cand[g].receipt = NoPlan
    BY <1>1, <1>7 DEF IInv, StoreInv, CandidateInv
  <2>3. /\ \A h \in Generation \ {g} : cand'[h] = cand[h]
        /\ cand'[g] = [state |-> "WRITING", plan |-> p, receipt |-> NoPlan]
    BY <1>1, <1>4, <2>1
  <2>4. /\ \A q \in OpId \ {o} : ops'[q] = ops[q]
        /\ ops'[o] = admitted
    BY <1>1, <1>2, <1>4
  <2>5. \A h \in Generation : Published(h) => h # g
    BY <2>2 DEF Published
  <2>6. \A q \in OpId : Activated(q) => ops'[q] = ops[q]
    BY <1>2, <2>4 DEF Activated, MaterializeRow
  <2>7. \A q \in OpId : Activated(q)' => ops'[q] = ops[q]
    BY <2>4 DEF Activated, MaterializeRow
  <2>8. \A q \in Plan : /\ Admitted(q) => Admitted(q)'
                        /\ ops[PlanOp[q]] = MaterializeRow(q, "COMPLETED") =>
                             ops'[PlanOp[q]] = MaterializeRow(q, "COMPLETED")
                        /\ ops'[PlanOp[q]] = MaterializeRow(q, "COMPLETED") =>
                             ops[PlanOp[q]] = MaterializeRow(q, "COMPLETED")
    BY <1>1, <1>2, <2>4, PlanAssumption, NullAssumption
       DEF Admitted, MaterializeRow, MaterializeOp
  <2>9. CandidateInv'
    <3> SUFFICES ASSUME NEW h \in Generation
                 PROVE  (/\ cand[h].state = "ABSENT" <=> cand[h].plan = NoPlan
                         /\ cand[h].plan # NoPlan =>
                              PlanGen[cand[h].plan] = h /\ Admitted(cand[h].plan)
                         /\ cand[h].state \in {"ABSENT", "WRITING"} => cand[h].receipt = NoPlan)'
      BY DEF CandidateInv
    <3>1. CASE h = g
      <4>1. Admitted(p)'
        BY <2>4 DEF Admitted
      <4> QED BY <1>1, <2>3, <3>1, <4>1
    <3>2. CASE h # g
      <4>1. cand'[h] = cand[h] /\ cand[h].plan \in Plan \union {NoPlan}
        BY <1>4, <2>3, <3>2 DEF Candidate
      <4>2. cand[h].plan # NoPlan => Admitted(cand[h].plan)'
        BY <2>8, <4>1 DEF IInv, StoreInv, CandidateInv
      <4> QED BY <4>1, <4>2 DEF IInv, StoreInv, CandidateInv, Admitted
    <3> QED BY <3>1, <3>2
  <2>10. RowInv'
    BY <1>2, <1>7, <2>3 DEF IInv, StoreInv, RowInv
  <2>11. CompletedInv'
    <3>1. ASSUME NEW q \in Plan, ops'[PlanOp[q]] = MaterializeRow(q, "COMPLETED")
          PROVE  cand'[PlanGen[q]].receipt = q
      BY <2>2, <2>3, <2>8, <3>1, PlanAssumption, NullAssumption DEF IInv, StoreInv, CompletedInv
    <3>2. ASSUME NEW h \in Generation, cand'[h].state \notin {"ABSENT", "WRITING"}
          PROVE  ops'[PlanOp[cand'[h].plan]] = MaterializeRow(cand'[h].plan, "COMPLETED")
      <4>1. cand'[h] = cand[h] /\ cand[h].plan \in Plan
        BY <2>3, <3>2 DEF IInv, StoreInv, ReceiptIsTruth
      <4> QED BY <2>8, <3>2, <4>1 DEF IInv, StoreInv, CompletedInv
    <3> QED BY <3>1, <3>2 DEF CompletedInv
  <2>12. ReceiptIsTruth'
    BY <1>2, <2>3 DEF IInv, StoreInv, ReceiptIsTruth
  <2>13. PointerInv' /\ HistoryInv' /\ HistoryChain' /\ ActivationInv'
    <3>1. \A h \in Generation : Published(h)' => Published(h)
      BY <2>3 DEF Published
    <3> QED BY <1>2, <2>3, <2>5, <2>6, <2>7, <3>1, PublishedFrame
  <2>14. StoreInv'
    BY <2>9, <2>10, <2>11, <2>12, <2>13 DEF StoreInv
  <2>15. ClientInv'
    <3>1. mat'[c] = [pc |-> "listing", plan |-> p, todo |-> {}]
          /\ \A d \in Client \ {c} : mat'[d] = mat[d]
      BY <1>2 DEF IInv, TypeOK
    <3>2. \A d \in Client : mat[d].pc # "idle" =>
            PlanGen[mat[d].plan] \in Generation \ {g}
      BY <1>7, NullAssumption, PlanAssumption DEF IInv, TypeOK, ClientInv
    <3> QED BY <1>1, <1>2, <2>3, <3>1, <3>2 DEF IInv, ClientInv, Stored
  <2>16. AnswerInv'
    <3>1. \A q \in Plan : ops[PlanOp[q]] = MaterializeRow(q, "COMPLETED") =>
                           ops'[PlanOp[q]] = MaterializeRow(q, "COMPLETED")
      BY <2>8
    <3>2. UNCHANGED <<answers, receipts>>
      BY <1>2
    <3> QED BY <1>2, <2>6, <3>1, <3>2, AnswerFrame
  <2>17. ReaderInv'
    <3>1. \A h \in Generation : Published(h)' => Published(h)
      BY <2>3 DEF Published
    <3> QED BY <1>2, <2>3, <2>5, <3>1, ReaderFrame
  <2> QED BY <1>5, <2>14, <2>15, <2>16, <2>17 DEF IInv
<1> QED BY <1>3, <1>6, <1>7

(* Clients go on with the plans they had, or are done with them.           *)
ClientsKeep ==
  /\ mat' \in [Client -> [pc: {"idle", "listing", "writing"},
                          plan: Plan \union {NoPlan}, todo: SUBSET Key]]
  /\ \A c \in Client : mat'[c].pc # "idle" =>
       mat[c].pc # "idle" /\ mat'[c].plan = mat[c].plan /\ mat[c].plan \in Plan
  /\ \A c \in Client : mat'[c].pc = "writing" =>
       /\ mat[c].pc = "writing"
       /\ \A k \in PlannedKeys(mat[c].plan) \ mat'[c].todo :
            k \in mat[c].todo => rows'[PlanGen[mat[c].plan]][k] # Absent

(* A client that goes on is not robbed of what it found or wrote.          *)
LEMMA ClientFrame ==
  ASSUME IInv, ClientsKeep,
         \A g \in Generation : cand'[g].plan = cand[g].plan,
         \A g \in Generation, k \in Key : rows[g][k] # Absent => rows'[g][k] # Absent
  PROVE  ClientInv'
<1> SUFFICES ASSUME NEW c \in Client, mat'[c].pc # "idle"
             PROVE  /\ cand'[PlanGen[mat'[c].plan]].plan = mat'[c].plan
                    /\ mat'[c].pc = "writing" =>
                         \A k \in PlannedKeys(mat'[c].plan) \ mat'[c].todo :
                           rows'[PlanGen[mat'[c].plan]][k] # Absent
  BY DEF ClientInv, Stored
<1>1. /\ mat[c].pc # "idle" /\ mat'[c].plan = mat[c].plan
      /\ mat[c].plan \in Plan /\ PlanGen[mat[c].plan] \in Generation
      /\ cand[PlanGen[mat[c].plan]].plan = mat[c].plan
  BY PlanAssumption DEF ClientsKeep, IInv, ClientInv
<1>2. ASSUME mat'[c].pc = "writing",
             NEW k \in PlannedKeys(mat[c].plan) \ mat'[c].todo
      PROVE  rows'[PlanGen[mat[c].plan]][k] # Absent
  <2>1. mat[c].pc = "writing"
    BY <1>2 DEF ClientsKeep
  <2>2. CASE k \in mat[c].todo
    BY <1>2, <2>2 DEF ClientsKeep
  <2>3. CASE k \notin mat[c].todo
    <3>1. rows[PlanGen[mat[c].plan]][k] # Absent
      BY <2>1, <2>3 DEF IInv, ClientInv, Stored
    <3> QED BY <1>1, <3>1 DEF PlannedKeys
  <2> QED BY <2>2, <2>3
<1> QED BY <1>1, <1>2

(* Writing a record adds the plan's own row to a candidate in WRITING, or  *)
(* changes nothing (write_record).                                         *)
LEMMA PutRecordStep ==
  ASSUME IInv, NEW p \in Plan, NEW k \in Key, PutRecord(p, k), ClientsKeep
  PROVE  IInv'
<1> DEFINE g == PlanGen[p]
<1>1. /\ Writable(p, k)
      /\ rows' = [rows EXCEPT ![g][k] = PlanRows[p][k]]
      /\ UNCHANGED <<cand, ops, ptr, history, decisions, damaged, crashes, reader, given>>
  BY DEF PutRecord
<1>2. g \in Generation /\ PlanRows[p][k] \in Content \union {Absent}
  BY <1>1, PlanAssumption
<1>3. cand[g].plan = p
  BY <1>1 DEF Writable
<1>4. \A h \in Generation, j \in Key :
        rows'[h][j] = IF h = g /\ j = k THEN PlanRows[p][k] ELSE rows[h][j]
  BY <1>1, <1>2 DEF IInv, TypeOK
<1>5. TypeOK'
  <2>1. rows' \in [Generation -> [Key -> Content \union {Absent}]]
    BY <1>1, <1>2 DEF IInv, TypeOK
  <2> QED BY <1>1, <2>1 DEF IInv, TypeOK, given, ClientsKeep
<1>6. StoreInv'
  <2>1. CandidateInv' /\ CompletedInv'
    BY <1>1 DEF IInv, StoreInv, CandidateInv, CompletedInv, Admitted
  <2>2. RowInv'
    BY <1>1, <1>2, <1>3, <1>4, NullAssumption DEF IInv, StoreInv, RowInv
  <2>3. \A h \in Generation :
          cand[h].state \notin {"ABSENT", "WRITING"} => rows'[h] = rows[h]
    <3> SUFFICES ASSUME NEW h \in Generation, cand[h].state \notin {"ABSENT", "WRITING"}
                 PROVE  rows'[h] = rows[h]
      OBVIOUS
    <3>1. CASE h = g
      <4>1. rows[g] = PlanRows[p] /\ rows[g] \in [Key -> Content \union {Absent}]
        BY <1>2, <1>3, <3>1 DEF IInv, StoreInv, ReceiptIsTruth, TypeOK
      <4>2. rows'[g] = [rows[g] EXCEPT ![k] = PlanRows[p][k]]
        BY <1>1, <1>2 DEF IInv, TypeOK
      <4> QED BY <3>1, <4>1, <4>2
    <3>2. CASE h # g
      BY <1>1, <1>2, <3>2 DEF IInv, TypeOK
    <3> QED BY <3>1, <3>2
  <2>4. ReceiptIsTruth'
    BY <1>1, <2>3 DEF IInv, StoreInv, ReceiptIsTruth
  <2>5. PointerInv' /\ HistoryInv' /\ HistoryChain' /\ ActivationInv'
    BY <1>1, PublishedFrame DEF Published, Activated
  <2> QED BY <2>1, <2>2, <2>4, <2>5 DEF StoreInv
<1>7. ClientInv'
  <2>1. \A h \in Generation, j \in Key : rows[h][j] # Absent => rows'[h][j] # Absent
    <3>1. rows[g][k] # Absent => PlanRows[p][k] # Absent
      BY <1>1, <1>2, <1>3 DEF IInv, StoreInv, RowInv
    <3> QED BY <1>4, <3>1
  <2> QED BY <1>1, <2>1, ClientFrame
<1>8. AnswerInv'
  BY <1>1, AnswerFrame DEF given
<1>9. ReaderInv'
  BY <1>1, ReaderFrame DEF Published
<1> QED BY <1>5, <1>6, <1>7, <1>8, <1>9 DEF IInv

(* A receipt is issued only for the rows of the plan, row for row          *)
(* (reconcile).                                                            *)
LEMMA IssueReceiptStep ==
  ASSUME IInv, NEW p \in Plan, IssueReceipt(p), ClientsKeep
  PROVE  IInv'
<1> DEFINE g == PlanGen[p]
           o == PlanOp[p]
           completed == MaterializeRow(p, "COMPLETED")
           validated == [state |-> "VALIDATED", plan |-> p, receipt |-> p]
<1>1. /\ Reconcilable(p)
      /\ receipts' = receipts \union {p}
      /\ UNCHANGED <<rows, ptr, history, decisions, damaged, crashes, reader, answers>>
  BY DEF IssueReceipt
<1>2. /\ p \in Plan /\ g \in Generation /\ o \in OpId /\ p # NoPlan
      /\ completed \in MaterializeOp
  BY PlanAssumption, NullAssumption DEF MaterializeRow, MaterializeOp
<1>3. cand[g].plan = p /\ rows[g] = PlanRows[p] /\ cand[g] \in Candidate
  BY <1>1, <1>2 DEF Reconcilable, IInv, TypeOK
<1>4. Admitted(p)
  BY <1>2, <1>3 DEF IInv, StoreInv, CandidateInv
<1>5. CASE cand[g].state # "WRITING"
  <2>1. UNCHANGED <<cand, ops>>
    BY <1>5 DEF IssueReceipt
  <2>2. cand[g].receipt = p
    BY <1>1, <1>5 DEF Reconcilable
  <2>3. ops[o] = completed
    <3>1. cand[g].state \notin {"ABSENT", "WRITING"}
      BY <1>2, <1>3, <1>5 DEF IInv, StoreInv, CandidateInv
    <3> QED BY <1>2, <1>3, <3>1 DEF IInv, StoreInv, CompletedInv
  <2>4. StoreInv'
    BY <1>1, <2>1, StoreFrame DEF IInv, store
  <2>5. TypeOK'
    BY <1>1, <1>2, <2>1 DEF IInv, TypeOK, ClientsKeep
  <2>6. ClientInv'
    BY <1>1, <2>1, ClientFrame
  <2>7. AnswerInv'
    BY <1>1, <2>1, <2>3 DEF IInv, AnswerInv, Activated, Licensed
  <2>8. ReaderInv'
    BY <1>1, <2>1, ReaderFrame DEF Published
  <2> QED BY <2>4, <2>5, <2>6, <2>7, <2>8 DEF IInv
<1>6. CASE cand[g].state = "WRITING"
  <2>1. cand' = [cand EXCEPT ![g] = validated] /\ ops' = [ops EXCEPT ![o] = completed]
    BY <1>2, <1>6 DEF IssueReceipt, IInv, TypeOK
  <2>2. validated \in Candidate
    BY <1>2 DEF Candidate
  <2>3. cand'[g] = validated /\ \A h \in Generation \ {g} : cand'[h] = cand[h]
    BY <1>2, <2>1 DEF IInv, TypeOK
  <2>4. ops'[o] = completed /\ \A q \in OpId \ {o} : ops'[q] = ops[q]
    BY <1>2, <2>1 DEF IInv, TypeOK
  <2>5. \A q \in OpId : /\ Activated(q) => ops'[q] = ops[q]
                        /\ Activated(q)' => ops'[q] = ops[q]
    BY <1>4, <2>4 DEF Activated, Admitted, MaterializeRow
  <2>6. \A q \in Plan : /\ Admitted(q) => Admitted(q)'
                        /\ ops[PlanOp[q]] = MaterializeRow(q, "COMPLETED") =>
                             ops'[PlanOp[q]] = MaterializeRow(q, "COMPLETED")
                        /\ ops'[PlanOp[q]] = MaterializeRow(q, "COMPLETED") =>
                             q = p \/ ops[PlanOp[q]] = MaterializeRow(q, "COMPLETED")
    BY <1>4, <2>4, PlanAssumption DEF Admitted, MaterializeRow
  <2>7. TypeOK'
    <3>1. cand' \in [Generation -> Candidate]
      BY <2>1, <2>2 DEF IInv, TypeOK
    <3>2. ops' \in [OpId -> MaterializeOp \union ActivateOp \union {NoOp}]
      BY <1>2, <2>1 DEF IInv, TypeOK
    <3> QED BY <1>1, <1>2, <3>1, <3>2 DEF IInv, TypeOK, ClientsKeep
  <2>8. CandidateInv'
    <3> SUFFICES ASSUME NEW h \in Generation
                 PROVE  (/\ cand[h].state = "ABSENT" <=> cand[h].plan = NoPlan
                         /\ cand[h].plan # NoPlan =>
                              PlanGen[cand[h].plan] = h /\ Admitted(cand[h].plan)
                         /\ cand[h].state \in {"ABSENT", "WRITING"} => cand[h].receipt = NoPlan)'
      BY DEF CandidateInv
    <3>1. CASE h = g
      BY <1>2, <1>4, <2>2, <2>3, <2>6, <3>1
    <3>2. CASE h # g
      <4>1. cand'[h] = cand[h] /\ cand[h].plan \in Plan \union {NoPlan}
        BY <2>3, <3>2 DEF IInv, TypeOK, Candidate
      <4>2. cand[h].plan # NoPlan => Admitted(cand[h].plan)'
        BY <2>6, <4>1 DEF IInv, StoreInv, CandidateInv
      <4> QED BY <4>1, <4>2 DEF IInv, StoreInv, CandidateInv, Admitted
    <3> QED BY <3>1, <3>2
  <2>9. RowInv'
    BY <1>1, <1>2, <1>3, <2>2, <2>3 DEF IInv, StoreInv, RowInv
  <2>10. CompletedInv'
    <3>1. cand[g].receipt = NoPlan
      BY <1>2, <1>6 DEF IInv, StoreInv, CandidateInv
    <3>2. ASSUME NEW q \in Plan, ops'[PlanOp[q]] = MaterializeRow(q, "COMPLETED")
          PROVE  cand'[PlanGen[q]].receipt = q
      BY <1>2, <2>2, <2>3, <2>6, <3>1, <3>2, PlanAssumption, NullAssumption
         DEF IInv, StoreInv, CompletedInv
    <3>3. ASSUME NEW h \in Generation, cand'[h].state \notin {"ABSENT", "WRITING"}
          PROVE  ops'[PlanOp[cand'[h].plan]] = MaterializeRow(cand'[h].plan, "COMPLETED")
      <4>1. CASE h = g
        <5>1. cand'[h].plan = p
          BY <2>2, <2>3, <4>1
        <5> QED BY <2>4, <5>1
      <4>2. CASE h # g
        <5>1. cand'[h] = cand[h] /\ cand[h].plan \in Plan
          BY <2>3, <3>3, <4>2 DEF IInv, StoreInv, ReceiptIsTruth
        <5> QED BY <2>6, <3>3, <5>1 DEF IInv, StoreInv, CompletedInv
      <4> QED BY <4>1, <4>2
    <3> QED BY <3>2, <3>3 DEF CompletedInv
  <2>11. ReceiptIsTruth'
    BY <1>1, <1>2, <1>3, <2>2, <2>3 DEF IInv, StoreInv, ReceiptIsTruth
  <2>12. PointerInv' /\ HistoryInv' /\ HistoryChain' /\ ActivationInv'
    <3>1. \A h \in Generation : /\ Published(h) => h # g /\ cand'[h] = cand[h]
                                /\ Published(h)' => Published(h)
      BY <1>6, <2>2, <2>3 DEF Published
    <3> QED BY <1>1, <2>5, <3>1, PublishedFrame
  <2>13. StoreInv'
    BY <2>8, <2>9, <2>10, <2>11, <2>12 DEF StoreInv
  <2>14. ClientInv'
    <3>1. \A h \in Generation : cand'[h].plan = cand[h].plan
      BY <1>3, <2>2, <2>3
    <3> QED BY <1>1, <3>1, ClientFrame
  <2>15. AnswerInv'
    <3>1. \A a \in answers : /\ ops'[a.op] = ops[a.op] /\ Activated(a.op)
                             /\ a.gated => Licensed(a.op, a.request)
      BY <2>5 DEF IInv, TypeOK, AnswerInv
    <3>2. \A q \in receipts : ops'[PlanOp[q]] = MaterializeRow(q, "COMPLETED")
      BY <2>6 DEF IInv, TypeOK, AnswerInv
    <3>3. ASSUME NEW a \in answers
          PROVE  (/\ Activated(a.op)
                  /\ ops[a.op].request = a.request
                  /\ ops[a.op].result = a.result
                  /\ a.gated => Licensed(a.op, a.request))'
      <4>1. ops[a.op].request = a.request /\ ops[a.op].result = a.result
        BY DEF IInv, AnswerInv
      <4>2. Licensed(a.op, a.request) => Licensed(a.op, a.request)'
        BY <1>1, Zenon DEF Licensed
      <4>3. /\ ops'[a.op] = ops[a.op] /\ Activated(a.op)
            /\ a.gated => Licensed(a.op, a.request)
        BY <3>1
      <4>4. Activated(a.op)'
        BY <4>3 DEF Activated
      <4> QED BY <4>1, <4>2, <4>3, <4>4
    <3> QED BY <1>1, <2>4, <3>2, <3>3 DEF AnswerInv
  <2>16. ReaderInv'
    <3>1. \A h \in Generation : cand'[h].plan = cand[h].plan
      BY <1>3, <2>2, <2>3
    <3>2. \A h \in Generation : Published(h)' => Published(h)
      BY <1>6, <2>2, <2>3 DEF Published
    <3> QED BY <1>1, <3>1, <3>2, ReaderFrame
  <2> QED BY <2>7, <2>13, <2>14, <2>15, <2>16 DEF IInv
<1> QED BY <1>5, <1>6

(* A client's write and its last step are those calls, with its own        *)
(* bookkeeping (materialize).                                              *)
LEMMA WriteRecordStep ==
  ASSUME IInv, NEW c \in Client, NEW k \in Key, WriteRecord(c, k)
  PROVE  IInv'
<1>1. mat[c].plan \in Plan /\ PutRecord(mat[c].plan, k)
  BY DEF WriteRecord, IInv, TypeOK
<1>2. ClientsKeep
  <2> DEFINE p == mat[c].plan
  <2>1. /\ mat' = [mat EXCEPT ![c].todo = @ \ {k}]
        /\ rows' = [rows EXCEPT ![PlanGen[p]][k] = PlanRows[p][k]]
        /\ PlanGen[p] \in Generation
    BY <1>1, PlanAssumption DEF WriteRecord, PutRecord
  <2>2. k \in PlannedKeys(p) => rows'[PlanGen[p]][k] # Absent
    BY <2>1 DEF PlannedKeys, IInv, TypeOK
  <2>3. /\ mat'[c].pc = mat[c].pc /\ mat'[c].plan = p /\ mat'[c].todo = mat[c].todo \ {k}
        /\ \A d \in Client \ {c} : mat'[d] = mat[d]
    BY <2>1 DEF IInv, TypeOK
  <2>4. mat' \in [Client -> [pc: {"idle", "listing", "writing"},
                             plan: Plan \union {NoPlan}, todo: SUBSET Key]]
    BY <2>1 DEF IInv, TypeOK
  <2> QED BY <2>2, <2>3, <2>4 DEF IInv, TypeOK, ClientsKeep
<1> QED BY <1>1, <1>2, PutRecordStep

(* The receipt ends the client's materialization (materialize).            *)
LEMMA ReconcileStep ==
  ASSUME IInv, NEW c \in Client, Reconcile(c)
  PROVE  IInv'
<1>1. mat[c].plan \in Plan /\ IssueReceipt(mat[c].plan)
  BY DEF Reconcile, IInv, TypeOK
<1>2. ClientsKeep
  BY DEF Reconcile, Idle, IInv, TypeOK, ClientsKeep
<1> QED BY <1>1, <1>2, IssueReceiptStep

(* Calls from outside materialize() leave every client where it is         *)
(* (write_record, reconcile).                                              *)
LEMMA CallStep ==
  ASSUME IInv, NEW p \in Plan,
         CallReconcile(p) \/ \E k \in Key : CallWriteRecord(p, k)
  PROVE  IInv'
<1>1. ClientsKeep
  BY DEF CallReconcile, CallWriteRecord, IInv, TypeOK, ClientsKeep
<1> QED BY <1>1, PutRecordStep, IssueReceiptStep DEF CallReconcile, CallWriteRecord

----------------------------------------------------------------------------
(* Steps of the policy and of activate().                                  *)

(* A decision is recorded once for an operation                            *)
(* (record_activation_decision).                                           *)
LEMMA RecordDecisionStep ==
  ASSUME IInv, NEW o \in OpId, RecordDecision(o)
  PROVE  IInv'
<1>1. PICK g \in Generation, receipt \in receipts, status \in {"ELIGIBLE", "REJECTED"},
           reasons \in BOOLEAN :
        /\ Undecided(o)
        /\ cand[g].plan # NoPlan
        /\ \E expected \in PastPointers(PlanFs[cand[g].plan]) :
             decisions' = [decisions EXCEPT ![o] =
               [gen |-> g, expected |-> expected, receipt |-> receipt,
                status |-> status, reasons |-> reasons]]
        /\ UNCHANGED <<cand, rows, ops, ptr, history, damaged, mat, crashes, reader, given>>
  BY DEF RecordDecision
<1>2. PICK expected \in PastPointers(PlanFs[cand[g].plan]) :
        decisions' = [decisions EXCEPT ![o] =
          [gen |-> g, expected |-> expected, receipt |-> receipt,
           status |-> status, reasons |-> reasons]]
  BY <1>1
<1>3. expected \in Pointer
  BY DEF PastPointers, Pointer, GenerationOrNone, IInv, TypeOK, HistoryEntry
<1>4. receipt \in Plan
  BY DEF IInv, TypeOK
<1>5. TypeOK'
  <2>1. decisions' \in [OpId -> Decision \union {NoDecision}]
    BY <1>2, <1>3, <1>4 DEF IInv, TypeOK, Decision
  <2> QED BY <1>1, <2>1 DEF IInv, TypeOK, given
<1>6. StoreInv'
  <2>1. CandidateInv' /\ RowInv' /\ CompletedInv' /\ ReceiptIsTruth'
    BY <1>1 DEF IInv, StoreInv, CandidateInv, RowInv, CompletedInv, ReceiptIsTruth, Admitted
  <2>2. PointerInv' /\ HistoryInv' /\ HistoryChain' /\ ActivationInv'
    BY <1>1, PublishedFrame DEF Published, Activated
  <2> QED BY <2>1, <2>2 DEF StoreInv
<1>7. ClientInv'
  BY <1>1 DEF IInv, ClientInv, Stored
<1>8. AnswerInv'
  <2>1. \A q \in OpId : decisions[q] # NoDecision => decisions'[q] = decisions[q]
    BY <1>1, <1>2 DEF IInv, TypeOK, Undecided
  <2> QED BY <1>1, <2>1, AnswerFrame DEF given
<1>9. ReaderInv'
  BY <1>1, ReaderFrame DEF Published
<1> QED BY <1>5, <1>6, <1>7, <1>8, <1>9 DEF IInv

WithState(r, s) == [r EXCEPT !.state = s]

(* Changing the state of a candidate keeps the other columns of its row.   *)
LEMMA WithStateKeeps ==
  \A r \in Candidate, s \in {"ACTIVE", "RETIRED"} :
    /\ WithState(r, s) \in Candidate
    /\ WithState(r, s).state = s
    /\ WithState(r, s).plan = r.plan
    /\ WithState(r, s).receipt = r.receipt
BY DEF Candidate, WithState

(* What committing the request req for o does: f's pointer moves from      *)
(* version v, naming from, to the next version, naming the request's       *)
(* generation.                                                             *)
Commits(o, req, gated, f, v, from) ==
  LET g     == req.gen
      p     == req.receipt
      entry == [fs |-> f, version |-> v + 1, from |-> from, to |-> g, op |-> o]
  IN  /\ g \in Generation /\ p \in Plan /\ f = PlanFs[p]
      /\ cand[g].state = "VALIDATED" /\ cand[g].receipt = p /\ cand[g].plan = p
      /\ rows[g] = PlanRows[p] /\ Intact(g)
      /\ ops[o] = NoOp
      /\ ptr[f] = req.expected /\ ptr[f].gen = from /\ ptr[f].version = v
      /\ from # NoGeneration => /\ from \in Generation
                                /\ cand[from].state = "ACTIVE"
                                /\ PlanFs[cand[from].plan] = f
      /\ from # g
      /\ ptr' = [ptr EXCEPT ![f] = [gen |-> g, version |-> v + 1]]
      /\ ops' = [ops EXCEPT ![o] =
                   [kind |-> "ACTIVATE", request |-> req, result |-> entry]]
      /\ history' = history \union {entry}
      /\ answers' = answers \union {Answer(o, req, entry, gated)}
      /\ UNCHANGED <<rows, decisions, damaged, mat, crashes, reader, receipts>>
      /\ cand' \in [Generation -> Candidate]
      /\ \A h \in Generation : /\ cand'[h].plan = cand[h].plan
                               /\ cand'[h].receipt = cand[h].receipt
      /\ cand'[g].state = "ACTIVE"
      /\ \A h \in Generation \ {g, from} : cand'[h].state = cand[h].state
      /\ from # NoGeneration => cand'[from].state = "RETIRED"
      /\ \A h \in Generation : Published(h)' <=> Published(h) \/ h = g

(* What one committed activation does to the tables (activate).            *)
LEMMA CommitEffect ==
  ASSUME IInv, NEW o \in OpId, NEW req \in Request, NEW gated \in BOOLEAN,
         CommitActivation(o, req, gated)
  PROVE  \E f \in FeatureSet, v \in Nat, from \in Generation \union {NoGeneration} :
           Commits(o, req, gated, f, v, from)
<1> DEFINE g == req.gen
           p == req.receipt
<1>1. /\ g \in Generation /\ p \in Plan /\ req.expected \in Pointer
      /\ cand[g].state = "VALIDATED" /\ cand[g].receipt = p /\ rows[g] = PlanRows[p]
      /\ ops[o] = NoOp /\ Intact(g)
  BY DEF CommitActivation, Activatable, Request
<1>2. cand[g].plan = p /\ cand[g] \in Candidate
  BY <1>1 DEF IInv, StoreInv, ReceiptIsTruth, TypeOK
<1>3. PICK f \in FeatureSet : f = PlanFs[cand[g].plan]
  BY <1>1, <1>2, PlanAssumption
<1>4. ptr[f] = req.expected /\ ptr[f] \in Pointer
  BY <1>3 DEF CommitActivation, PointerMatches, IInv, TypeOK
<1>5. PICK v \in Nat, from \in Generation \union {NoGeneration} :
        ptr[f].version = v /\ ptr[f].gen = from
  BY <1>4 DEF Pointer, GenerationOrNone
<1> DEFINE entry == [fs |-> f, version |-> v + 1, from |-> from, to |-> g, op |-> o]
<1>6. /\ ptr' = [ptr EXCEPT ![f] = [gen |-> g, version |-> v + 1]]
      /\ cand' = Promote(g, from)
      /\ ops' = [ops EXCEPT ![o] =
                   [kind |-> "ACTIVATE", request |-> req, result |-> entry]]
      /\ history' = history \union {entry}
      /\ answers' = answers \union {Answer(o, req, entry, gated)}
      /\ UNCHANGED <<rows, decisions, damaged, mat, crashes, reader, receipts>>
  <2>1. ptr' = [ptr EXCEPT ![f] = [gen |-> g, version |-> @.version + 1]]
    BY <1>3 DEF CommitActivation
  <2>2. ptr' = [ptr EXCEPT ![f] = [gen |-> g, version |-> v + 1]]
    BY <1>5, <2>1 DEF IInv, TypeOK
  <2>3. req.expected.version = v
    BY <1>4, <1>5
  <2> QED BY <1>3, <1>5, <2>2, <2>3 DEF CommitActivation
<1>7. from # NoGeneration => /\ from \in Generation
                             /\ cand[from].state = "ACTIVE"
                             /\ PlanFs[cand[from].plan] = f
  BY <1>5 DEF IInv, StoreInv, PointerInv, PointerNamesActive
<1>8. from # g
  BY <1>1, <1>7, NullAssumption
<1>9. /\ cand' \in [Generation -> Candidate]
      /\ \A h \in Generation : /\ cand'[h] \in Candidate
                               /\ cand'[h].plan = cand[h].plan
                               /\ cand'[h].receipt = cand[h].receipt
      /\ cand'[g].state = "ACTIVE"
      /\ \A h \in Generation \ {g, from} : cand'[h].state = cand[h].state
      /\ from # NoGeneration => cand'[from].state = "RETIRED"
  <2>1. \A h \in Generation : cand[h] \in Candidate
    BY DEF IInv, TypeOK
  <2>2. \A h \in Generation :
          /\ h = g => cand'[h] = WithState(cand[h], "ACTIVE")
          /\ h # g /\ h = from => cand'[h] = WithState(cand[h], "RETIRED")
          /\ h # g /\ h # from => cand'[h] = cand[h]
    BY <1>6 DEF Promote, WithState
  <2>4. \A h \in Generation : /\ cand'[h] \in Candidate
                              /\ cand'[h].plan = cand[h].plan
                              /\ cand'[h].receipt = cand[h].receipt
    BY <2>1, <2>2, WithStateKeeps
  <2>5. cand'[g].state = "ACTIVE"
    BY <1>1, <2>1, <2>2, WithStateKeeps
  <2>6. \A h \in Generation \ {g, from} : cand'[h].state = cand[h].state
    BY <2>2
  <2>7. from # NoGeneration => cand'[from].state = "RETIRED"
    BY <1>7, <1>8, <2>1, <2>2, WithStateKeeps
  <2>8. cand' \in [Generation -> Candidate]
    BY <1>6, <2>4 DEF Promote
  <2> QED BY <2>4, <2>5, <2>6, <2>7, <2>8
<1>10. \A h \in Generation : Published(h)' <=> Published(h) \/ h = g
  <2> SUFFICES ASSUME NEW h \in Generation
               PROVE  Published(h)' <=> Published(h) \/ h = g
    OBVIOUS
  <2>1. CASE h = g
    BY <1>9, <2>1 DEF Published
  <2>2. CASE h # g /\ h = from
    BY <1>7, <1>9, <2>2, NullAssumption DEF Published
  <2>3. CASE h \notin {g, from}
    BY <1>9, <2>3 DEF Published
  <2> QED BY <2>1, <2>2, <2>3
<1> QED BY <1>1, <1>2, <1>3, <1>4, <1>5, <1>6, <1>7, <1>8, <1>9, <1>10 DEF Commits

(* A committed activation keeps the invariant: the heart of the proof      *)
(* (activate).                                                             *)
LEMMA CommitActivationStep ==
  ASSUME IInv, NEW o \in OpId, NEW req \in Request, NEW gated \in BOOLEAN,
         CommitActivation(o, req, gated), gated => Licensed(o, req)
  PROVE  IInv'
<1> DEFINE g == req.gen
           p == req.receipt
<1>0. PICK f \in FeatureSet, v \in Nat, from \in Generation \union {NoGeneration} :
        Commits(o, req, gated, f, v, from)
  BY CommitEffect
<1> DEFINE entry == [fs |-> f, version |-> v + 1, from |-> from, to |-> g, op |-> o]
           row   == [kind |-> "ACTIVATE", request |-> req, result |-> entry]
<1>1. /\ g \in Generation /\ p \in Plan
      /\ cand[g].state = "VALIDATED" /\ cand[g].receipt = p /\ rows[g] = PlanRows[p]
      /\ ops[o] = NoOp
  BY <1>0 DEF Commits
<1>2. cand[g].plan = p
  BY <1>0 DEF Commits
<1>3. f = PlanFs[cand[g].plan] /\ ptr[f] = req.expected
      /\ ptr[f].version = v /\ ptr[f].gen = from
  BY <1>0 DEF Commits
<1>4. /\ ptr' = [ptr EXCEPT ![f] = [gen |-> g, version |-> v + 1]]
      /\ cand' \in [Generation -> Candidate]
      /\ ops' = [ops EXCEPT ![o] = row]
      /\ history' = history \union {entry}
      /\ answers' = answers \union {Answer(o, req, entry, gated)}
      /\ UNCHANGED <<rows, decisions, damaged, mat, crashes, reader, receipts>>
  BY <1>0 DEF Commits
<1>5. from # NoGeneration => /\ from \in Generation
                             /\ cand[from].state = "ACTIVE"
                             /\ PlanFs[cand[from].plan] = f
  BY <1>0 DEF Commits
<1>6. from # g
  BY <1>0 DEF Commits
<1>7. /\ \A h \in Generation : /\ cand'[h].plan = cand[h].plan
                               /\ cand'[h].receipt = cand[h].receipt
      /\ cand'[g].state = "ACTIVE"
      /\ \A h \in Generation \ {g, from} : cand'[h].state = cand[h].state
      /\ from # NoGeneration => cand'[from].state = "RETIRED"
  BY <1>0 DEF Commits
<1>8. \A h \in Generation : Published(h)' <=> Published(h) \/ h = g
  BY <1>0 DEF Commits
<1>9. /\ entry \in HistoryEntry
      /\ row \in ActivateOp
      /\ Answer(o, req, entry, gated) \in [op: OpId, request: Request, result: HistoryEntry, gated: BOOLEAN]
      /\ row # NoOp
  BY <1>1, NullAssumption DEF HistoryEntry, ActivateOp, Answer, GenerationOrNone
<1>10. ops'[o] = row /\ \A q \in OpId \ {o} : ops'[q] = ops[q]
  BY <1>4 DEF IInv, TypeOK
<1>11. \A q \in OpId : Activated(q) => q # o /\ ops'[q] = ops[q]
  BY <1>1, <1>10 DEF Activated
<1>12. \A h \in history : /\ h \in HistoryEntry
                          /\ Published(h.to) /\ h.to # g
                          /\ PlanFs[cand[h.to].plan] = h.fs
                          /\ Activated(h.op) /\ h.op # o
                          /\ ops[h.op].result = h
  <2>1. \A h \in history : /\ h \in HistoryEntry /\ Published(h.to) /\ Activated(h.op)
                           /\ PlanFs[cand[h.to].plan] = h.fs /\ ops[h.op].result = h
    BY DEF IInv, TypeOK, StoreInv, HistoryInv
  <2>2. \A h \in history : h.to # g
    BY <1>1, <2>1 DEF Published
  <2>3. \A h \in history : h.op # o
    BY <1>1, <2>1 DEF Activated
  <2> QED BY <2>1, <2>2, <2>3
<1>13. /\ ptr'[f] = [gen |-> g, version |-> v + 1]
       /\ \A e \in FeatureSet \ {f} : ptr'[e] = ptr[e]
  BY <1>3, <1>4 DEF IInv, TypeOK
<1>14. TypeOK'
  <2>1. cand' \in [Generation -> Candidate]
    BY <1>4
  <2>2. ptr' \in [FeatureSet -> Pointer]
    BY <1>1, <1>3, <1>4 DEF IInv, TypeOK, Pointer, GenerationOrNone
  <2>3. ops' \in [OpId -> MaterializeOp \union ActivateOp \union {NoOp}]
    BY <1>4, <1>9 DEF IInv, TypeOK
  <2>4. history' \subseteq HistoryEntry
    BY <1>4, <1>9 DEF IInv, TypeOK
  <2>5. answers' \subseteq [op: OpId, request: Request, result: HistoryEntry, gated: BOOLEAN]
    BY <1>4, <1>9 DEF IInv, TypeOK
  <2> QED BY <1>4, <2>1, <2>2, <2>3, <2>4, <2>5 DEF IInv, TypeOK
<1>15. \A q \in Plan :
         /\ Admitted(q) => PlanOp[q] # o /\ Admitted(q)'
         /\ ops'[PlanOp[q]] = MaterializeRow(q, "COMPLETED") <=>
              ops[PlanOp[q]] = MaterializeRow(q, "COMPLETED")
  <2>1. \A q \in Plan, s \in {"WRITING", "COMPLETED"} :
          MaterializeRow(q, s) # NoOp /\ MaterializeRow(q, s) # row
    BY NullAssumption DEF MaterializeRow, MaterializeOp
  <2> QED BY <1>1, <1>10, <2>1, PlanAssumption DEF Admitted
<1>16. CandidateInv' /\ RowInv' /\ CompletedInv' /\ ReceiptIsTruth'
  <2>1. \A h \in Generation :
          /\ cand'[h].state = "ABSENT" <=> cand[h].state = "ABSENT"
          /\ cand'[h].state = "WRITING" <=> cand[h].state = "WRITING"
          /\ cand'[h].plan \in Plan \union {NoPlan}
    <3> SUFFICES ASSUME NEW h \in Generation
                 PROVE  /\ cand'[h].state = "ABSENT" <=> cand[h].state = "ABSENT"
                        /\ cand'[h].state = "WRITING" <=> cand[h].state = "WRITING"
                        /\ cand'[h].plan \in Plan \union {NoPlan}
      OBVIOUS
    <3>1. cand'[h].plan \in Plan \union {NoPlan}
      BY <1>4 DEF Candidate
    <3>2. CASE h = g
      BY <1>1, <1>7, <3>1, <3>2
    <3>3. CASE h # g /\ h = from
      BY <1>5, <1>7, <3>1, <3>3, NullAssumption
    <3>4. CASE h \notin {g, from}
      BY <1>7, <3>1, <3>4
    <3> QED BY <3>2, <3>3, <3>4
  <2>2. CandidateInv'
    <3>1. \A h \in Generation : cand[h].plan # NoPlan => Admitted(cand[h].plan)'
      BY <1>7, <1>15, <2>1 DEF IInv, StoreInv, CandidateInv
    <3> QED BY <1>7, <2>1, <3>1 DEF IInv, StoreInv, CandidateInv, Admitted
  <2>3. RowInv'
    BY <1>4, <1>7 DEF IInv, StoreInv, RowInv
  <2>4. CompletedInv'
    <3>1. \A h \in Generation : cand'[h].state \notin {"ABSENT", "WRITING"} =>
            cand[h].plan \in Plan
      BY <2>1 DEF IInv, StoreInv, ReceiptIsTruth
    <3>2. \A q \in Plan :
            ops'[PlanOp[q]] = MaterializeRow(q, "COMPLETED") => cand'[PlanGen[q]].receipt = q
      BY <1>7, <1>15, PlanAssumption DEF IInv, StoreInv, CompletedInv
    <3>3. \A h \in Generation : cand'[h].state \notin {"ABSENT", "WRITING"} =>
            ops'[PlanOp[cand'[h].plan]] = MaterializeRow(cand'[h].plan, "COMPLETED")
      <4> SUFFICES ASSUME NEW h \in Generation, cand'[h].state \notin {"ABSENT", "WRITING"}
                   PROVE  ops'[PlanOp[cand'[h].plan]] =
                            MaterializeRow(cand'[h].plan, "COMPLETED")
        OBVIOUS
      <4>1. ops[PlanOp[cand[h].plan]] = MaterializeRow(cand[h].plan, "COMPLETED")
        BY <2>1 DEF IInv, StoreInv, CompletedInv
      <4> QED BY <1>7, <1>15, <3>1, <4>1
    <3> QED BY <3>2, <3>3 DEF CompletedInv, MaterializeRow
  <2>5. ReceiptIsTruth'
    BY <1>4, <1>7, <2>1 DEF IInv, StoreInv, ReceiptIsTruth
  <2> QED BY <2>2, <2>3, <2>4, <2>5
<1>17. PointerInv'
  <2>1. \A e \in FeatureSet : ptr'[e].gen = NoGeneration <=> ptr'[e].version = 0
    BY <1>1, <1>13, NullAssumption DEF IInv, StoreInv, PointerInv
  <2>2. ASSUME NEW e \in FeatureSet, ptr'[e].gen # NoGeneration
        PROVE  cand'[ptr'[e].gen].state = "ACTIVE" /\ PlanFs[cand'[ptr'[e].gen].plan] = e
    <3>1. CASE e = f
      <4>1. ptr'[e].gen = g
        BY <1>13, <3>1
      <4> QED BY <1>1, <1>3, <1>7, <3>1, <4>1
    <3>2. CASE e # f
      <4>1. /\ ptr'[e] = ptr[e] /\ ptr[e].gen \in Generation
            /\ cand[ptr[e].gen].state = "ACTIVE" /\ PlanFs[cand[ptr[e].gen].plan] = e
        BY <1>13, <2>2, <3>2
           DEF IInv, StoreInv, PointerInv, PointerNamesActive, TypeOK, Pointer, GenerationOrNone
      <4>2. ptr[e].gen # from /\ ptr[e].gen # g
        BY <1>1, <1>5, <2>2, <3>2, <4>1
      <4> QED BY <1>7, <4>1, <4>2
    <3> QED BY <3>1, <3>2
  <2>3. ASSUME NEW h \in Generation, cand'[h].state = "ACTIVE"
        PROVE  ptr'[PlanFs[cand'[h].plan]].gen = h
    <3>1. CASE h = g
      <4>1. PlanFs[cand'[h].plan] = f
        BY <1>1, <1>3, <1>7, <3>1
      <4> QED BY <1>13, <3>1, <4>1
    <3>2. CASE h # g
      <4>1. h # from /\ cand[h].state = "ACTIVE" /\ cand'[h].plan = cand[h].plan
        <5>1. h # from
          BY <1>7, <2>3, NullAssumption
        <5> QED BY <1>7, <2>3, <3>2, <5>1
      <4>2. cand[h].plan \in Plan /\ ptr[PlanFs[cand[h].plan]].gen = h
        BY <4>1 DEF IInv, StoreInv, PointerInv, PointerNamesActive, ReceiptIsTruth
      <4>3. PlanFs[cand[h].plan] \in FeatureSet \ {f}
        BY <1>3, <4>1, <4>2, PlanAssumption
      <4> QED BY <1>13, <4>1, <4>2, <4>3
    <3> QED BY <3>1, <3>2
  <2> QED BY <2>1, <2>2, <2>3 DEF PointerInv, PointerNamesActive
<1>18. HistoryInv'
  <2>1. ASSUME NEW h \in history'
        PROVE  (/\ Published(h.to)
                /\ PlanFs[cand[h.to].plan] = h.fs
                /\ Activated(h.op)
                /\ ops[h.op].result = h)'
    <3>1. CASE h \in history
      BY <1>7, <1>8, <1>11, <1>12, <3>1 DEF Activated, HistoryEntry
    <3>2. CASE h = entry
      BY <1>1, <1>3, <1>7, <1>8, <1>9, <1>10, <3>2 DEF Activated
    <3> QED BY <1>4, <2>1, <3>1, <3>2
  <2>2. \A h \in Generation : Published(h)' => \E e \in history' : e.to = h
    BY <1>4, <1>8 DEF IInv, StoreInv, HistoryInv
  <2> QED BY <2>1, <2>2 DEF HistoryInv
<1>19. HistoryChain'
  <2>1. \A h \in history : h.fs = f => h.version \in 1 .. v
    BY <1>3 DEF IInv, StoreInv, HistoryChain
  <2>2. \A h \in history : h.fs = f /\ h.version = v => h.to = from
    BY <1>3 DEF IInv, StoreInv, HistoryChain
  <2>3. \A h \in history : /\ h.fs \in FeatureSet /\ h.version \in Nat
                           /\ h.version \in 1 .. ptr[h.fs].version
    BY <1>12 DEF HistoryEntry, IInv, StoreInv, HistoryChain
  <2>4. \A h \in history' : h.version \in 1 .. ptr'[h.fs].version
    BY <1>4, <1>13, <2>1, <2>3
  <2>5. ASSUME NEW e \in FeatureSet, NEW w \in 1 .. ptr'[e].version
        PROVE  \E h \in history' : h.fs = e /\ h.version = w
    <3>1. CASE e = f /\ w = v + 1
      BY <1>4, <3>1
    <3>2. CASE ~(e = f /\ w = v + 1)
      <4>1. w \in 1 .. ptr[e].version
        BY <1>3, <1>13, <2>5, <3>2
      <4> QED BY <1>4, <4>1 DEF IInv, StoreInv, HistoryChain
    <3> QED BY <3>1, <3>2
  <2>6. \A h \in history' : h.version = ptr'[h.fs].version => h.to = ptr'[h.fs].gen
    <3>1. \A h \in history : h.fs = f => h.version # v + 1
      BY <2>1
    <3> QED BY <1>4, <1>13, <2>3, <3>1 DEF IInv, StoreInv, HistoryChain
  <2>7. \A h \in history' : h.version = 1 => h.from = NoGeneration
    <3>1. v + 1 = 1 => from = NoGeneration
      BY <1>3 DEF IInv, StoreInv, PointerInv
    <3> QED BY <1>4, <3>1 DEF IInv, StoreInv, HistoryChain
  <2>8. ASSUME NEW h1 \in history', NEW h2 \in history'
        PROVE  /\ h1.fs = h2.fs /\ h2.version = h1.version + 1 => h2.from = h1.to
               /\ h1.fs = h2.fs /\ h1.version = h2.version => h1 = h2
               /\ h1.to = h2.to => h1 = h2
               /\ h1.op = h2.op => h1 = h2
    <3>1. CASE h1 \in history /\ h2 \in history
      BY <3>1 DEF IInv, StoreInv, HistoryChain
    <3>2. CASE h1 \in history /\ h2 = entry
      BY <1>12, <2>1, <2>2, <2>3, <3>2
    <3>3. CASE h1 = entry /\ h2 \in history
      BY <1>12, <2>1, <2>3, <3>3
    <3>4. CASE h1 = entry /\ h2 = entry
      BY <3>4
    <3> QED BY <1>4, <2>8, <3>1, <3>2, <3>3, <3>4
  <2> QED BY <2>4, <2>5, <2>6, <2>7, <2>8 DEF HistoryChain
<1>20. ActivationInv'
  <2> SUFFICES ASSUME NEW q \in OpId, Activated(q)' PROVE Performed(q)'
    BY DEF ActivationInv
  <2>1. CASE q = o
    BY <1>1, <1>3, <1>4, <1>7, <1>10, <2>1 DEF Performed
  <2>2. CASE q # o
    <3>1. ops'[q] = ops[q] /\ Activated(q)
      BY <1>10, <2>2 DEF Activated
    <3>2. Performed(q)
      BY <3>1 DEF IInv, StoreInv, ActivationInv
    <3>3. ops[q].request.gen \in Generation
      BY <1>12, <3>2 DEF Performed, HistoryEntry
    <3> QED BY <1>4, <1>7, <3>1, <3>2, <3>3 DEF Performed
  <2> QED BY <2>1, <2>2
<1>21. StoreInv'
  BY <1>16, <1>17, <1>18, <1>19, <1>20 DEF StoreInv
<1>22. ClientInv'
  <2>1. \A c \in Client : mat[c].pc # "idle" => PlanGen[mat[c].plan] \in Generation
    BY PlanAssumption DEF IInv, TypeOK
  <2> QED BY <1>4, <1>7, <2>1 DEF IInv, ClientInv, Stored
<1>23. AnswerInv'
  <2>1. ASSUME NEW a \in answers'
        PROVE  (/\ Activated(a.op)
                /\ ops[a.op].request = a.request
                /\ ops[a.op].result = a.result
                /\ a.gated => Licensed(a.op, a.request))'
    <3>1. CASE a \in answers
      <4>1. /\ a.op \in OpId /\ Activated(a.op)
            /\ ops[a.op].request = a.request /\ ops[a.op].result = a.result
            /\ a.gated => Licensed(a.op, a.request)
        BY <3>1 DEF IInv, TypeOK, AnswerInv
      <4> QED BY <1>4, <1>11, <4>1 DEF Activated, Licensed
    <3>2. CASE a = Answer(o, req, entry, gated)
      <4>1. a.op = o /\ a.request = req /\ a.result = entry /\ a.gated = gated
        BY <3>2 DEF Answer
      <4>2. a.gated => Licensed(a.op, a.request)'
        BY <1>4, <4>1, Zenon DEF Licensed
      <4> QED BY <1>9, <1>10, <4>1, <4>2 DEF Activated
    <3> QED BY <1>4, <2>1, <3>1, <3>2
  <2>2. \A q \in receipts : ops'[PlanOp[q]] = MaterializeRow(q, "COMPLETED")
    BY <1>15 DEF IInv, TypeOK, AnswerInv
  <2> QED BY <1>4, <2>1, <2>2 DEF AnswerInv
<1>24. ReaderInv'
  BY <1>0, <1>1, <1>4, <1>7, <1>8, ReaderFrame DEF Commits
<1> QED BY <1>14, <1>21, <1>22, <1>23, <1>24 DEF IInv

----------------------------------------------------------------------------
(* Every step.                                                             *)

(* A caller's activation, whether it commits or replays, asks with a well- *)
(* typed request and claims no gate (activate).                            *)
LEMMA ActivateStep ==
  ASSUME IInv, NEW o \in OpId, Activate(o)
  PROVE  \E req \in Request : Act(o, req, FALSE)
<1>1. PICK f \in FeatureSet, g \in Generation, receipt \in receipts :
        \E expected \in PastPointers(f) :
          \E policy \in Policies(o, g, expected, receipt) :
            Act(o, [gen |-> g, expected |-> expected, receipt |-> receipt,
                    policy |-> policy], FALSE)
  BY DEF Activate
<1>2. PICK expected \in PastPointers(f) :
        \E policy \in Policies(o, g, expected, receipt) :
          Act(o, [gen |-> g, expected |-> expected, receipt |-> receipt,
                  policy |-> policy], FALSE)
  BY <1>1
<1>3. expected \in Pointer
  BY DEF PastPointers, Pointer, GenerationOrNone, IInv, TypeOK, HistoryEntry
<1>4. receipt \in Plan
  BY DEF IInv, TypeOK
<1>5. PICK policy \in Policies(o, g, expected, receipt) :
        Act(o, [gen |-> g, expected |-> expected, receipt |-> receipt,
                policy |-> policy], FALSE)
  BY <1>2
<1>6. policy \in Decision \union {NoDecision}
  <2>1. [gen |-> g, expected |-> expected, receipt |-> receipt,
         status |-> "ELIGIBLE", reasons |-> FALSE] \in Decision
    BY <1>3, <1>4 DEF Decision
  <2>2. \A q \in OpId : decisions[q] \in Decision \union {NoDecision}
    BY DEF IInv, TypeOK
  <2> QED BY <2>1, <2>2 DEF Policies
<1>7. [gen |-> g, expected |-> expected, receipt |-> receipt, policy |-> policy] \in Request
  BY <1>3, <1>4, <1>6 DEF Request
<1> QED BY <1>5, <1>7

(* An activation under a decision on record is licensed by it              *)
(* (activate_with_decision).                                               *)
LEMMA ActivateWithDecisionStep ==
  ASSUME IInv, NEW o \in OpId, ActivateWithDecision(o)
  PROVE  \E req \in Request : Licensed(o, req) /\ Act(o, req, TRUE)
<1> DEFINE d   == decisions[o]
           req == [gen |-> d.gen, expected |-> d.expected, receipt |-> d.receipt, policy |-> d]
<1>1. d \in Decision /\ d # NoDecision /\ d.status = "ELIGIBLE" /\ ~d.reasons
  BY DEF ActivateWithDecision, IInv, TypeOK
<1>2. req \in Request /\ Licensed(o, req)
  BY <1>1 DEF Request, Licensed, Decision
<1> QED BY <1>2 DEF ActivateWithDecision

(* Either way of activating keeps the invariant.                           *)
LEMMA ActivationStep ==
  ASSUME IInv, NEW o \in OpId, Activate(o) \/ ActivateWithDecision(o)
  PROVE  IInv'
<1>1. \E req \in Request, gated \in BOOLEAN :
        (gated => Licensed(o, req)) /\ Act(o, req, gated)
  BY ActivateStep, ActivateWithDecisionStep
<1> QED BY <1>1, ReplayActivationStep, CommitActivationStep DEF Act

(* The invariant is inductive.                                             *)
LEMMA NextIInv == IInv /\ [Next]_vars => IInv'
<1> SUFFICES ASSUME IInv, [Next]_vars PROVE IInv'
  OBVIOUS
<1>1. ASSUME NEW c \in Client, NEW p \in Plan,
             ReplayMaterialization(c, p) \/ BeginMaterialization(c, p)
      PROVE  IInv'
  BY <1>1, ReplayMaterializationStep, BeginMaterializationStep
<1>2. ASSUME NEW c \in Client, ClientStep(c)
      PROVE  IInv'
  <2>1. CASE ListMissing(c)
    BY <2>1, ListMissingStep
  <2>2. ASSUME NEW k \in Key, WriteRecord(c, k) PROVE IInv'
    BY <2>2, WriteRecordStep
  <2>3. ASSUME NEW k \in Key, WriteRefused(c, k) PROVE IInv'
    BY <2>3, IdleStep DEF WriteRefused, IInv, TypeOK
  <2>4. CASE Reconcile(c)
    BY <2>4, ReconcileStep
  <2>5. CASE ReconcileRefused(c)
    BY <2>5, IdleStep DEF ReconcileRefused, IInv, TypeOK
  <2> QED BY <1>2, <2>1, <2>2, <2>3, <2>4, <2>5 DEF ClientStep
<1>3. ASSUME NEW c \in Client, Crash(c)
      PROVE  IInv'
  BY <1>3, IdleStep DEF Crash, IInv, TypeOK
<1>4. ASSUME NEW o \in OpId, Activate(o) \/ ActivateWithDecision(o)
      PROVE  IInv'
  BY <1>4, ActivationStep
<1>5. ASSUME NEW o \in PolicyOps, RecordDecision(o)
      PROVE  IInv'
  BY <1>5, RecordDecisionStep, PlanAssumption
<1>6. ASSUME NEW r \in Reader, NEW f \in FeatureSet, PinReader(r, f)
      PROVE  IInv'
  BY <1>6, PinReaderStep
<1>7. ASSUME NEW r \in Reader, NEW k \in Key, SelectCandidate(r, k)
      PROVE  IInv'
  BY <1>7, SelectCandidateStep
<1>8. ASSUME NEW r \in Reader, SelectRow(r)
      PROVE  IInv'
  BY <1>8, SelectRowStep
<1>9. ASSUME NEW g \in Generation, NEW k \in Key, Damage(g, k)
      PROVE  IInv'
  BY <1>9, DamageStep
<1>10. ASSUME NEW p \in Plan, CallReconcile(p) \/ \E k \in Key : CallWriteRecord(p, k)
       PROVE  IInv'
  BY <1>10, CallStep
<1>11. CASE UNCHANGED vars
  <2>1. UNCHANGED <<store, damaged, mat, crashes, reader, receipts, answers>>
    BY <1>11 DEF vars, given
  <2>2. TypeOK'
    BY <2>1 DEF IInv, TypeOK, store
  <2>3. StoreInv'
    BY <2>1, StoreFrame DEF IInv
  <2>4. ClientInv' /\ AnswerInv'
    BY <2>1 DEF IInv, ClientInv, Stored, AnswerInv, Activated, Licensed, store
  <2>5. ReaderInv'
    BY <2>1, ReaderFrame DEF store, Published
  <2> QED BY <2>2, <2>3, <2>4, <2>5 DEF IInv
<1> QED
  BY <1>1, <1>2, <1>3, <1>4, <1>5, <1>6, <1>7, <1>8, <1>9, <1>10, <1>11 DEF Next

----------------------------------------------------------------------------
(* What the runs check on small instances, for every instance.             *)

(* The invariant holds in every reachable state of the store, for every    *)
(* instance.                                                               *)
THEOREM Invariance == Spec => []IInv
BY InitIInv, NextIInv, PTL DEF Spec

(* The tables keep their types, and only FOUND ever carries a value.       *)
THEOREM TypeCorrect == Spec => []TypeOK
<1>1. IInv => TypeOK
  BY DEF IInv
<1> QED BY <1>1, Invariance, PTL

(* However writers interleave, replay and die, a validated candidate holds *)
(* exactly the records its receipt certifies.                              *)
THEOREM ReceiptsHold == Spec => []ReceiptIsTruth
<1>1. IInv => ReceiptIsTruth
  BY DEF IInv, StoreInv
<1> QED BY <1>1, Invariance, PTL

(* The compare-and-swap keeps the pointers and the candidates' states in   *)
(* step.                                                                   *)
THEOREM PointersHold == Spec => []PointerNamesActive
<1>1. IInv => PointerNamesActive
  BY DEF IInv, StoreInv, PointerInv
<1> QED BY <1>1, Invariance, PTL

(* The pointer history is one gapless chain per feature set.               *)
THEOREM HistoryHolds == Spec => []HistoryChain
<1>1. IInv => HistoryChain
  BY DEF IInv, StoreInv
<1> QED BY <1>1, Invariance, PTL

(* What activate() and materialize() acknowledged stays true.              *)
THEOREM AnswersHold == Spec => []AnswersAreDurable
<1>1. ASSUME IInv PROVE AnswersAreDurable
  <2>1. \A a \in answers : /\ a.op \in OpId
                           /\ Activated(a.op)
                           /\ ops[a.op].request = a.request
                           /\ ops[a.op].result = a.result
    BY <1>1 DEF IInv, TypeOK, AnswerInv
  <2>2. \A a \in answers : Performed(a.op)
    BY <1>1, <2>1 DEF IInv, StoreInv, ActivationInv
  <2>3. \A a \in answers : /\ a.result \in history
                           /\ a.result.op = a.op
                           /\ a.result.to = a.request.gen
                           /\ a.result.from = a.request.expected.gen
                           /\ a.result.version = a.request.expected.version + 1
    BY <2>1, <2>2 DEF Performed
  <2>4. \A a, b \in answers : a.op = b.op => a.request = b.request /\ a.result = b.result
    BY <2>1
  <2>5. \A p \in receipts : /\ cand[PlanGen[p]].receipt = p
                            /\ ops[PlanOp[p]] = MaterializeRow(p, "COMPLETED")
    BY <1>1 DEF IInv, TypeOK, AnswerInv, StoreInv, CompletedInv
  <2> QED BY <2>3, <2>4, <2>5 DEF AnswersAreDurable
<1> QED BY <1>1, Invariance, PTL

(* What activate_with_decision answers is covered by the decision on       *)
(* record, though activate() may have committed it under any digest.       *)
THEOREM PolicyHolds == Spec => []PolicyGate
<1>1. ASSUME IInv PROVE PolicyGate
  <2> SUFFICES ASSUME NEW a \in answers, a.gated
               PROVE  LET d == decisions[a.op]
                      IN  /\ d # NoDecision
                          /\ d = ops[a.op].request.policy
                          /\ d.status = "ELIGIBLE" /\ ~d.reasons
                          /\ a.result.to = d.gen
                          /\ a.result.from = d.expected.gen
                          /\ a.result.version = d.expected.version + 1
                          /\ cand[d.gen].receipt = d.receipt
    BY Zenon DEF PolicyGate
  <2>1. /\ a.op \in OpId /\ Activated(a.op)
        /\ ops[a.op].request = a.request /\ ops[a.op].result = a.result
        /\ Licensed(a.op, a.request)
    BY <1>1 DEF IInv, TypeOK, AnswerInv
  <2>2. Performed(a.op)
    BY <1>1, <2>1 DEF IInv, StoreInv, ActivationInv
  <2> QED BY <2>1, <2>2 DEF Licensed, Performed
<1> QED BY <1>1, Invariance, PTL

(* A client that is through with its list is refused its receipt only for  *)
(* damage or an order its plan and rows do not share.                      *)
THEOREM RefusalsHold == Spec => []RefusedOnlyForDamage
<1>1. ASSUME IInv PROVE RefusedOnlyForDamage
  <2> SUFFICES ASSUME NEW c \in Client, NEW p \in Orderly, p = mat[c].plan,
                      mat[c].pc = "writing", mat[c].todo = {}, Intact(PlanGen[p])
               PROVE  Reconcilable(p)
    BY DEF RefusedOnlyForDamage
  <2> DEFINE g == PlanGen[p]
  <2>1. /\ p \in Plan /\ g \in Generation /\ p # NoPlan
        /\ PlanRows[p] \in [Key -> Content \union {Absent}]
        /\ rows[g] \in [Key -> Content \union {Absent}]
    BY <1>1, PlanAssumption, NullAssumption DEF IInv, TypeOK
  <2>2. cand[g].plan = p /\ \A k \in PlannedKeys(p) : rows[g][k] # Absent
    BY <1>1 DEF IInv, ClientInv, Stored
  <2>3. rows[g] = PlanRows[p]
    <3>1. \A k \in Key : rows[g][k] = PlanRows[p][k]
      BY <1>1, <2>1, <2>2 DEF IInv, StoreInv, RowInv, PlannedKeys
    <3> QED BY <2>1, <3>1
  <2>4. cand[g].state = "WRITING" \/ cand[g].receipt = p
    BY <1>1, <2>1, <2>2 DEF IInv, StoreInv, CandidateInv, ReceiptIsTruth
  <2> QED BY <2>2, <2>3, <2>4 DEF Reconcilable
<1> QED BY <1>1, Invariance, PTL

(* A pinned reader is served its generation's plan for good.               *)
THEOREM PinnedReadsHold == Spec => []PinnedReadsConsistent
<1>1. IInv => PinnedReadsConsistent
  BY DEF IInv, ReaderInv
<1> QED BY <1>1, Invariance, PTL

----------------------------------------------------------------------------
(* The refinement of Publication.                                          *)

(* A step that moves no pointer, publishes nothing and keeps the rows of   *)
(* what is published is a stutter of Publication.                          *)
LEMMA PublicationStutters ==
  ASSUME UNCHANGED <<ptr, history>>,
         \A g \in Generation : Published(g)' <=> Published(g),
         \A g \in Generation : Published(g) => rows'[g] = rows[g]
  PROVE  UNCHANGED Pub!vars
<1>1. VisibleRows' = VisibleRows
  BY DEF VisibleRows
<1>2. PublicationLog' = PublicationLog
  BY DEF PublicationLog
<1> QED BY <1>1, <1>2 DEF Pub!vars

(* A committed activation is one publication of a generation nobody had    *)
(* seen (activate).                                                        *)
LEMMA CommitPublishes ==
  ASSUME IInv, NEW o \in OpId, NEW req \in Request, NEW gated \in BOOLEAN,
         CommitActivation(o, req, gated)
  PROVE  Pub!Next
<1> DEFINE g == req.gen
           p == req.receipt
<1>1. PICK f \in FeatureSet, v \in Nat, from \in Generation \union {NoGeneration} :
        Commits(o, req, gated, f, v, from)
  BY CommitEffect
<1>2. /\ g \in Generation /\ p \in Plan /\ f = PlanFs[p]
      /\ cand[g].state = "VALIDATED" /\ cand[g].plan = p /\ rows[g] = PlanRows[p]
      /\ ptr[f].gen = from /\ ptr[f].version = v /\ from # g
      /\ UNCHANGED rows
      /\ \A h \in Generation : Published(h)' <=> Published(h) \/ h = g
  BY <1>1 DEF Commits
<1>3. PlanGen[p] = g
  BY <1>2, NullAssumption DEF IInv, StoreInv, CandidateInv
<1>4. VisibleRows[g] = Absent /\ ~Published(g)
  BY <1>2 DEF VisibleRows, Published
<1>5. PlanRows[p] \in PromisedRows[f][g]
  BY <1>2, <1>3 DEF PromisedRows
<1>6. VisibleRows' = [VisibleRows EXCEPT ![g] = PlanRows[p]]
  BY <1>2 DEF VisibleRows
<1>7. PublicationLog' = PublicationLog \union {[fs |-> f, version |-> v + 1, gen |-> g]}
  BY <1>1 DEF Commits, PublicationLog
<1>8. ptr' = [ptr EXCEPT ![f] = [gen |-> g, version |-> v + 1]]
  BY <1>1 DEF Commits
<1>9. Pub!MoveHead(f, g)
  BY <1>2, <1>7, <1>8 DEF Pub!MoveHead
<1>10. Pub!PublishFirst(f, g)
  BY <1>4, <1>5, <1>6, <1>9 DEF Pub!PublishFirst
<1> QED BY <1>2, <1>10 DEF Pub!Next

(* The empty store is an empty Publication.                                *)
LEMMA InitRefines == Init => Pub!Init
BY DEF Init, Pub!Init, VisibleRows, Published, PublicationLog

(* Every step of the store is a step or a stutter of Publication.          *)
LEMMA NextRefines == IInv /\ [Next]_vars => [Pub!Next]_(Pub!vars)
<1> SUFFICES ASSUME IInv, [Next]_vars PROVE Pub!Next \/ UNCHANGED Pub!vars
  OBVIOUS
<1>1. ASSUME UNCHANGED store PROVE UNCHANGED Pub!vars
  BY <1>1, PublicationStutters DEF store, Published
<1>2. ASSUME NEW c \in Client, NEW p \in Plan, BeginMaterialization(c, p)
      PROVE  UNCHANGED Pub!vars
  <2>1. PlanGen[p] \in Generation /\ UNCHANGED <<ptr, history, rows>>
    BY <1>2, PlanAssumption DEF BeginMaterialization
  <2>2. \/ UNCHANGED cand
        \/ /\ cand[PlanGen[p]].plan = NoPlan
           /\ cand' = [cand EXCEPT ![PlanGen[p]] =
                         [state |-> "WRITING", plan |-> p, receipt |-> NoPlan]]
    BY <1>2 DEF BeginMaterialization
  <2>3. cand[PlanGen[p]].plan = NoPlan => ~Published(PlanGen[p])
    BY <2>1 DEF IInv, StoreInv, CandidateInv, Published
  <2>4. ASSUME NEW h \in Generation
        PROVE  Published(h)' <=> Published(h)
    <3>1. CASE cand'[h] = cand[h]
      BY <3>1 DEF Published
    <3>2. CASE cand'[h] # cand[h]
      <4>1. h = PlanGen[p] /\ cand[h].plan = NoPlan /\ cand'[h].state = "WRITING"
        BY <2>2, <3>2 DEF IInv, TypeOK
      <4> QED BY <2>3, <4>1 DEF Published
    <3> QED BY <3>1, <3>2
  <2> QED BY <2>1, <2>4, PublicationStutters
<1>3. ASSUME NEW p \in Plan, NEW k \in Key, PutRecord(p, k)
      PROVE  UNCHANGED Pub!vars
  <2> DEFINE g == PlanGen[p]
  <2>1. /\ p \in Plan /\ g \in Generation /\ UNCHANGED <<ptr, history, cand>>
        /\ rows' = [rows EXCEPT ![g][k] = PlanRows[p][k]]
        /\ cand[g].plan = p
    BY <1>3, PlanAssumption DEF PutRecord, Writable
  <2>2. \A h \in Generation : Published(h) => rows'[h] = rows[h]
    <3> SUFFICES ASSUME NEW h \in Generation, Published(h) PROVE rows'[h] = rows[h]
      OBVIOUS
    <3>1. CASE h = g
      <4>1. rows[g] = PlanRows[p] /\ rows[g] \in [Key -> Content \union {Absent}]
        BY <2>1, <3>1 DEF IInv, StoreInv, ReceiptIsTruth, TypeOK, Published
      <4>2. rows'[g] = [rows[g] EXCEPT ![k] = PlanRows[p][k]]
        BY <2>1 DEF IInv, TypeOK
      <4> QED BY <3>1, <4>1, <4>2
    <3>2. CASE h # g
      BY <2>1, <3>2 DEF IInv, TypeOK
    <3> QED BY <3>1, <3>2
  <2> QED BY <2>1, <2>2, PublicationStutters DEF Published
<1>4. ASSUME NEW p \in Plan, IssueReceipt(p)
      PROVE  UNCHANGED Pub!vars
  <2> DEFINE g == PlanGen[p]
  <2>1. g \in Generation /\ UNCHANGED <<ptr, history, rows>>
    BY <1>4, PlanAssumption DEF IssueReceipt
  <2>2. \A h \in Generation : Published(h)' <=> Published(h)
    <3>1. CASE cand[g].state = "WRITING"
      <4>1. cand' = [cand EXCEPT ![g] = [state |-> "VALIDATED", plan |-> p, receipt |-> p]]
        BY <1>4, <3>1 DEF IssueReceipt
      <4> QED BY <2>1, <3>1, <4>1 DEF Published, IInv, TypeOK
    <3>2. CASE cand[g].state # "WRITING"
      BY <1>4, <3>2 DEF IssueReceipt, Published
    <3> QED BY <3>1, <3>2
  <2> QED BY <2>1, <2>2, PublicationStutters
<1>5. ASSUME NEW c \in Client, ClientStep(c)
      PROVE  UNCHANGED Pub!vars
  <2>1. \/ UNCHANGED store
        \/ \E k \in Key : WriteRecord(c, k)
        \/ Reconcile(c)
    BY <1>5 DEF ClientStep, ListMissing, WriteRefused, ReconcileRefused
  <2>2. mat[c].pc # "idle" => mat[c].plan \in Plan
    BY DEF IInv, TypeOK
  <2> QED BY <1>1, <1>3, <1>4, <2>1, <2>2 DEF WriteRecord, Reconcile
<1>6. ASSUME NEW o \in OpId, Activate(o) \/ ActivateWithDecision(o)
      PROVE  Pub!Next \/ UNCHANGED Pub!vars
  <2>1. PICK req \in Request, gated \in BOOLEAN : Act(o, req, gated)
    BY <1>6, ActivateStep, ActivateWithDecisionStep
  <2> QED BY <1>1, <2>1, CommitPublishes DEF Act, ReplayActivation
<1>7. ASSUME NEW o \in PolicyOps, RecordDecision(o)
      PROVE  UNCHANGED Pub!vars
  BY <1>7, PublicationStutters DEF RecordDecision, Published
<1>8. ASSUME NEW c \in Client, NEW p \in Plan, ReplayMaterialization(c, p)
      PROVE  UNCHANGED store
  BY <1>8 DEF ReplayMaterialization
<1>9. ASSUME NEW c \in Client, Crash(c)
      PROVE  UNCHANGED store
  BY <1>9 DEF Crash
<1>10. ASSUME NEW r \in Reader,
              \/ \E f \in FeatureSet : PinReader(r, f)
              \/ \E k \in Key : SelectCandidate(r, k)
              \/ SelectRow(r)
       PROVE  UNCHANGED store
  BY <1>10 DEF PinReader, SelectCandidate, SelectRow
<1>11. ASSUME NEW g \in Generation, NEW k \in Key, Damage(g, k)
       PROVE  UNCHANGED store
  BY <1>11 DEF Damage
<1>12. ASSUME NEW p \in Plan, CallReconcile(p) \/ \E k \in Key : CallWriteRecord(p, k)
       PROVE  UNCHANGED Pub!vars
  BY <1>3, <1>4, <1>12 DEF CallReconcile, CallWriteRecord
<1>13. CASE UNCHANGED vars
  BY <1>1, <1>13 DEF vars
<1> QED
  BY <1>1, <1>2, <1>5, <1>6, <1>7, <1>8, <1>9, <1>10, <1>11, <1>12, <1>13 DEF Next

(* The SQLite store, with its clients, crashes, races and replays, is a    *)
(* Publication: readers see a generation appear once, whole, for good.     *)
THEOREM Refinement == Spec => ImplementsPublication
BY Invariance, InitRefines, NextRefines, PTL DEF Spec, ImplementsPublication, Pub!Spec

=============================================================================
