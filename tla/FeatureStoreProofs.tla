------------------------- MODULE FeatureStoreProofs -------------------------
(***************************************************************************)
(* Proofs about FeatureStore, for any generations, keys, contents and      *)
(* clients, and for any bound on times and versions.                       *)
(***************************************************************************)
EXTENDS FeatureStore, FiniteSetTheorems, TLAPS

(* put_offline keeps one content for a key and a time, which is why the    *)
(* rows stage_online selects are one for each key.                         *)
OfflineInv ==
  \A g \in Generation :
    \A r, s \in offline[g] : r.key = s.key /\ r.time = s.time => r = s

AnswerInv == IsFiniteSet(answers) /\ EachVersionOnce

IInv == TypeOK /\ OfflineInv /\ PointerIsProven /\ AnswerInv

----------------------------------------------------------------------------
(* The rows selected are rows, one for each key.                           *)
LEMMA LatestRows ==
  ASSUME NEW values \in SUBSET Row,
         \A r, s \in values : r.key = s.key /\ r.time = s.time => r = s
  PROVE  /\ Latest(values) \in SUBSET Row
         /\ \A r, s \in Latest(values) : r.key = s.key => r = s
<1>1. Latest(values) \subseteq values
  BY DEF Latest
<1>2. ASSUME NEW r \in Latest(values), NEW s \in Latest(values), r.key = s.key
      PROVE  r = s
  <2>1. r.time <= s.time /\ s.time <= r.time
    BY <1>2 DEF Latest
  <2>2. r.time \in Nat /\ s.time \in Nat
    BY <1>1, <1>2 DEF Row
  <2> QED BY <1>1, <1>2, <2>1, <2>2
<1> QED BY <1>1, <1>2

(* A client in the middle of a call.                                       *)
LEMMA CallTypes ==
  ASSUME TypeOK, NEW c \in Client
  PROVE  /\ client[c].pc \in {"staging", "comparing", "matched", "readying"} =>
              /\ client[c].gen \in Generation \union {NoGeneration}
              /\ client[c].seen \in SUBSET Row
         /\ client[c].pc = "activating" =>
              client[c].gen \in Generation /\ client[c].expected \in Nat
<1>1. client[c] \in Call
  BY DEF TypeOK
<1> QED BY <1>1 DEF Call

(* What a step leaves alone.                                               *)
LEMMA ClientMoves ==
  ASSUME TypeOK, NEW c \in Client, NEW call \in Call,
         client' = [client EXCEPT ![c] = call]
  PROVE  client' \in [Client -> Call]
BY DEF TypeOK

LEMMA IdleIsCall == Idle \in Call
BY DEF Idle, Call

LEMMA InIsCall ==
  ASSUME NEW pc \in {"idle", "staging", "comparing", "matched", "readying"},
         NEW g \in Generation \union {NoGeneration}, NEW seen \in SUBSET Row
  PROVE  In(pc, g, seen) \in Call
BY DEF In, Call

LEMMA TablesKept ==
  ASSUME IInv, UNCHANGED <<status, offline, online, ptr, answers>>,
         client' \in [Client -> Call]
  PROVE  IInv'
BY DEF IInv, TypeOK, OfflineInv, PointerIsProven, AnswerInv, EachVersionOnce

----------------------------------------------------------------------------
LEMMA CreateGenerationStep ==
  ASSUME IInv, NEW g \in Generation, CreateGeneration(g)
  PROVE  IInv'
<1> USE DEF IInv, CreateGeneration
<1>1. TypeOK'
  BY DEF TypeOK
<1>2. PointerIsProven'
  BY DEF PointerIsProven, TypeOK
<1>3. OfflineInv' /\ AnswerInv'
  BY DEF OfflineInv, AnswerInv, EachVersionOnce
<1> QED BY <1>1, <1>2, <1>3

LEMMA PutOfflineStep ==
  ASSUME IInv, NEW g \in Generation, PutOffline(g)
  PROVE  IInv'
<1> USE DEF IInv, PutOffline
<1>1. PICK batch \in SUBSET Row \ {{}} :
        /\ \A r, s \in offline[g] \union batch :
             r.key = s.key /\ r.time = s.time => r = s
        /\ offline' = [offline EXCEPT ![g] = @ \union batch]
  OBVIOUS
<1>2. TypeOK'
  BY <1>1 DEF TypeOK
<1>3. OfflineInv'
  BY <1>1 DEF OfflineInv, TypeOK
<1>4. PointerIsProven' /\ AnswerInv'
  BY DEF PointerIsProven, AnswerInv, EachVersionOnce
<1> QED BY <1>2, <1>3, <1>4

LEMMA StageOnlineStep ==
  ASSUME IInv, NEW c \in Client, StageOnline(c)
  PROVE  IInv'
<1> DEFINE g == client[c].gen
<1> USE DEF IInv, StageOnline
<1>1. CASE g \in Generation
  <2>1. /\ Latest(offline[g]) \in SUBSET Row
        /\ \A r, s \in Latest(offline[g]) : r.key = s.key => r = s
    BY <1>1, LatestRows DEF TypeOK, OfflineInv
  <2>2. client' \in [Client -> Call]
    BY ClientMoves, IdleIsCall
  <2>3. TypeOK'
    BY <1>1, <2>1, <2>2 DEF TypeOK
  <2>4. OfflineInv' /\ PointerIsProven' /\ AnswerInv'
    BY DEF OfflineInv, PointerIsProven, AnswerInv, EachVersionOnce
  <2> QED BY <2>3, <2>4
<1>2. CASE g = NoGeneration
  <2>1. online' = online
    BY <1>2, StoreAssumption DEF TypeOK
  <2>2. client' \in [Client -> Call]
    BY ClientMoves, IdleIsCall
  <2> QED BY <2>1, <2>2, TablesKept
<1> QED BY <1>1, <1>2, CallTypes

LEMMA MarkReadyStep ==
  ASSUME IInv, NEW c \in Client, MarkReady(c)
  PROVE  IInv'
<1> USE DEF IInv, MarkReady
<1>1. client' \in [Client -> Call]
  BY ClientMoves, IdleIsCall
<1>2. TypeOK'
  BY <1>1 DEF TypeOK
<1>3. PointerIsProven'
  BY DEF PointerIsProven, TypeOK
<1>4. OfflineInv' /\ AnswerInv'
  BY DEF OfflineInv, AnswerInv, EachVersionOnce
<1> QED BY <1>2, <1>3, <1>4

(* The swap hands out the next version: it was never handed out before.    *)
LEMMA ActivateStep ==
  ASSUME IInv, NEW c \in Client, Activate(c)
  PROVE  IInv'
<1> DEFINE g == client[c].gen
           answer == [gen |-> g, version |-> client[c].expected + 1]
<1> USE DEF IInv
<1>1. /\ g \in Generation
      /\ client[c].expected = ptr.version
      /\ ptr' = [gen |-> g, version |-> ptr.version + 1]
      /\ status' = Promote(g, ptr.gen)
      /\ answers' = answers \union {answer}
      /\ client' = [client EXCEPT ![c] = Idle]
      /\ UNCHANGED <<offline, online>>
  BY CallTypes DEF Activate, VersionMatches
<1>2. ptr.version \in Nat /\ answer.version = ptr.version + 1 /\ answer.gen = g
  BY <1>1 DEF TypeOK
<1>3. TypeOK'
  <2>1. status' \in [Generation -> {"none", "building", "ready", "active", "retired"}]
    BY <1>1 DEF TypeOK, Promote
  <2>2. ptr' \in [gen: Generation \union {NoGeneration}, version: Nat]
        /\ answers' \subseteq [gen: Generation, version: Nat]
    BY <1>1, <1>2 DEF TypeOK
  <2>3. client' \in [Client -> Call]
    BY <1>1, ClientMoves, IdleIsCall
  <2> QED BY <1>1, <2>1, <2>2, <2>3 DEF TypeOK
<1>4. PointerIsProven'
  BY <1>1, <1>2 DEF PointerIsProven, Promote
<1>5. OfflineInv'
  BY <1>1 DEF OfflineInv
<1>6. AnswerInv'
  <2>1. answer \notin answers
    <3>1. \A a \in answers : a.version \in 1 .. ptr.version
      BY DEF AnswerInv, EachVersionOnce
    <3> QED BY <1>2, <3>1
  <2>2. IsFiniteSet(answers') /\ Cardinality(answers') = ptr.version + 1
    BY <1>1, <2>1, FS_AddElement DEF AnswerInv, EachVersionOnce
  <2>3. {a.version : a \in answers'} = 1 .. ptr.version + 1
    <3>1. {a.version : a \in answers'} = {a.version : a \in answers} \union {answer.version}
      BY <1>1
    <3> QED BY <1>2, <3>1 DEF AnswerInv, EachVersionOnce
  <2>4. \A a \in answers' : a.version = ptr.version + 1 => a.gen = g
    <3>1. \A a \in answers : a.version \in 1 .. ptr.version
      BY DEF AnswerInv, EachVersionOnce
    <3> QED BY <1>1, <1>2, <3>1
  <2> QED BY <1>1, <2>2, <2>3, <2>4 DEF AnswerInv, EachVersionOnce
<1> QED BY <1>3, <1>4, <1>5, <1>6

(* The steps that only look.                                               *)
LEMMA LookStep ==
  ASSUME IInv, NEW c \in Client,
         \/ \E g \in Generation :
              CheckStageable(c, g) \/ ReadOffline(c, g) \/ CheckPublishable(c, g)
         \/ CompareOnline(c)
         \/ CheckBuilding(c)
         \/ ActivateRefused(c)
  PROVE  IInv'
<1>1. TypeOK
  BY DEF IInv
<1>2. ASSUME NEW g \in Generation, CheckStageable(c, g)
      PROVE  IInv'
  BY <1>1, <1>2, ClientMoves, InIsCall, TablesKept DEF CheckStageable
<1>3. ASSUME NEW g \in Generation, ReadOffline(c, g)
      PROVE  IInv'
  <2>1. Latest(offline[g]) \in SUBSET Row
    BY <1>1 DEF TypeOK, Latest
  <2> QED BY <1>1, <1>3, <2>1, ClientMoves, InIsCall, TablesKept DEF ReadOffline
<1>4. ASSUME NEW g \in Generation, CheckPublishable(c, g)
      PROVE  IInv'
  <2>1. PICK expected \in 0 .. ptr.version :
          client' = [client EXCEPT ![c] =
                       [pc |-> "activating", gen |-> g, expected |-> expected]]
    BY <1>4 DEF CheckPublishable
  <2>2. [pc |-> "activating", gen |-> g, expected |-> expected] \in Call
    BY DEF Call
  <2> QED BY <1>1, <1>4, <2>1, <2>2, ClientMoves, TablesKept DEF CheckPublishable
<1>5. CASE CompareOnline(c)
  BY <1>1, <1>5, CallTypes, ClientMoves, InIsCall, IdleIsCall, TablesKept
  DEF CompareOnline
<1>6. CASE CheckBuilding(c)
  BY <1>1, <1>6, CallTypes, ClientMoves, InIsCall, IdleIsCall, TablesKept
  DEF CheckBuilding
<1>7. CASE ActivateRefused(c)
  BY <1>1, <1>7, ClientMoves, IdleIsCall, TablesKept DEF ActivateRefused
<1> QED BY <1>2, <1>3, <1>4, <1>5, <1>6, <1>7

LEMMA InitHolds == Init => IInv
<1> SUFFICES ASSUME Init PROVE IInv
  OBVIOUS
<1>1. TypeOK
  BY IdleIsCall DEF Init, TypeOK
<1>2. OfflineInv /\ PointerIsProven
  BY DEF Init, OfflineInv, PointerIsProven
<1>3. AnswerInv
  BY FS_EmptySet DEF Init, AnswerInv, EachVersionOnce
<1> QED BY <1>1, <1>2, <1>3 DEF IInv

LEMMA NextHolds == IInv /\ [Next]_vars => IInv'
<1> SUFFICES ASSUME IInv, [Next]_vars PROVE IInv'
  OBVIOUS
<1>1. CASE UNCHANGED vars
  BY <1>1, TablesKept DEF vars, IInv, TypeOK
<1>2. ASSUME NEW c \in Client, ClientStep(c)
      PROVE  IInv'
  BY <1>2, StageOnlineStep, MarkReadyStep, ActivateStep, LookStep DEF ClientStep
<1> QED BY <1>1, <1>2, CreateGenerationStep, PutOfflineStep DEF Next

(* However calls interleave, types, pointer and answers are as above.      *)
THEOREM Invariance == Spec => []IInv
BY InitHolds, NextHolds, PTL DEF Spec

(* The tables hold what their columns and keys declare; in particular      *)
(* stage_online never inserts two rows for a key.                          *)
THEOREM TypeCorrect == Spec => []TypeOK
<1>1. IInv => TypeOK
  BY DEF IInv
<1> QED BY <1>1, Invariance, PTL

(* The pointer names a generation that is active, or that a late           *)
(* mark_ready set back to ready, and no other is active.                   *)
THEOREM PointerHolds == Spec => []PointerIsProven
<1>1. IInv => PointerIsProven
  BY DEF IInv
<1> QED BY <1>1, Invariance, PTL

(* Publishers with stale versions race, and activate hands out each        *)
(* version exactly once.                                                   *)
THEOREM VersionsHold == Spec => []EachVersionOnce
<1>1. IInv => EachVersionOnce
  BY DEF IInv, AnswerInv
<1> QED BY <1>1, Invariance, PTL

=============================================================================
