---------------------------- MODULE FeatureStore ----------------------------
(***************************************************************************)
(* FeatureStore (store.py): the reference store of generations, their      *)
(* offline values, the online values staged from them, and one pointer.    *)
(*                                                                         *)
(* put_offline is one transaction.  stage_online, mark_ready and activate  *)
(* first look at the generation's status and only then, in a statement or  *)
(* transaction of its own, do their work: two actions each, with other     *)
(* connections to the same database in between.                            *)
(***************************************************************************)
EXTENDS Naturals, FiniteSets

CONSTANTS
  Generation, Key, Content, Client,
  MaxTime,       \* bound: offline values are of times 1 .. MaxTime, one for
                 \* each (event_time, knowledge_time) in their order
  MaxVersion,    \* bound: the last pointer version
  NoGeneration   \* the pointer before the first activation

ASSUME StoreAssumption ==
  /\ MaxTime \in Nat
  /\ MaxVersion \in Nat
  /\ NoGeneration \notin Generation

VARIABLES
  status,   \* generations: [Generation -> its status]
  offline,  \* offline_values: [Generation -> set of rows]
  online,   \* online_values: [Generation -> set of rows]
  ptr,      \* active_pointer: [gen, version]
  client,   \* [Client -> the call it is in the middle of]
  answers   \* every [gen, version] activate ever returned

vars == <<status, offline, online, ptr, client, answers>>

----------------------------------------------------------------------------
Row == [key: Key, time: 1 .. MaxTime, content: Content]

(* What stage_online selects, and what parity.latest expects to find: the  *)
(* row of each key with the greatest (event_time, knowledge_time).         *)
Latest(values) ==
  {r \in values : \A newer \in values : newer.key = r.key => newer.time <= r.time}

Call ==
  [pc: {"idle", "staging", "comparing", "matched", "readying"},
     gen: Generation \union {NoGeneration}, seen: SUBSET Row]
  \union [pc: {"activating"}, gen: Generation, expected: Nat]

Idle == [pc |-> "idle", gen |-> NoGeneration, seen |-> {}]
In(pc, g, seen) == [pc |-> pc, gen |-> g, seen |-> seen]

Init ==
  /\ status = [g \in Generation |-> "none"]
  /\ offline = [g \in Generation |-> {}]
  /\ online = [g \in Generation |-> {}]
  /\ ptr = [gen |-> NoGeneration, version |-> 0]
  /\ client = [c \in Client |-> Idle]
  /\ answers = {}

----------------------------------------------------------------------------
CreateGeneration(g) ==
  /\ status[g] = "none"
  /\ status' = [status EXCEPT ![g] = "building"]
  /\ UNCHANGED <<offline, online, ptr, client, answers>>

(* put_offline: all of the batch or, when a row is replayed with other     *)
(* content, nothing.  It asks for no status.                               *)
PutOffline(g) ==
  /\ status[g] # "none"
  /\ \E batch \in SUBSET Row \ {{}} :
       /\ \A r, s \in offline[g] \union batch :
            r.key = s.key /\ r.time = s.time => r = s
       /\ offline' = [offline EXCEPT ![g] = @ \union batch]
  /\ UNCHANGED <<status, online, ptr, client, answers>>

(* stage_online: the status is read, ...                                   *)
CheckStageable(c, g) ==
  /\ client[c] = Idle
  /\ status[g] = "building"
  /\ client' = [client EXCEPT ![c] = In("staging", g, {})]
  /\ UNCHANGED <<status, offline, online, ptr, answers>>

(* ... and the transaction replaces the online rows.                       *)
StageOnline(c) ==
  LET g == client[c].gen
  IN  /\ client[c].pc = "staging"
      /\ online' = [online EXCEPT ![g] = Latest(offline[g])]
      /\ client' = [client EXCEPT ![c] = Idle]
      /\ UNCHANGED <<status, offline, ptr, answers>>

(* compare_parity(offline_values(g), online_values(g)): two SELECTs.       *)
ReadOffline(c, g) ==
  /\ client[c] = Idle
  /\ status[g] # "none"
  /\ client' = [client EXCEPT ![c] = In("comparing", g, Latest(offline[g]))]
  /\ UNCHANGED <<status, offline, online, ptr, answers>>

CompareOnline(c) ==
  LET g == client[c].gen
  IN  /\ client[c].pc = "comparing"
      /\ client' = [client EXCEPT ![c] =
                      IF online[g] = client[c].seen THEN In("matched", g, {}) ELSE Idle]
      /\ UNCHANGED <<status, offline, online, ptr, answers>>

(* mark_ready, with parity matched: the status is read, ...                *)
CheckBuilding(c) ==
  LET g == client[c].gen
  IN  /\ client[c].pc = "matched"
      /\ client' = [client EXCEPT ![c] =
                      IF status[g] = "building" THEN In("readying", g, {}) ELSE Idle]
      /\ UNCHANGED <<status, offline, online, ptr, answers>>

(* ... and is overwritten, whatever it is by now.                          *)
MarkReady(c) ==
  /\ client[c].pc = "readying"
  /\ status' = [status EXCEPT ![client[c].gen] = "ready"]
  /\ client' = [client EXCEPT ![c] = Idle]
  /\ UNCHANGED <<offline, online, ptr, answers>>

(* activate, with the version of a pointer the caller once read: the       *)
(* status is read, ...                                                     *)
CheckPublishable(c, g) ==
  /\ client[c] = Idle
  /\ status[g] \in {"ready", "retired"}
  /\ \E expected \in 0 .. ptr.version :
       client' = [client EXCEPT ![c] = [pc |-> "activating", gen |-> g, expected |-> expected]]
  /\ UNCHANGED <<status, offline, online, ptr, answers>>

(* Mutant: the swap does not compare.                                      *)
VersionUnchecked(expected) == TRUE

VersionMatches(expected) == ptr.version = expected

(* Mutant: the replaced generation is not retired.                         *)
PromoteOnly(g, previous) ==
  [h \in Generation |-> IF h = g THEN "active" ELSE status[h]]

Promote(g, previous) ==
  [h \in Generation |->
     IF h = g THEN "active" ELSE IF h = previous THEN "retired" ELSE status[h]]

(* ... and the transaction swaps the pointer, if its version is the        *)
(* expected one.                                                           *)
Activate(c) ==
  LET g == client[c].gen
      expected == client[c].expected
  IN  /\ client[c].pc = "activating"
      /\ ptr.version < MaxVersion
      /\ VersionMatches(expected)
      /\ ptr' = [gen |-> g, version |-> ptr.version + 1]
      /\ status' = Promote(g, ptr.gen)
      /\ answers' = answers \union {[gen |-> g, version |-> expected + 1]}
      /\ client' = [client EXCEPT ![c] = Idle]
      /\ UNCHANGED <<offline, online>>

ActivateRefused(c) ==
  /\ client[c].pc = "activating"
  /\ ~VersionMatches(client[c].expected)
  /\ client' = [client EXCEPT ![c] = Idle]
  /\ UNCHANGED <<status, offline, online, ptr, answers>>

ClientStep(c) ==
  \/ \E g \in Generation : CheckStageable(c, g) \/ ReadOffline(c, g) \/ CheckPublishable(c, g)
  \/ StageOnline(c)
  \/ CompareOnline(c)
  \/ CheckBuilding(c)
  \/ MarkReady(c)
  \/ Activate(c)
  \/ ActivateRefused(c)

Next ==
  \/ \E g \in Generation : CreateGeneration(g) \/ PutOffline(g)
  \/ \E c \in Client : ClientStep(c)

Spec == Init /\ [][Next]_vars

----------------------------------------------------------------------------
(* Properties.                                                             *)

(* The tables hold what their columns declare; online_values has one row   *)
(* for a key, as its primary key demands of what stage_online inserts.     *)
TypeOK ==
  /\ status \in [Generation -> {"none", "building", "ready", "active", "retired"}]
  /\ offline \in [Generation -> SUBSET Row]
  /\ online \in [Generation -> SUBSET Row]
  /\ \A g \in Generation : \A r, s \in online[g] : r.key = s.key => r = s
  /\ ptr \in [gen: Generation \union {NoGeneration}, version: Nat]
  /\ client \in [Client -> Call]
  /\ answers \subseteq [gen: Generation, version: Nat]

(* However calls with stale statuses interleave, the pointer names a       *)
(* generation that is active, or that a late mark_ready set back to ready, *)
(* and no other generation is active (mark_ready, activate).               *)
PointerIsProven ==
  /\ ptr.gen # NoGeneration => status[ptr.gen] \in {"active", "ready"}
  /\ \A g \in Generation : status[g] = "active" => ptr.gen = g

(* Publishers with stale versions race: each version is handed out exactly *)
(* once, and the last one went to the generation the pointer names         *)
(* (activate).                                                             *)
EachVersionOnce ==
  /\ {a.version : a \in answers} = 1 .. ptr.version
  /\ Cardinality(answers) = ptr.version
  /\ \A a \in answers : a.version = ptr.version => a.gen = ptr.gen

=============================================================================
