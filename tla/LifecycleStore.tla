--------------------------- MODULE LifecycleStore ---------------------------
(***************************************************************************)
(* LifecycleStore (lifecycle.py): the SQLite authority that takes a        *)
(* generation from CREATED through BUILDING, VALIDATING and READY to       *)
(* ACTIVE and RETIRED, publishes and rolls back by compare-and-swap on one *)
(* pointer, and serves readers that pinned a generation.                   *)
(*                                                                         *)
(* A method that runs in one BEGIN IMMEDIATE transaction is one action; a  *)
(* call that raises rolls back and is no step.  put_artifact, pin_reader   *)
(* and read_pinned make several statements outside any transaction, which  *)
(* other connections interleave with.                                      *)
(***************************************************************************)
EXTENDS Naturals, FiniteSets

CONSTANTS
  Generation, Key, Content, OpId, Artifact, ArtifactId, Writer, Reader,
  IdOf,        \* [Artifact -> ArtifactId]: the (kind, artifact_id) it claims
  ArtifactRows,\* [Artifact -> [Key -> Content or Absent]]
  ManifestRows,\* [Generation -> [Key -> Content or Absent]]: candidate_digest
  Links,       \* [Generation -> SUBSET Artifact]: the digests the manifest links
  Authorities, \* the artifacts of kind expected-current
  Offered,     \* [Generation -> [Key -> SUBSET Content]]: what builders may write
  Predecessors,\* [Generation -> SUBSET generations or none]: bound on manifests
  MaxVersion,  \* bound: the last pointer version
  MaxTampers,  \* bound: how many stored rows are changed from outside
  NoGeneration, NoReceipt, NoOp, NoArtifact, NoToken, NoKey, NoResult, Absent

GenerationOrNone == Generation \union {NoGeneration}
Rows == [Key -> Content \union {Absent}]

(* One element of Artifact is one artifact_digest.                         *)
ASSUME LifecycleAssumption ==
  /\ IdOf \in [Artifact -> ArtifactId]
  /\ ArtifactRows \in [Artifact -> Rows]
  /\ ManifestRows \in [Generation -> Rows]
  /\ Links \in [Generation -> SUBSET Artifact]
  /\ Authorities \subseteq Artifact
  /\ Offered \in [Generation -> [Key -> SUBSET Content]]
  /\ Predecessors \in [Generation -> SUBSET GenerationOrNone]
  /\ MaxVersion \in Nat
  /\ MaxTampers \in Nat

VARIABLES
  artifacts, \* artifacts: [ArtifactId -> Artifact or NoArtifact]
  gens,      \* generations and validation_receipts: [Generation -> its row]
  rows,      \* candidate_values: [Generation -> [Key -> Content or Absent]]
  tampered,  \* the rows changed behind the store's back: <<generation, key,
             \* the pointer's version when it happened>>
  ptr,       \* active_pointer: [gen, version]
  history,   \* pointer_history: the set of its rows
  ops,       \* operations: [OpId -> operation row or NoOp]
  writer,    \* clients inside put_artifact: [Writer -> [pc, artifact]]
  reader,    \* readers: [Reader -> [phase, token, key, result]]
  answers    \* every publication receipt ever returned: [op, request, result]

tables  == <<artifacts, gens, rows, ptr, history, ops>>
clients == <<writer, reader>>
vars    == <<tables, tampered, clients, answers>>

----------------------------------------------------------------------------
(* The tables' rows.                                                       *)

Status ==
  {"NONE", "CREATED", "BUILDING", "VALIDATING", "READY", "ACTIVE", "RETIRED", "FAILED"}

(* What validate_candidate puts on record: whether everything matched, and *)
(* the digest of the rows it saw.                                          *)
Receipt == [matched: BOOLEAN, actual: Rows]

GenerationRow ==
  [status: Status, predecessor: GenerationOrNone, receipt: Receipt \union {NoReceipt}]

Pointer == [gen: GenerationOrNone, version: Nat]
Kind    == {"activate", "rollback"}
Request == [gen: Generation, expected: Pointer, kind: Kind]
HistoryEntry ==
  [version: Nat, from: GenerationOrNone, to: Generation, kind: Kind, op: OpId]
Operation == [request: Request, result: HistoryEntry]
Token == [gen: Generation, version: Nat]
Result ==
  [status: {"VALUE", "EXPIRED", "NO_ROW", "UNAVAILABLE"},
   gen: Generation, key: Key, content: Content \union {Absent}]

(* Each null stands for the absence of a row, and is none.                 *)
ASSUME NullAssumption ==
  /\ NoGeneration \notin Generation
  /\ Absent \notin Content
  /\ NoReceipt \notin Receipt
  /\ NoOp \notin Operation
  /\ NoArtifact \notin Artifact
  /\ NoToken \notin Token
  /\ NoKey \notin Key
  /\ NoResult \notin Result

Published(g) == gens[g].status \in {"ACTIVE", "RETIRED"}

(* What pointer() has ever returned.                                       *)
PastPointers ==
  {[gen |-> NoGeneration, version |-> 0]}
    \union {[gen |-> h.to, version |-> h.version] : h \in history}

Init ==
  /\ artifacts = [i \in ArtifactId |-> NoArtifact]
  /\ gens = [g \in Generation |->
               [status |-> "NONE", predecessor |-> NoGeneration, receipt |-> NoReceipt]]
  /\ rows = [g \in Generation |-> [k \in Key |-> Absent]]
  /\ tampered = {}
  /\ ptr = [gen |-> NoGeneration, version |-> 0]
  /\ history = {}
  /\ ops = [o \in OpId |-> NoOp]
  /\ writer = [w \in Writer |-> [pc |-> "idle", artifact |-> NoArtifact]]
  /\ reader = [r \in Reader |->
                 [phase |-> "new", token |-> NoToken, key |-> NoKey, result |-> NoResult]]
  /\ answers = {}

----------------------------------------------------------------------------
(* put_artifact(): the check that the identity is free is made before the  *)
(* transaction that inserts.                                               *)

FoundFree(i) == artifacts[i] = NoArtifact

CheckArtifact(w, a) ==
  /\ writer[w].pc \in {"idle", "done"}
  /\ FoundFree(IdOf[a]) \/ artifacts[IdOf[a]] = a
  /\ writer' = [writer EXCEPT ![w] =
                  [pc |-> IF FoundFree(IdOf[a]) THEN "inserting" ELSE "done", artifact |-> a]]
  /\ UNCHANGED <<tables, tampered, reader, answers>>

(* Mutant: the insert replaces what another writer put there meanwhile.    *)
AlwaysInsertable(i) == TRUE

(* The primary key takes the first row for an identity and no other.       *)
Insertable(i) == artifacts[i] = NoArtifact

InsertArtifact(w) ==
  LET a == writer[w].artifact
  IN  /\ writer[w].pc = "inserting"
      /\ IF Insertable(IdOf[a])
         THEN /\ artifacts' = [artifacts EXCEPT ![IdOf[a]] = a]
              /\ writer' = [writer EXCEPT ![w].pc = "done"]
         ELSE /\ writer' = [writer EXCEPT ![w].pc = "integrity_error"]
              /\ UNCHANGED artifacts
      /\ UNCHANGED <<gens, rows, ptr, history, ops, tampered, reader, answers>>

----------------------------------------------------------------------------
(* Building a candidate.                                                   *)

(* create_generation: the manifest, with the predecessor it was built for, *)
(* is immutable from here on.  The predecessor need not exist yet.         *)
CreateGeneration(g) ==
  /\ gens[g].status = "NONE"
  /\ \E predecessor \in Predecessors[g] :
       gens' = [gens EXCEPT ![g] =
         [status |-> "CREATED", predecessor |-> predecessor, receipt |-> NoReceipt]]
  /\ UNCHANGED <<artifacts, rows, ptr, history, ops, tampered, clients, answers>>

(* begin_build; while BUILDING it does nothing.                            *)
BeginBuild(g) ==
  /\ gens[g].status = "CREATED"
  /\ gens' = [gens EXCEPT ![g].status = "BUILDING"]
  /\ UNCHANGED <<artifacts, rows, ptr, history, ops, tampered, clients, answers>>

(* put_candidate_batch writes into this generation only while it is built. *)
Batchable(g) == gens[g].status = "BUILDING"

(* The whole batch is one transaction: exact replays are skipped, a key    *)
(* replayed with other content rolls everything back.                      *)
PutCandidateBatch(g) ==
  \E keys \in SUBSET Key \ {{}} : \E batch \in [keys -> Content] :
    /\ Batchable(g)
    /\ \A k \in keys : batch[k] \in Offered[g][k] /\ rows[g][k] \in {Absent, batch[k]}
    /\ rows' = [rows EXCEPT ![g] =
                  [k \in Key |-> IF k \in keys THEN batch[k] ELSE rows[g][k]]]
    /\ UNCHANGED <<artifacts, gens, ptr, history, ops, tampered, clients, answers>>

(* Whoever seals may do so between two batches of another builder.         *)
SealCandidate(g) ==
  /\ gens[g].status = "BUILDING"
  /\ gens' = [gens EXCEPT ![g].status = "VALIDATING"]
  /\ UNCHANGED <<artifacts, rows, ptr, history, ops, tampered, clients, answers>>

LinksValid(g) == \A a \in Links[g] : \E i \in ArtifactId : artifacts[i] = a

(* Mutant: the candidate is only compared with its own manifest.           *)
MatchesManifest(g, authority) == rows[g] = ManifestRows[g] /\ LinksValid(g)

(* The candidate is, row for row, the expected artifact's and the          *)
(* manifest's, and every artifact the manifest links is stored.            *)
Matches(g, authority) ==
  /\ rows[g] = ArtifactRows[authority]
  /\ rows[g] = ManifestRows[g]
  /\ LinksValid(g)

(* validate_candidate: a failing receipt is persisted too.  Without the    *)
(* expected artifact the call raises and the candidate stays VALIDATING.   *)
ValidateCandidate(g, authority) ==
  LET matched == Matches(g, authority)
  IN  /\ gens[g].status = "VALIDATING"
      /\ artifacts[IdOf[authority]] = authority
      /\ gens' = [gens EXCEPT
           ![g].receipt = [matched |-> matched, actual |-> rows[g]],
           ![g].status = IF matched THEN "READY" ELSE "FAILED"]
      /\ UNCHANGED <<artifacts, rows, ptr, history, ops, tampered, clients, answers>>

Tampered(g, k) == \E t \in tampered : t[1] = g /\ t[2] = k

(* Someone changes a row_json in the file of a candidate that is sealed.   *)
Tamper(g, k) ==
  /\ gens[g].status \notin {"NONE", "CREATED", "BUILDING"}
  /\ Cardinality(tampered) < MaxTampers
  /\ ~Tampered(g, k)
  /\ rows[g][k] # Absent
  /\ \E content \in Offered[g][k] \ {rows[g][k]} : rows' = [rows EXCEPT ![g][k] = content]
  /\ tampered' = tampered \union {<<g, k, ptr.version>>}
  /\ UNCHANGED <<artifacts, gens, ptr, history, ops, clients, answers>>

----------------------------------------------------------------------------
(* publish().                                                              *)

Answer(o, req, result) == [op |-> o, request |-> req, result |-> result]

(* Mutant: a replay is recognised by its operation alone.                  *)
SameOperation(o, req) == ops[o] # NoOp

SameRequest(o, req) == ops[o] # NoOp /\ ops[o].request = req

(* The acknowledgement was lost, or the caller asks again.                 *)
ReplayPublish(o, req) ==
  /\ SameRequest(o, req)
  /\ answers' = answers \union {Answer(o, req, ops[o].result)}
  /\ UNCHANGED <<tables, tampered, clients>>

(* The statuses a publication of this kind may start from.                 *)
Eligible(kind) == IF kind = "activate" THEN {"READY"} ELSE {"RETIRED"}

(* Mutant: the receipt is believed without reading the rows again.         *)
StillTrusted(g) == gens[g].receipt # NoReceipt /\ gens[g].receipt.matched

(* The receipt is on record, says matched, and is still true of the rows.  *)
StillValid(g) ==
  /\ gens[g].receipt # NoReceipt
  /\ gens[g].receipt.matched
  /\ rows[g] = gens[g].receipt.actual
  /\ rows[g] = ManifestRows[g]

(* Mutant: any eligible generation follows any other.                      *)
ForAnyPredecessor(req) == TRUE

(* A generation is activated over the predecessor it was built for.        *)
ForPredecessor(req) ==
  req.kind = "activate" => gens[req.gen].predecessor = req.expected.gen

(* The statuses after g replaced the generation from.                      *)
Promote(g, from) ==
  [h \in Generation |->
     IF h = g THEN [gens[h] EXCEPT !.status = "ACTIVE"]
     ELSE IF h = from THEN [gens[h] EXCEPT !.status = "RETIRED"]
     ELSE gens[h]]

(* Mutant: the swap does not compare.                                      *)
PointerUnchecked(expected) == TRUE

(* The compare half of the compare-and-swap.                               *)
PointerMatches(expected) == ptr = expected

CommitPublish(o, req) ==
  LET g     == req.gen
      entry == [version |-> req.expected.version + 1, from |-> ptr.gen, to |-> g,
                kind |-> req.kind, op |-> o]
  IN  /\ ops[o] = NoOp
      /\ ptr.version < MaxVersion
      /\ PointerMatches(req.expected)
      /\ gens[g].status \in Eligible(req.kind)
      /\ StillValid(g)
      /\ ForPredecessor(req)
      /\ ptr' = [gen |-> g, version |-> ptr.version + 1]
      /\ gens' = Promote(g, ptr.gen)
      /\ history' = history \union {entry}
      /\ ops' = [ops EXCEPT ![o] = [request |-> req, result |-> entry]]
      /\ answers' = answers \union {Answer(o, req, entry)}
      /\ UNCHANGED <<artifacts, rows, tampered, clients>>

(* A publisher expects a pointer it once read, perhaps long ago.           *)
Publish(o) ==
  \E g \in Generation, kind \in Kind, expected \in PastPointers :
    LET req == [gen |-> g, expected |-> expected, kind |-> kind]
    IN  ReplayPublish(o, req) \/ CommitPublish(o, req)

----------------------------------------------------------------------------
(* pin_reader() and read_pinned(): two SELECTs, no transaction.            *)

PinReader(r) ==
  /\ reader[r].phase \in {"new", "pinned"}
  /\ ptr.gen # NoGeneration
  /\ reader' = [reader EXCEPT ![r] =
                  [phase |-> "pinned", key |-> NoKey, result |-> NoResult,
                   token |-> [gen |-> ptr.gen, version |-> ptr.version]]]
  /\ UNCHANGED <<tables, tampered, writer, answers>>

(* The statuses a pinned generation may be read in.                        *)
ReadableStatuses == {"ACTIVE", "RETIRED"}

ReadResult(g, k, status, content) ==
  [status |-> status, gen |-> g, key |-> k, content |-> content]

SelectGeneration(r, k) ==
  LET t == reader[r].token
  IN  /\ reader[r].phase = "pinned"
      /\ reader' = [reader EXCEPT ![r] =
           IF gens[t.gen].status \in ReadableStatuses
           THEN [phase |-> "selected", token |-> t, key |-> k, result |-> NoResult]
           ELSE [phase |-> "pinned", token |-> t, key |-> NoKey,
                 result |-> ReadResult(t.gen, k, "UNAVAILABLE", Absent)]]
      /\ UNCHANGED <<tables, tampered, writer, answers>>

(* A row may have outlived its TTL at the time of the request.             *)
RowStatuses(g, k) == IF rows[g][k] = Absent THEN {"NO_ROW"} ELSE {"VALUE", "EXPIRED"}

SelectValue(r) ==
  LET t == reader[r].token
      k == reader[r].key
  IN  /\ reader[r].phase = "selected"
      /\ \E status \in RowStatuses(t.gen, k) :
           LET content == IF status = "VALUE" THEN rows[t.gen][k] ELSE Absent
           IN  reader' = [reader EXCEPT ![r] =
                 [phase |-> "pinned", token |-> t, key |-> NoKey,
                  result |-> ReadResult(t.gen, k, status, content)]]
      /\ UNCHANGED <<tables, tampered, writer, answers>>

----------------------------------------------------------------------------
Next ==
  \/ \E w \in Writer, a \in Artifact : CheckArtifact(w, a)
  \/ \E w \in Writer : InsertArtifact(w)
  \/ \E g \in Generation :
       \/ CreateGeneration(g)
       \/ BeginBuild(g)
       \/ PutCandidateBatch(g)
       \/ SealCandidate(g)
       \/ \E authority \in Authorities : ValidateCandidate(g, authority)
       \/ \E k \in Key : Tamper(g, k)
  \/ \E o \in OpId : Publish(o)
  \/ \E r \in Reader : PinReader(r) \/ SelectValue(r) \/ \E k \in Key : SelectGeneration(r, k)

Spec == Init /\ [][Next]_vars

----------------------------------------------------------------------------
(* Properties.                                                             *)

(* The tables hold what their columns declare, and only VALUE carries one. *)
TypeOK ==
  /\ artifacts \in [ArtifactId -> Artifact \union {NoArtifact}]
  /\ gens \in [Generation -> GenerationRow]
  /\ rows \in [Generation -> Rows]
  /\ tampered \subseteq Generation \X Key \X Nat
  /\ ptr \in Pointer
  /\ history \subseteq HistoryEntry
  /\ ops \in [OpId -> Operation \union {NoOp}]
  /\ writer \in [Writer -> [pc: {"idle", "inserting", "done", "integrity_error"},
                            artifact: Artifact \union {NoArtifact}]]
  /\ reader \in [Reader -> [phase: {"new", "pinned", "selected"},
                            token: Token \union {NoToken}, key: Key \union {NoKey},
                            result: Result \union {NoResult}]]
  /\ \A r \in Reader :
       LET result == reader[r].result
       IN  /\ reader[r].phase # "new" => reader[r].token # NoToken
           /\ reader[r].phase = "selected" => reader[r].key # NoKey
           /\ result # NoResult => (result.status = "VALUE" <=> result.content \in Content)
  /\ answers \subseteq [op: OpId, request: Request, result: HistoryEntry]

(* Nothing is READY or later but by a validation that matched: its receipt *)
(* is of the manifest's rows, an independent artifact with those rows and  *)
(* everything the manifest links are stored, and only tampering has        *)
(* changed a row since (put_candidate_batch, seal, validate_candidate).    *)
ProvenBeforeVisible ==
  \A g \in Generation :
    gens[g].status \in {"READY", "ACTIVE", "RETIRED"} =>
      LET receipt == gens[g].receipt
      IN  /\ receipt # NoReceipt
          /\ receipt.matched
          /\ receipt.actual = ManifestRows[g]
          /\ LinksValid(g)
          /\ \E a \in Authorities :
               artifacts[IdOf[a]] = a /\ ArtifactRows[a] = receipt.actual
          /\ \A k \in Key : ~Tampered(g, k) => rows[g][k] = receipt.actual[k]

(* Through any interleaving of activations and rollbacks the pointer names *)
(* the one ACTIVE generation, and pointer_history has each version up to   *)
(* the pointer's once, each taking over from the generation before; a      *)
(* generation enters it once, activated over the very predecessor it was   *)
(* built for, and comes back only by rollback, each move under an          *)
(* operation of its own (publish).                                         *)
HistoryChain ==
  /\ \A g \in Generation : gens[g].status = "ACTIVE" <=> ptr.gen = g
  /\ {h.version : h \in history} = 1 .. ptr.version
  /\ \A h \in history :
       /\ h.version = ptr.version => h.to = ptr.gen
       /\ h.version = 1 => h.from = NoGeneration
       /\ h.kind = "activate" <=>
            ~ \E e \in history : e.to = h.to /\ e.version < h.version
       /\ h.kind = "activate" => h.from = gens[h.to].predecessor
  /\ \A h1, h2 \in history :
       /\ h2.version = h1.version + 1 => h2.from = h1.to
       /\ h1.version = h2.version \/ h1.op = h2.op => h1 = h2

(* Lost acknowledgements, retries and stale callers: whatever publish()    *)
(* ever returned for an operation is the one move on record for it, made   *)
(* as requested; asking again can neither repeat nor change it.            *)
AnswersAreDurable ==
  /\ \A a \in answers :
       /\ a.result \in history
       /\ a.result.op = a.op
       /\ a.result.to = a.request.gen
       /\ a.result.kind = a.request.kind
       /\ a.result.from = a.request.expected.gen
       /\ a.result.version = a.request.expected.version + 1
  /\ \A a, b \in answers : a.op = b.op => a = b

(* A token is a move of the pointer that was really made.                  *)
Moved(t) == \E h \in history : h.version = t.version /\ h.to = t.gen

(* A reader is served from the generation it pinned while others publish   *)
(* and roll back: never unavailable, never another generation, and the     *)
(* validated value or its expiry.  Another value reaches it only if the    *)
(* row was changed after the very move of the pointer it pinned: what was  *)
(* changed between validation and publication, or before a rollback, does  *)
(* not get past publish() (publish, pin_reader, read_pinned).              *)
PinnedReadsConsistent ==
  \A r \in Reader :
    LET t == reader[r].token
        result == reader[r].result
    IN  /\ t # NoToken => Moved(t)
        /\ result # NoResult =>
             LET validated == ManifestRows[t.gen][result.key]
             IN  /\ result.gen = t.gen
                 /\ result.status # "UNAVAILABLE"
                 /\ result.status = "NO_ROW" <=> validated = Absent
                 /\ result.status = "VALUE" =>
                      \/ result.content = validated
                      \/ \E c \in tampered :
                           c[1] = t.gen /\ c[2] = result.key /\ c[3] >= t.version

(* An artifact identity, once taken, keeps its content, although two       *)
(* writers may both have found it free (put_artifact).                     *)
ArtifactsImmutable ==
  [][\A i \in ArtifactId : artifacts[i] # NoArtifact => artifacts'[i] = artifacts[i]]_vars

TheFeatures == "features"

PublicationLog ==
  {[fs |-> TheFeatures, version |-> h.version, gen |-> h.to] : h \in history}
VisibleRows ==
  [g \in Generation |-> IF Published(g) THEN gens[g].receipt.actual ELSE Absent]
PromisedRows ==
  [f \in {TheFeatures} |-> [g \in Generation |-> {ManifestRows[g]}]]

Pub == INSTANCE Publication WITH
  FeatureSet <- {TheFeatures},
  head <- [f \in {TheFeatures} |-> ptr],
  log <- PublicationLog,
  visible <- VisibleRows,
  Promised <- PromisedRows,
  Hidden <- Absent, Rollback <- TRUE

(* The store implements Publication, rollback included: a generation       *)
(* becomes visible in one step, with the rows its receipt certifies.       *)
ImplementsPublication == Pub!Spec

=============================================================================
