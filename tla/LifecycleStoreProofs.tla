------------------------ MODULE LifecycleStoreProofs ------------------------
(***************************************************************************)
(* Proofs about LifecycleStore, for any generations, keys, artifacts,      *)
(* operations, writers and readers, any number of versions and of rows     *)
(* changed from outside.                                                   *)
(***************************************************************************)
EXTENDS LifecycleStore, TLAPS

Visible == {"READY", "ACTIVE", "RETIRED"}

----------------------------------------------------------------------------
(* The inductive invariant.                                                *)

(* A writer about to insert holds an artifact.                             *)
WriterInv == \A w \in Writer : writer[w].pc = "inserting" => writer[w].artifact \in Artifact

(* What a receipt that matched is evidence of, and stays evidence of.      *)
Proven(g) ==
  /\ gens[g].receipt # NoReceipt
  /\ gens[g].receipt.matched
  /\ gens[g].receipt.actual = ManifestRows[g]
  /\ LinksValid(g)
  /\ \E a \in Authorities :
       artifacts[IdOf[a]] = a /\ ArtifactRows[a] = gens[g].receipt.actual
  /\ \A k \in Key :
       /\ ~Tampered(g, k) => rows[g][k] = gens[g].receipt.actual[k]
       /\ rows[g][k] = Absent <=> ManifestRows[g][k] = Absent

ProvenInv == \A g \in Generation : gens[g].status \in Visible => Proven(g)

(* A generation is in the history exactly when it was published.           *)
PublishedInv ==
  /\ \A g \in Generation : Published(g) <=> \E h \in history : h.to = g
  /\ ptr.version = 0 => ptr.gen = NoGeneration

(* The move h is what the request asks of the operation o.                 *)
Performs(o, req, h) ==
  /\ h.op = o
  /\ h.to = req.gen
  /\ h.kind = req.kind
  /\ h.from = req.expected.gen
  /\ h.version = req.expected.version + 1

(* Operations and history record the same moves.                           *)
OperationInv ==
  /\ \A o \in OpId : ops[o] # NoOp =>
       ops[o].result \in history /\ Performs(o, ops[o].request, ops[o].result)
  /\ \A h \in history : ops[h.op] # NoOp /\ ops[h.op].result = h

(* What was answered is on record.                                         *)
AnswerInv ==
  \A a \in answers :
    ops[a.op] # NoOp /\ ops[a.op].request = a.request /\ ops[a.op].result = a.result

IInv ==
  /\ TypeOK /\ WriterInv /\ ProvenInv
  /\ PublishedInv /\ HistoryChain /\ OperationInv
  /\ AnswerInv /\ PinnedReadsConsistent

(* A generation one of whose rows was changed to other than the manifest's *)
(* has not been published since, neither by activation nor by rollback.    *)
TamperInv ==
  \A c \in tampered :
    rows[c[1]][c[2]] # ManifestRows[c[1]][c[2]] =>
      \A h \in history : h.to = c[1] => h.version <= c[3]

----------------------------------------------------------------------------
(* What a step keeps of the parts that it does not concern.                *)

LEMMA ProvenFrame ==
  ASSUME NEW g \in Generation, Proven(g),
         gens'[g].receipt = gens[g].receipt, rows'[g] = rows[g],
         tampered \subseteq tampered',
         \A i \in ArtifactId : artifacts[i] # NoArtifact => artifacts'[i] = artifacts[i]
  PROVE  Proven(g)'
<1>1. LinksValid(g)'
  BY LifecycleAssumption, NullAssumption DEF Proven, LinksValid
<1>2. \E a \in Authorities :
        artifacts'[IdOf[a]] = a /\ ArtifactRows[a] = gens'[g].receipt.actual
  BY LifecycleAssumption, NullAssumption DEF Proven
<1>3. \A k \in Key : Tampered(g, k) => Tampered(g, k)'
  BY DEF Tampered
<1> QED BY <1>1, <1>2, <1>3 DEF Proven

(* No pointer is moved, and nothing enters or leaves publication.          *)
LEMMA HistoryFrame ==
  ASSUME PublishedInv, HistoryChain, OperationInv,
         UNCHANGED <<ptr, history, ops>>,
         \A g \in Generation : Published(g)' <=> Published(g),
         \A g \in Generation : Published(g) => gens'[g] = gens[g],
         history \subseteq HistoryEntry
  PROVE  PublishedInv' /\ HistoryChain' /\ OperationInv'
<1>1. PublishedInv' /\ OperationInv'
  BY DEF PublishedInv, OperationInv, Performs
<1>2. \A g \in Generation : gens'[g].status = "ACTIVE" <=> gens[g].status = "ACTIVE"
  BY DEF Published
<1>3. \A h \in history : gens'[h.to].predecessor = gens[h.to].predecessor
  BY DEF PublishedInv, HistoryEntry
<1> QED BY <1>1, <1>2, <1>3 DEF HistoryChain

LEMMA ReaderFrame ==
  ASSUME PinnedReadsConsistent, UNCHANGED reader,
         history \subseteq history', tampered \subseteq tampered'
  PROVE  PinnedReadsConsistent'
BY DEF PinnedReadsConsistent, Moved

LEMMA AnswerFrame ==
  ASSUME AnswerInv, UNCHANGED <<ops, answers>>
  PROVE  AnswerInv'
BY DEF AnswerInv

----------------------------------------------------------------------------
(* put_artifact().                                                         *)

LEMMA CheckArtifactStep ==
  ASSUME IInv, NEW w \in Writer, NEW a \in Artifact, CheckArtifact(w, a)
  PROVE  IInv'
<1>0. UNCHANGED <<artifacts, gens, rows, ptr, history, ops, tampered, reader, answers>>
  BY DEF CheckArtifact, tables
<1>1. TypeOK' /\ WriterInv'
  BY LifecycleAssumption, <1>0 DEF IInv, TypeOK, WriterInv, CheckArtifact
<1>2. ProvenInv'
  BY <1>0 DEF IInv, ProvenInv, Proven, LinksValid, Tampered
<1>3. PublishedInv' /\ HistoryChain' /\ OperationInv'
  BY <1>0, HistoryFrame DEF IInv, TypeOK, Published
<1>4. AnswerInv' /\ PinnedReadsConsistent'
  BY <1>0, AnswerFrame, ReaderFrame DEF IInv
<1> QED BY <1>1, <1>2, <1>3, <1>4 DEF IInv

LEMMA InsertArtifactStep ==
  ASSUME IInv, NEW w \in Writer, InsertArtifact(w)
  PROVE  IInv'
<1>0. UNCHANGED <<gens, rows, ptr, history, ops, tampered, reader, answers>>
  BY DEF InsertArtifact
<1>1. writer[w].artifact \in Artifact /\ IdOf[writer[w].artifact] \in ArtifactId
  BY LifecycleAssumption DEF IInv, WriterInv, InsertArtifact
<1>2. artifacts' \in [ArtifactId -> Artifact \union {NoArtifact}]
  BY <1>1 DEF IInv, TypeOK, InsertArtifact
<1>3. /\ writer' \in [Writer -> [pc: {"idle", "inserting", "done", "integrity_error"},
                                 artifact: Artifact \union {NoArtifact}]]
      /\ WriterInv'
  <2>1. PICK pc \in {"done", "integrity_error"} : writer' = [writer EXCEPT ![w].pc = pc]
    BY DEF InsertArtifact
  <2>2. writer \in [Writer -> [pc: {"idle", "inserting", "done", "integrity_error"},
                               artifact: Artifact \union {NoArtifact}]]
    BY DEF IInv, TypeOK
  <2> QED BY <2>1, <2>2 DEF IInv, WriterInv
<1>4. TypeOK'
  BY <1>0, <1>2, <1>3 DEF IInv, TypeOK
<1>5. \A i \in ArtifactId : artifacts[i] # NoArtifact => artifacts'[i] = artifacts[i]
  BY <1>1 DEF IInv, TypeOK, InsertArtifact, Insertable
<1>6. ProvenInv'
  BY <1>0, <1>5, ProvenFrame DEF IInv, ProvenInv
<1>7. PublishedInv' /\ HistoryChain' /\ OperationInv'
  BY <1>0, HistoryFrame DEF IInv, TypeOK, Published
<1>8. AnswerInv' /\ PinnedReadsConsistent'
  BY <1>0, AnswerFrame, ReaderFrame DEF IInv
<1> QED BY <1>3, <1>4, <1>6, <1>7, <1>8 DEF IInv

----------------------------------------------------------------------------
(* Building a candidate: it is not visible, and so in no move.             *)

(* Only the row of a generation that was never published changes, and it   *)
(* becomes neither.                                                        *)
LEMMA RowFrame ==
  ASSUME IInv, NEW g \in Generation, NEW row \in GenerationRow,
         gens' = [gens EXCEPT ![g] = row],
         ~ Published(g), row.status \notin {"ACTIVE", "RETIRED"},
         row.status \in Visible => Proven(g)',
         UNCHANGED <<artifacts, rows, ptr, history, ops, tampered, clients, answers>>
  PROVE  IInv'
<1>0. UNCHANGED <<artifacts, rows, ptr, history, ops, tampered, writer, reader, answers>>
  BY DEF clients
<1>1. TypeOK' /\ WriterInv'
  BY <1>0 DEF IInv, TypeOK, WriterInv
<1>2. gens'[g] = row /\ \A h \in Generation \ {g} : gens'[h] = gens[h]
  BY DEF IInv, TypeOK
<1>3. \A h \in Generation \ {g} : Proven(h) => Proven(h)'
  BY <1>0, <1>2, ProvenFrame
<1>4. ProvenInv'
  BY <1>2, <1>3 DEF IInv, ProvenInv
<1>5. \A h \in Generation :
        /\ Published(h)' <=> Published(h)
        /\ Published(h) => gens'[h] = gens[h]
  BY <1>2 DEF Published
<1>6. PublishedInv' /\ HistoryChain' /\ OperationInv'
  BY <1>0, <1>5, HistoryFrame DEF IInv, TypeOK
<1>7. AnswerInv' /\ PinnedReadsConsistent'
  BY <1>0, AnswerFrame, ReaderFrame DEF IInv
<1> QED BY <1>1, <1>4, <1>6, <1>7 DEF IInv

LEMMA StatusSet ==
  ASSUME NEW row \in GenerationRow, NEW status \in Status
  PROVE  /\ [row EXCEPT !.status = status] \in GenerationRow
         /\ [row EXCEPT !.status = status].status = status
         /\ [row EXCEPT !.status = status].predecessor = row.predecessor
         /\ [row EXCEPT !.status = status].receipt = row.receipt
BY DEF GenerationRow

LEMMA CreateGenerationStep ==
  ASSUME IInv, NEW g \in Generation, CreateGeneration(g)
  PROVE  IInv'
<1>1. PICK predecessor \in Predecessors[g] :
        gens' = [gens EXCEPT ![g] =
          [status |-> "CREATED", predecessor |-> predecessor, receipt |-> NoReceipt]]
  BY DEF CreateGeneration
<1>2. [status |-> "CREATED", predecessor |-> predecessor, receipt |-> NoReceipt]
        \in GenerationRow
  BY LifecycleAssumption DEF GenerationRow, Status
<1> QED BY <1>1, <1>2, RowFrame DEF CreateGeneration, Published, Visible

LEMMA BeginBuildStep ==
  ASSUME IInv, NEW g \in Generation, BeginBuild(g)
  PROVE  IInv'
<1>1. gens[g] \in GenerationRow /\ "BUILDING" \in Status
  BY DEF IInv, TypeOK, Status
<1>2. /\ [gens[g] EXCEPT !.status = "BUILDING"] \in GenerationRow
      /\ [gens[g] EXCEPT !.status = "BUILDING"].status = "BUILDING"
  BY <1>1, StatusSet
<1>3. gens' = [gens EXCEPT ![g] = [gens[g] EXCEPT !.status = "BUILDING"]]
  BY DEF IInv, TypeOK, BeginBuild
<1> QED BY <1>2, <1>3, RowFrame DEF BeginBuild, Published, Visible

LEMMA SealCandidateStep ==
  ASSUME IInv, NEW g \in Generation, SealCandidate(g)
  PROVE  IInv'
<1>1. gens[g] \in GenerationRow /\ "VALIDATING" \in Status
  BY DEF IInv, TypeOK, Status
<1>2. /\ [gens[g] EXCEPT !.status = "VALIDATING"] \in GenerationRow
      /\ [gens[g] EXCEPT !.status = "VALIDATING"].status = "VALIDATING"
  BY <1>1, StatusSet
<1>3. gens' = [gens EXCEPT ![g] = [gens[g] EXCEPT !.status = "VALIDATING"]]
  BY DEF IInv, TypeOK, SealCandidate
<1> QED BY <1>2, <1>3, RowFrame DEF SealCandidate, Published, Visible

LEMMA ValidateCandidateStep ==
  ASSUME IInv, NEW g \in Generation, NEW authority \in Authorities,
         ValidateCandidate(g, authority)
  PROVE  IInv'
<1> DEFINE matched == Matches(g, authority)
           row == [status |-> IF matched THEN "READY" ELSE "FAILED",
                   predecessor |-> gens[g].predecessor,
                   receipt |-> [matched |-> matched, actual |-> rows[g]]]
<1>1. matched \in BOOLEAN
  BY DEF Matches, LinksValid
<1>2. row \in GenerationRow
  BY <1>1 DEF IInv, TypeOK, GenerationRow, Status, Receipt
<1>3. gens' = [gens EXCEPT ![g] = row]
  BY DEF IInv, TypeOK, GenerationRow, ValidateCandidate
<1>4. gens'[g] = row
  BY <1>3 DEF IInv, TypeOK
<1>5. UNCHANGED <<artifacts, rows>>
  BY DEF ValidateCandidate
<1>6. ASSUME matched PROVE Proven(g)'
  <2>1. row.receipt \in Receipt /\ row.receipt # NoReceipt
    BY <1>2, <1>1, NullAssumption DEF IInv, TypeOK, Receipt
  <2>2. LinksValid(g)'
    BY <1>5, <1>6 DEF Matches, LinksValid
  <2>3. artifacts'[IdOf[authority]] = authority /\ ArtifactRows[authority] = rows[g]
    BY <1>5, <1>6 DEF Matches, ValidateCandidate
  <2>4. rows[g] = ManifestRows[g]
    BY <1>6 DEF Matches
  <2> QED BY <1>4, <1>5, <1>6, <2>1, <2>2, <2>3, <2>4 DEF Proven
<1>7. ~ Published(g)
  BY DEF ValidateCandidate, Published
<1>8. row.status \in Visible => matched
  BY DEF Visible
<1>9. row.status \notin {"ACTIVE", "RETIRED"}
  OBVIOUS
<1>10. UNCHANGED <<artifacts, rows, ptr, history, ops, tampered, clients, answers>>
  BY DEF ValidateCandidate
<1> HIDE DEF row, matched
<1> QED BY <1>2, <1>3, <1>6, <1>7, <1>8, <1>9, <1>10, RowFrame

(* Nothing but rows of a candidate changes, and they stay true to what is  *)
(* on record of it.                                                        *)
LEMMA RowsFrame ==
  ASSUME IInv, rows' \in [Generation -> Rows],
         tampered' \subseteq Generation \X Key \X Nat, tampered \subseteq tampered',
         \A g \in Generation : gens[g].status \in Visible => Proven(g)',
         UNCHANGED <<artifacts, gens, ptr, history, ops, clients, answers>>
  PROVE  IInv'
<1>0. UNCHANGED <<artifacts, gens, ptr, history, ops, writer, reader, answers>>
  BY DEF clients
<1>1. TypeOK' /\ WriterInv'
  BY <1>0 DEF IInv, TypeOK, WriterInv
<1>2. ProvenInv'
  BY <1>0 DEF ProvenInv
<1>3. PublishedInv' /\ HistoryChain' /\ OperationInv'
  BY <1>0, HistoryFrame DEF IInv, TypeOK, Published
<1>4. AnswerInv' /\ PinnedReadsConsistent'
  BY <1>0, AnswerFrame, ReaderFrame DEF IInv
<1> QED BY <1>1, <1>2, <1>3, <1>4 DEF IInv

LEMMA PutCandidateBatchStep ==
  ASSUME IInv, NEW g \in Generation, PutCandidateBatch(g)
  PROVE  IInv'
<1>0. UNCHANGED <<artifacts, gens, ptr, history, ops, tampered, clients, answers>>
  BY DEF PutCandidateBatch
<1>1. PICK keys \in SUBSET Key : \E batch \in [keys -> Content] :
        rows' = [rows EXCEPT ![g] =
                   [k \in Key |-> IF k \in keys THEN batch[k] ELSE rows[g][k]]]
  BY DEF PutCandidateBatch
<1>2. PICK batch \in [keys -> Content] :
        rows' = [rows EXCEPT ![g] =
                   [k \in Key |-> IF k \in keys THEN batch[k] ELSE rows[g][k]]]
  BY <1>1
<1>3. rows \in [Generation -> Rows] /\ tampered \subseteq Generation \X Key \X Nat
  BY DEF IInv, TypeOK
<1>4. [k \in Key |-> IF k \in keys THEN batch[k] ELSE rows[g][k]] \in Rows
  BY <1>3 DEF Rows
<1>5. rows' \in [Generation -> Rows] /\ \A h \in Generation \ {g} : rows'[h] = rows[h]
  BY <1>2, <1>3, <1>4
<1>6. gens[g].status \notin Visible
  BY DEF PutCandidateBatch, Batchable, Visible
<1>7. \A h \in Generation : gens[h].status \in Visible => Proven(h)'
  BY <1>0, <1>5, <1>6, ProvenFrame DEF IInv, ProvenInv
<1> QED BY <1>0, <1>3, <1>5, <1>7, RowsFrame

LEMMA TamperStep ==
  ASSUME IInv, NEW g \in Generation, NEW k \in Key, Tamper(g, k)
  PROVE  IInv'
<1>0. UNCHANGED <<artifacts, gens, ptr, history, ops, clients, answers>>
  BY DEF Tamper
<1>1. PICK content \in Content : rows' = [rows EXCEPT ![g][k] = content]
  <2>1. Offered[g][k] \subseteq Content
    BY LifecycleAssumption
  <2> QED BY <2>1 DEF Tamper
<1>2. rows \in [Generation -> Rows] /\ tampered \subseteq Generation \X Key \X Nat
  BY DEF IInv, TypeOK
<1>3. /\ rows' \in [Generation -> Rows]
      /\ \A h \in Generation \ {g} : rows'[h] = rows[h]
      /\ \A j \in Key \ {k} : rows'[g][j] = rows[g][j]
      /\ rows'[g][k] = content
  BY <1>1, <1>2 DEF Rows
<1>4. rows[g][k] # Absent /\ content # Absent
  BY NullAssumption DEF Tamper
<1>5. /\ tampered' = tampered \union {<<g, k, ptr.version>>}
      /\ <<g, k, ptr.version>> \in Generation \X Key \X Nat
  BY DEF Tamper, IInv, TypeOK, Pointer
<1>6. ASSUME NEW h \in Generation, gens[h].status \in Visible PROVE Proven(h)'
  <2>1. Proven(h)
    BY <1>6 DEF IInv, ProvenInv
  <2>2. LinksValid(h)'
    BY <1>0, <2>1 DEF Proven, LinksValid
  <2>3. \A j \in Key :
          /\ ~Tampered(h, j)' => rows'[h][j] = gens[h].receipt.actual[j]
          /\ rows'[h][j] = Absent <=> ManifestRows[h][j] = Absent
    <3> SUFFICES ASSUME NEW j \in Key
                 PROVE  /\ ~Tampered(h, j)' => rows'[h][j] = gens[h].receipt.actual[j]
                        /\ rows'[h][j] = Absent <=> ManifestRows[h][j] = Absent
      OBVIOUS
    <3>1. Tampered(g, k)' /\ (Tampered(h, j) => Tampered(h, j)')
      BY <1>5 DEF Tampered
    <3>2. CASE h = g /\ j = k
      BY <1>3, <1>4, <2>1, <3>1, <3>2 DEF Proven
    <3>3. CASE ~(h = g /\ j = k)
      <4>1. rows'[h][j] = rows[h][j]
        BY <1>3, <3>3
      <4> QED BY <2>1, <3>1, <4>1 DEF Proven
    <3> QED BY <3>2, <3>3
  <2> QED BY <1>0, <2>1, <2>2, <2>3 DEF Proven
<1> QED BY <1>0, <1>2, <1>3, <1>5, <1>6, RowsFrame

----------------------------------------------------------------------------
(* The readers.                                                            *)

(* A generation a reader pinned was published, and stays proven.           *)
LEMMA PinnedIsPublished ==
  ASSUME IInv, NEW r \in Reader, reader[r].phase # "new"
  PROVE  /\ reader[r].token \in Token
         /\ Moved(reader[r].token)
         /\ Published(reader[r].token.gen)
         /\ Proven(reader[r].token.gen)
<1>1. reader[r].token \in Token /\ reader[r].token # NoToken
  BY DEF IInv, TypeOK
<1>2. Moved(reader[r].token)
  BY <1>1 DEF IInv, PinnedReadsConsistent
<1>3. Published(reader[r].token.gen)
  BY <1>1, <1>2 DEF IInv, PublishedInv, Moved, Token
<1>4. gens[reader[r].token.gen].status \in Visible
  BY <1>3 DEF Published, Visible
<1> QED BY <1>1, <1>2, <1>3, <1>4 DEF IInv, ProvenInv, Token

(* What a reader holds that was served consistently.                       *)
Served(t, result) ==
  /\ t # NoToken => Moved(t)
  /\ result # NoResult =>
       LET validated == ManifestRows[t.gen][result.key]
       IN  /\ result.gen = t.gen
           /\ result.status # "UNAVAILABLE"
           /\ result.status = "NO_ROW" <=> validated = Absent
           /\ result.status = "VALUE" =>
                \/ result.content = validated
                \/ \E c \in tampered :
                     c[1] = t.gen /\ c[2] = result.key /\ c[3] >= t.version

LEMMA ReaderSet ==
  ASSUME IInv, NEW r \in Reader,
         NEW phase \in {"pinned", "selected"}, NEW token \in Token,
         NEW key \in Key \union {NoKey}, NEW result \in Result \union {NoResult},
         reader' = [reader EXCEPT ![r] =
           [phase |-> phase, token |-> token, key |-> key, result |-> result]],
         phase = "selected" => key # NoKey,
         result # NoResult => (result.status = "VALUE" <=> result.content \in Content),
         Served(token, result),
         UNCHANGED <<tables, tampered, writer, answers>>
  PROVE  IInv'
<1> DEFINE state == [phase |-> phase, token |-> token, key |-> key, result |-> result]
<1>0. UNCHANGED <<artifacts, gens, rows, ptr, history, ops, tampered, writer, answers>>
  BY DEF tables
<1>1. reader \in [Reader -> [phase: {"new", "pinned", "selected"},
                             token: Token \union {NoToken}, key: Key \union {NoKey},
                             result: Result \union {NoResult}]]
  BY DEF IInv, TypeOK
<1>2. /\ state \in [phase: {"new", "pinned", "selected"},
                    token: Token \union {NoToken}, key: Key \union {NoKey},
                    result: Result \union {NoResult}]
      /\ state.phase = phase /\ state.token = token
      /\ state.key = key /\ state.result = result
  OBVIOUS
<1> HIDE DEF state
<1>3. /\ reader' \in [Reader -> [phase: {"new", "pinned", "selected"},
                                 token: Token \union {NoToken}, key: Key \union {NoKey},
                                 result: Result \union {NoResult}]]
      /\ reader'[r] = state
      /\ \A s \in Reader \ {r} : reader'[s] = reader[s]
  BY <1>1, <1>2 DEF state
<1>4. token # NoToken
  BY NullAssumption
<1>5. ASSUME NEW s \in Reader
      PROVE  /\ reader'[s].phase # "new" => reader'[s].token # NoToken
             /\ reader'[s].phase = "selected" => reader'[s].key # NoKey
             /\ reader'[s].result # NoResult =>
                  (reader'[s].result.status = "VALUE"
                     <=> reader'[s].result.content \in Content)
  BY <1>2, <1>3, <1>4 DEF IInv, TypeOK
<1>6. TypeOK' /\ WriterInv'
  BY <1>0, <1>3, <1>5 DEF IInv, TypeOK, WriterInv
<1>7. \A s \in Reader : Served(reader'[s].token, reader'[s].result)
  BY <1>2, <1>3 DEF IInv, PinnedReadsConsistent, Served
<1>8. PinnedReadsConsistent'
  BY <1>0, <1>7 DEF PinnedReadsConsistent, Served, Moved
<1>9. ProvenInv' /\ AnswerInv'
  BY <1>0, AnswerFrame DEF IInv, ProvenInv, Proven, LinksValid, Tampered
<1>10. PublishedInv' /\ HistoryChain' /\ OperationInv'
  BY <1>0, HistoryFrame DEF IInv, TypeOK, Published
<1> QED BY <1>6, <1>8, <1>9, <1>10 DEF IInv

LEMMA PinReaderStep ==
  ASSUME IInv, NEW r \in Reader, PinReader(r)
  PROVE  IInv'
<1> DEFINE token == [gen |-> ptr.gen, version |-> ptr.version]
<1>1. ptr.gen \in Generation /\ ptr.version \in Nat
  BY DEF IInv, TypeOK, Pointer, GenerationOrNone, PinReader
<1>2. token \in Token
  BY <1>1 DEF Token
<1>3. ptr.version \in 1 .. ptr.version
  BY <1>1 DEF IInv, PublishedInv, PinReader
<1>4. Moved(token)
  BY <1>3 DEF IInv, HistoryChain, Moved
<1>5. Served(token, NoResult)
  BY <1>4 DEF Served
<1>6. /\ reader' = [reader EXCEPT ![r] =
           [phase |-> "pinned", token |-> token, key |-> NoKey, result |-> NoResult]]
      /\ UNCHANGED <<tables, tampered, writer, answers>>
  BY DEF PinReader
<1> HIDE DEF token
<1> QED BY <1>2, <1>5, <1>6, ReaderSet

LEMMA SelectGenerationStep ==
  ASSUME IInv, NEW r \in Reader, NEW k \in Key, SelectGeneration(r, k)
  PROVE  IInv'
<1> DEFINE token == reader[r].token
<1>1. token \in Token /\ Moved(token) /\ Published(token.gen)
  BY PinnedIsPublished DEF SelectGeneration
<1>2. gens[token.gen].status \in ReadableStatuses
  BY <1>1 DEF Published, ReadableStatuses
<1>3. /\ reader' = [reader EXCEPT ![r] =
           [phase |-> "selected", token |-> token, key |-> k, result |-> NoResult]]
      /\ UNCHANGED <<tables, tampered, writer, answers>>
  BY <1>2 DEF SelectGeneration
<1>4. k # NoKey /\ Served(token, NoResult)
  BY <1>1, NullAssumption DEF Served
<1> HIDE DEF token
<1> QED BY <1>1, <1>3, <1>4, ReaderSet

LEMMA SelectValueStep ==
  ASSUME IInv, TamperInv, NEW r \in Reader, SelectValue(r)
  PROVE  IInv'
<1> DEFINE token == reader[r].token
           k == reader[r].key
<1>1. token \in Token /\ Moved(token) /\ Proven(token.gen)
  BY PinnedIsPublished DEF SelectValue
<1>2. k \in Key
  BY DEF IInv, TypeOK, SelectValue
<1>3. PICK status \in RowStatuses(token.gen, k) :
        reader' = [reader EXCEPT ![r] =
          [phase |-> "pinned", token |-> token, key |-> NoKey,
           result |-> ReadResult(token.gen, k, status,
                        IF status = "VALUE" THEN rows[token.gen][k] ELSE Absent)]]
  BY DEF SelectValue
<1> DEFINE content == IF status = "VALUE" THEN rows[token.gen][k] ELSE Absent
           result == ReadResult(token.gen, k, status, content)
<1>4. token.gen \in Generation
  BY <1>1 DEF Token
<1>5. rows[token.gen][k] \in Content \union {Absent}
  BY <1>2, <1>4 DEF IInv, TypeOK, Rows
<1>6. /\ status \in {"VALUE", "EXPIRED", "NO_ROW"}
      /\ status = "NO_ROW" <=> rows[token.gen][k] = Absent
  BY DEF RowStatuses
<1>7. content \in Content \union {Absent} /\ (status = "VALUE" <=> content \in Content)
  BY <1>5, <1>6, NullAssumption
<1>8. /\ result.status = status /\ result.gen = token.gen
      /\ result.key = k /\ result.content = content
  BY DEF ReadResult
<1>9. result \in Result
  BY <1>2, <1>4, <1>6, <1>7 DEF ReadResult, Result
<1>10. /\ \/ rows[token.gen][k] = ManifestRows[token.gen][k]
          \/ \E c \in tampered :
               c[1] = token.gen /\ c[2] = k /\ c[3] >= token.version
       /\ rows[token.gen][k] = Absent <=> ManifestRows[token.gen][k] = Absent
  <2>1. /\ ~Tampered(token.gen, k) => rows[token.gen][k] = ManifestRows[token.gen][k]
        /\ rows[token.gen][k] = Absent <=> ManifestRows[token.gen][k] = Absent
    BY <1>1, <1>2 DEF Proven
  <2>2. PICK h \in history : h.version = token.version /\ h.to = token.gen
    BY <1>1 DEF Moved
  <2>3. ASSUME NEW c \in tampered, c[1] = token.gen, c[2] = k,
               rows[token.gen][k] # ManifestRows[token.gen][k]
        PROVE  c[3] >= token.version
    <3>1. h.version <= c[3] /\ c[3] \in Nat /\ h.version \in Nat
      BY <2>2, <2>3 DEF TamperInv, IInv, TypeOK, HistoryEntry
    <3> QED BY <2>2, <3>1
  <2> QED BY <2>1, <2>3 DEF Tampered
<1>11. status = "VALUE" => content = rows[token.gen][k]
  OBVIOUS
<1>12. UNCHANGED <<tables, tampered, writer, answers>>
  BY DEF SelectValue
<1> HIDE DEF content, result
<1>13. Served(token, result)
  BY <1>1, <1>6, <1>8, <1>10, <1>11 DEF Served
<1> HIDE DEF token, k
<1> QED BY <1>1, <1>3, <1>7, <1>8, <1>9, <1>12, <1>13, ReaderSet DEF content, result

----------------------------------------------------------------------------
(* publish().                                                              *)

LEMMA RequestInPast ==
  ASSUME IInv, NEW g \in Generation, NEW kind \in Kind, NEW expected \in PastPointers
  PROVE  [gen |-> g, expected |-> expected, kind |-> kind] \in Request
BY DEF IInv, TypeOK, PastPointers, HistoryEntry, Pointer, GenerationOrNone, Request

LEMMA ReplayPublishStep ==
  ASSUME IInv, NEW o \in OpId, NEW req \in Request, ReplayPublish(o, req)
  PROVE  IInv'
<1>0. UNCHANGED <<artifacts, gens, rows, ptr, history, ops, tampered, writer, reader>>
  BY DEF ReplayPublish, tables, clients
<1>1. ops[o] \in Operation /\ ops[o].request = req
  BY DEF IInv, TypeOK, ReplayPublish, SameRequest
<1>2. answers' = answers \union {Answer(o, req, ops[o].result)}
  BY DEF ReplayPublish
<1>3. Answer(o, req, ops[o].result) \in [op: OpId, request: Request, result: HistoryEntry]
  BY <1>1 DEF Answer, Operation
<1>4. TypeOK' /\ WriterInv'
  BY <1>0, <1>2, <1>3 DEF IInv, TypeOK, WriterInv
<1>5. AnswerInv'
  BY <1>0, <1>1, <1>2 DEF IInv, AnswerInv, Answer, ReplayPublish, SameRequest
<1>6. ProvenInv' /\ PinnedReadsConsistent'
  BY <1>0, ReaderFrame DEF IInv, ProvenInv, Proven, LinksValid, Tampered
<1>7. PublishedInv' /\ HistoryChain' /\ OperationInv'
  BY <1>0, HistoryFrame DEF IInv, TypeOK, Published
<1> QED BY <1>4, <1>5, <1>6, <1>7 DEF IInv

(* The history entry a commit of the request adds.                         *)
EntryOf(o, req) ==
  [version |-> req.expected.version + 1, from |-> ptr.gen, to |-> req.gen,
   kind |-> req.kind, op |-> o]

(* The facts a commit starts from, and what it changes.                    *)
LEMMA CommitFacts ==
  ASSUME IInv, NEW o \in OpId, NEW req \in Request, CommitPublish(o, req)
  PROVE  /\ req.gen \in Generation /\ req.kind \in Kind /\ req.expected = ptr
         /\ ptr.gen \in GenerationOrNone /\ ptr.version \in Nat
         /\ ops[o] = NoOp
         /\ gens[req.gen].status = IF req.kind = "activate" THEN "READY" ELSE "RETIRED"
         /\ StillValid(req.gen)
         /\ ForPredecessor(req)
         /\ ptr.gen # req.gen
         /\ EntryOf(o, req) \in HistoryEntry
         /\ ptr' = [gen |-> req.gen, version |-> ptr.version + 1]
         /\ gens' = Promote(req.gen, ptr.gen)
         /\ history' = history \union {EntryOf(o, req)}
         /\ ops' = [ops EXCEPT ![o] = [request |-> req, result |-> EntryOf(o, req)]]
         /\ answers' = answers \union {Answer(o, req, EntryOf(o, req))}
         /\ UNCHANGED <<artifacts, rows, tampered, writer, reader>>
<1>1. req.gen \in Generation /\ req.kind \in Kind /\ req.expected = ptr
  BY DEF Request, CommitPublish, PointerMatches
<1>2. ptr.gen \in GenerationOrNone /\ ptr.version \in Nat
  BY DEF IInv, TypeOK, Pointer
<1>3. gens[req.gen].status = IF req.kind = "activate" THEN "READY" ELSE "RETIRED"
  BY DEF CommitPublish, Eligible
<1>4. ptr.gen # req.gen
  BY <1>1, <1>3 DEF IInv, HistoryChain
<1>5. EntryOf(o, req) \in HistoryEntry
  BY <1>1, <1>2 DEF EntryOf, HistoryEntry
<1>6. /\ ops[o] = NoOp
      /\ StillValid(req.gen)
      /\ ForPredecessor(req)
      /\ ptr' = [gen |-> req.gen, version |-> ptr.version + 1]
      /\ gens' = Promote(req.gen, ptr.gen)
  BY DEF CommitPublish
<1>7. /\ history' = history \union {EntryOf(o, req)}
      /\ ops' = [ops EXCEPT ![o] = [request |-> req, result |-> EntryOf(o, req)]]
      /\ answers' = answers \union {Answer(o, req, EntryOf(o, req))}
      /\ UNCHANGED <<artifacts, rows, tampered, writer, reader>>
  BY DEF CommitPublish, EntryOf, clients
<1> QED BY <1>1, <1>2, <1>3, <1>4, <1>5, <1>6, <1>7

(* Promotion touches two statuses and nothing else.                        *)
LEMMA PromoteIs ==
  ASSUME gens \in [Generation -> GenerationRow],
         NEW g \in Generation, NEW from, g # from,
         gens' = Promote(g, from)
  PROVE  /\ gens' \in [Generation -> GenerationRow]
         /\ \A h \in Generation :
              /\ gens'[h].status =
                   IF h = g THEN "ACTIVE"
                   ELSE IF h = from THEN "RETIRED" ELSE gens[h].status
              /\ gens'[h].predecessor = gens[h].predecessor
              /\ gens'[h].receipt = gens[h].receipt
<1>1. "ACTIVE" \in Status /\ "RETIRED" \in Status
  BY DEF Status
<1>2. ASSUME NEW h \in Generation
      PROVE  /\ gens'[h] \in GenerationRow
             /\ gens'[h].status =
                  IF h = g THEN "ACTIVE"
                  ELSE IF h = from THEN "RETIRED" ELSE gens[h].status
             /\ gens'[h].predecessor = gens[h].predecessor
             /\ gens'[h].receipt = gens[h].receipt
  <2>1. gens'[h] = IF h = g THEN [gens[h] EXCEPT !.status = "ACTIVE"]
                   ELSE IF h = from THEN [gens[h] EXCEPT !.status = "RETIRED"]
                   ELSE gens[h]
    BY DEF Promote
  <2>2. /\ [gens[h] EXCEPT !.status = "ACTIVE"] \in GenerationRow
        /\ [gens[h] EXCEPT !.status = "ACTIVE"].status = "ACTIVE"
        /\ [gens[h] EXCEPT !.status = "ACTIVE"].predecessor = gens[h].predecessor
        /\ [gens[h] EXCEPT !.status = "ACTIVE"].receipt = gens[h].receipt
    BY <1>1, StatusSet
  <2>3. /\ [gens[h] EXCEPT !.status = "RETIRED"] \in GenerationRow
        /\ [gens[h] EXCEPT !.status = "RETIRED"].status = "RETIRED"
        /\ [gens[h] EXCEPT !.status = "RETIRED"].predecessor = gens[h].predecessor
        /\ [gens[h] EXCEPT !.status = "RETIRED"].receipt = gens[h].receipt
    BY <1>1, StatusSet
  <2> QED BY <2>1, <2>2, <2>3
<1>3. gens' \in [Generation -> GenerationRow]
  BY <1>2 DEF Promote
<1> QED BY <1>2, <1>3

(* What is published is what was, and the generation of the request.       *)
LEMMA CommitPublishes ==
  ASSUME IInv, NEW o \in OpId, NEW req \in Request, CommitPublish(o, req)
  PROVE  /\ gens' \in [Generation -> GenerationRow]
         /\ \A h \in Generation :
              /\ gens'[h].status \in Visible => gens[h].status \in Visible
              /\ Published(h)' <=> Published(h) \/ h = req.gen
              /\ gens'[h].status = "ACTIVE" <=> h = req.gen
              /\ gens'[h].predecessor = gens[h].predecessor
              /\ gens'[h].receipt = gens[h].receipt
<1>1. /\ gens \in [Generation -> GenerationRow]
      /\ \A h \in Generation : gens[h].status = "ACTIVE" <=> ptr.gen = h
  BY DEF IInv, TypeOK, HistoryChain
<1>2. /\ req.gen \in Generation /\ req.gen # ptr.gen
      /\ gens' = Promote(req.gen, ptr.gen)
      /\ gens[req.gen].status \in {"READY", "RETIRED"}
  BY CommitFacts
<1>3. /\ gens' \in [Generation -> GenerationRow]
      /\ \A h \in Generation :
           /\ gens'[h].status =
                IF h = req.gen THEN "ACTIVE"
                ELSE IF h = ptr.gen THEN "RETIRED" ELSE gens[h].status
           /\ gens'[h].predecessor = gens[h].predecessor
           /\ gens'[h].receipt = gens[h].receipt
  BY <1>1, <1>2, PromoteIs
<1> QED BY <1>1, <1>2, <1>3 DEF Visible, Published

LEMMA CommitTypes ==
  ASSUME IInv, NEW o \in OpId, NEW req \in Request, CommitPublish(o, req)
  PROVE  TypeOK' /\ WriterInv'
<1> DEFINE entry == EntryOf(o, req)
<1>0. UNCHANGED <<artifacts, rows, tampered, writer, reader>>
  BY CommitFacts
<1>1. gens' \in [Generation -> GenerationRow]
  BY CommitPublishes
<1>2. entry \in HistoryEntry
  BY CommitFacts
<1> HIDE DEF entry
<1>3. ptr' \in Pointer
  BY CommitFacts DEF Pointer, GenerationOrNone
<1>4. history' \subseteq HistoryEntry
  BY <1>2, CommitFacts DEF IInv, TypeOK, entry
<1>5. ops' \in [OpId -> Operation \union {NoOp}]
  <2>1. [request |-> req, result |-> entry] \in Operation
    BY <1>2 DEF Operation
  <2>2. ops' = [ops EXCEPT ![o] = [request |-> req, result |-> entry]]
    BY CommitFacts DEF entry
  <2> QED BY <2>1, <2>2 DEF IInv, TypeOK
<1>6. answers' \subseteq [op: OpId, request: Request, result: HistoryEntry]
  <2>1. Answer(o, req, entry) \in [op: OpId, request: Request, result: HistoryEntry]
    BY <1>2 DEF Answer
  <2>2. answers' = answers \union {Answer(o, req, entry)}
    BY CommitFacts DEF entry
  <2> QED BY <2>1, <2>2 DEF IInv, TypeOK
<1> QED BY <1>0, <1>1, <1>3, <1>4, <1>5, <1>6 DEF IInv, TypeOK, WriterInv

(* The entry is new, its version the first after all others.               *)
LEMMA EntryIsNew ==
  ASSUME IInv, NEW o \in OpId, NEW req \in Request, CommitPublish(o, req)
  PROVE  /\ EntryOf(o, req).version = ptr.version + 1
         /\ EntryOf(o, req).from = ptr.gen
         /\ EntryOf(o, req).to = req.gen
         /\ EntryOf(o, req).kind = req.kind
         /\ EntryOf(o, req).op = o
         /\ \A h \in history :
              /\ h \in HistoryEntry
              /\ h.version \in Nat /\ h.version <= ptr.version
              /\ h.op # o
<1>1. /\ EntryOf(o, req).version = ptr.version + 1
      /\ EntryOf(o, req).from = ptr.gen
      /\ EntryOf(o, req).to = req.gen
      /\ EntryOf(o, req).kind = req.kind
      /\ EntryOf(o, req).op = o
  BY CommitFacts DEF EntryOf
<1>2. ASSUME NEW h \in history
      PROVE  h \in HistoryEntry /\ h.version \in Nat /\ h.version <= ptr.version
  <2>1. h \in HistoryEntry
    BY DEF IInv, TypeOK
  <2>2. h.version \in 1 .. ptr.version
    BY DEF IInv, HistoryChain
  <2> QED BY <2>1, <2>2, CommitFacts DEF HistoryEntry
<1>3. \A h \in history : h.op # o
  BY CommitFacts DEF IInv, OperationInv
<1> QED BY <1>1, <1>2, <1>3

LEMMA CommitHistory ==
  ASSUME IInv, NEW o \in OpId, NEW req \in Request, CommitPublish(o, req)
  PROVE  PublishedInv' /\ HistoryChain'
<1> DEFINE entry == EntryOf(o, req)
           v == ptr.version
<1>1. /\ entry.version = v + 1 /\ entry.from = ptr.gen /\ entry.to = req.gen
      /\ entry.kind = req.kind /\ entry.op = o
      /\ \A h \in history :
           h \in HistoryEntry /\ h.version \in Nat /\ h.version <= v /\ h.op # o
  BY EntryIsNew
<1>2. /\ history' = history \union {entry}
      /\ v \in Nat
      /\ ptr'.gen = req.gen /\ ptr'.version = v + 1
      /\ req.gen \in Generation
  BY CommitFacts
<1> HIDE DEF entry, v
<1>3. PublishedInv'
  <2>1. \A g \in Generation : Published(g)' <=> \E h \in history' : h.to = g
    BY <1>1, <1>2, CommitPublishes DEF IInv, PublishedInv
  <2>2. ptr'.version # 0
    BY <1>2
  <2> QED BY <2>1, <2>2 DEF PublishedInv
<1>4. \A g \in Generation : gens'[g].status = "ACTIVE" <=> ptr'.gen = g
  BY <1>2, CommitPublishes
<1>5. {h.version : h \in history'} = 1 .. ptr'.version
  <2>1. {h.version : h \in history'} = {h.version : h \in history} \union {v + 1}
    BY <1>1, <1>2
  <2>2. {h.version : h \in history} = 1 .. v
    BY DEF IInv, HistoryChain, v
  <2>3. 1 .. (v + 1) = (1 .. v) \union {v + 1}
    BY <1>2
  <2> QED BY <1>2, <2>1, <2>2, <2>3
<1>6. ASSUME NEW h \in history'
      PROVE  /\ h.version = ptr'.version => h.to = ptr'.gen
             /\ h.version = 1 => h.from = NoGeneration
             /\ h.kind = "activate" <=>
                  ~ \E e \in history' : e.to = h.to /\ e.version < h.version
             /\ h.kind = "activate" => h.from = gens'[h.to].predecessor
  <2>1. CASE h \in history
    <3>1. h.to \in Generation /\ h.version # v + 1
      BY <1>1, <1>2, <2>1 DEF HistoryEntry
    <3>2. gens'[h.to].predecessor = gens[h.to].predecessor
      BY <3>1, CommitPublishes
    <3>3. (\E e \in history' : e.to = h.to /\ e.version < h.version)
            <=> \E e \in history : e.to = h.to /\ e.version < h.version
      BY <1>1, <1>2, <2>1
    <3> QED BY <1>2, <2>1, <3>1, <3>2, <3>3 DEF IInv, HistoryChain
  <2>2. CASE h = entry
    <3>1. h.version = 1 => h.from = NoGeneration
      BY <1>1, <1>2, <2>2 DEF IInv, PublishedInv, v
    <3>2. (\E e \in history' : e.to = h.to /\ e.version < h.version)
            <=> Published(req.gen)
      BY <1>1, <1>2, <2>2 DEF IInv, PublishedInv
    <3>3. h.kind = "activate" <=> ~ Published(req.gen)
      BY <1>1, <2>2, CommitFacts DEF Published, Kind
    <3>4. h.kind = "activate" => h.from = gens'[h.to].predecessor
      <4>1. req.kind = "activate" => gens[req.gen].predecessor = ptr.gen
        BY CommitFacts DEF ForPredecessor
      <4>2. gens'[req.gen].predecessor = gens[req.gen].predecessor
        BY <1>2, CommitPublishes
      <4> QED BY <1>1, <2>2, <4>1, <4>2
    <3> QED BY <1>1, <1>2, <2>2, <3>1, <3>2, <3>3, <3>4
  <2> QED BY <1>2, <2>1, <2>2
<1>7. ASSUME NEW h1 \in history', NEW h2 \in history'
      PROVE  /\ h2.version = h1.version + 1 => h2.from = h1.to
             /\ h1.version = h2.version \/ h1.op = h2.op => h1 = h2
  <2>1. CASE h1 \in history /\ h2 \in history
    BY <2>1 DEF IInv, HistoryChain
  <2>2. CASE h1 \in history /\ h2 = entry
    <3>1. h1.version = v => h1.to = ptr.gen
      BY <2>2 DEF IInv, HistoryChain, v
    <3> QED BY <1>1, <1>2, <2>2, <3>1
  <2>3. CASE h1 = entry /\ h2 \in history
    BY <1>1, <1>2, <2>3
  <2>4. CASE h1 = entry /\ h2 = entry
    BY <1>1, <1>2, <2>4
  <2> QED BY <1>2, <2>1, <2>2, <2>3, <2>4
<1>8. HistoryChain'
  BY <1>4, <1>5, <1>6, <1>7 DEF HistoryChain
<1> QED BY <1>3, <1>8

LEMMA CommitOperation ==
  ASSUME IInv, NEW o \in OpId, NEW req \in Request, CommitPublish(o, req)
  PROVE  OperationInv' /\ AnswerInv'
<1> DEFINE entry == EntryOf(o, req)
           row == [request |-> req, result |-> entry]
<1>1. /\ history' = history \union {entry}
      /\ ops' = [ops EXCEPT ![o] = row]
      /\ answers' = answers \union {Answer(o, req, entry)}
      /\ ops[o] = NoOp /\ req.expected = ptr
      /\ entry \in HistoryEntry
  BY CommitFacts
<1>2. /\ entry.version = ptr.version + 1 /\ entry.from = ptr.gen /\ entry.to = req.gen
      /\ entry.kind = req.kind /\ entry.op = o
      /\ \A h \in history : h.op # o
  BY EntryIsNew
<1>3. row \in Operation /\ row.request = req /\ row.result = entry
  BY <1>1 DEF Operation
<1>4. row # NoOp
  BY <1>3, NullAssumption
<1>5. ops'[o] = row /\ \A p \in OpId \ {o} : ops'[p] = ops[p]
  BY <1>1 DEF IInv, TypeOK
<1>6. Performs(o, req, entry)
  BY <1>1, <1>2 DEF Performs
<1> HIDE DEF entry, row
<1>7. \A p \in OpId : ops'[p] # NoOp =>
        ops'[p].result \in history' /\ Performs(p, ops'[p].request, ops'[p].result)
  BY <1>1, <1>3, <1>5, <1>6 DEF IInv, OperationInv
<1>8. \A h \in history : h.op \in OpId
  BY DEF IInv, TypeOK, HistoryEntry
<1>9. \A h \in history' : ops'[h.op] # NoOp /\ ops'[h.op].result = h
  BY <1>1, <1>2, <1>3, <1>4, <1>5, <1>8 DEF IInv, OperationInv
<1>10. \A a \in answers : a.op \in OpId
  BY DEF IInv, TypeOK
<1>11. AnswerInv'
  BY <1>1, <1>3, <1>4, <1>5, <1>10 DEF IInv, AnswerInv, Answer
<1> QED BY <1>7, <1>9, <1>11 DEF OperationInv, Performs

LEMMA CommitPublishStep ==
  ASSUME IInv, NEW o \in OpId, NEW req \in Request, CommitPublish(o, req)
  PROVE  IInv'
<1>0. /\ UNCHANGED <<artifacts, rows, tampered, writer, reader>>
      /\ history \subseteq history'
  BY CommitFacts
<1>1. ProvenInv'
  BY <1>0, CommitPublishes, ProvenFrame DEF IInv, ProvenInv
<1>2. PinnedReadsConsistent'
  BY <1>0, ReaderFrame DEF IInv
<1> QED BY <1>1, <1>2, CommitTypes, CommitHistory, CommitOperation DEF IInv

----------------------------------------------------------------------------
(* The invariant.                                                          *)

LEMMA InitIInv == Init => IInv
<1> SUFFICES ASSUME Init PROVE IInv
  OBVIOUS
<1>1. artifacts \in [ArtifactId -> Artifact \union {NoArtifact}]
  BY DEF Init
<1>2. gens \in [Generation -> GenerationRow]
  BY DEF Init, GenerationRow, Status, GenerationOrNone
<1>3. rows \in [Generation -> Rows]
  BY DEF Init, Rows
<1>4. /\ tampered \subseteq Generation \X Key \X Nat
      /\ ptr \in Pointer
      /\ history \subseteq HistoryEntry
      /\ ops \in [OpId -> Operation \union {NoOp}]
      /\ answers \subseteq [op: OpId, request: Request, result: HistoryEntry]
  BY DEF Init, Pointer, GenerationOrNone
<1>5. writer \in [Writer -> [pc: {"idle", "inserting", "done", "integrity_error"},
                             artifact: Artifact \union {NoArtifact}]]
  BY DEF Init
<1>6. /\ reader \in [Reader -> [phase: {"new", "pinned", "selected"},
                                token: Token \union {NoToken}, key: Key \union {NoKey},
                                result: Result \union {NoResult}]]
      /\ \A r \in Reader : /\ reader[r].phase = "new"
                           /\ reader[r].token = NoToken
                           /\ reader[r].result = NoResult
  BY DEF Init
<1>7. TypeOK
  BY <1>1, <1>2, <1>3, <1>4, <1>5, <1>6 DEF TypeOK
<1>8. WriterInv /\ AnswerInv /\ OperationInv
  BY DEF Init, WriterInv, AnswerInv, OperationInv
<1>9. \A g \in Generation : gens[g].status = "NONE"
  BY DEF Init
<1>10. ProvenInv /\ PublishedInv
  BY <1>9 DEF Init, ProvenInv, Visible, PublishedInv, Published
<1>11. HistoryChain
  <2>1. {h.version : h \in history} = {} /\ 1 .. ptr.version = {}
    BY DEF Init
  <2> QED BY <1>9, <2>1, NullAssumption DEF Init, HistoryChain
<1>12. PinnedReadsConsistent
  BY <1>6 DEF PinnedReadsConsistent
<1> QED BY <1>7, <1>8, <1>10, <1>11, <1>12 DEF IInv

LEMMA NextIInv == IInv /\ TamperInv /\ [Next]_vars => IInv'
<1> SUFFICES ASSUME IInv, TamperInv, [Next]_vars PROVE IInv'
  OBVIOUS
<1>1. ASSUME NEW w \in Writer, NEW a \in Artifact, CheckArtifact(w, a) PROVE IInv'
  BY <1>1, CheckArtifactStep
<1>2. ASSUME NEW w \in Writer, InsertArtifact(w) PROVE IInv'
  BY <1>2, InsertArtifactStep
<1>3. ASSUME NEW g \in Generation, CreateGeneration(g) PROVE IInv'
  BY <1>3, CreateGenerationStep
<1>4. ASSUME NEW g \in Generation, BeginBuild(g) PROVE IInv'
  BY <1>4, BeginBuildStep
<1>5. ASSUME NEW g \in Generation, PutCandidateBatch(g) PROVE IInv'
  BY <1>5, PutCandidateBatchStep
<1>6. ASSUME NEW g \in Generation, SealCandidate(g) PROVE IInv'
  BY <1>6, SealCandidateStep
<1>7. ASSUME NEW g \in Generation, NEW a \in Authorities, ValidateCandidate(g, a) PROVE IInv'
  BY <1>7, ValidateCandidateStep
<1>8. ASSUME NEW g \in Generation, NEW k \in Key, Tamper(g, k) PROVE IInv'
  BY <1>8, TamperStep
<1>9. ASSUME NEW o \in OpId, Publish(o) PROVE IInv'
  <2>1. PICK g \in Generation, kind \in Kind, expected \in PastPointers :
          LET req == [gen |-> g, expected |-> expected, kind |-> kind]
          IN  ReplayPublish(o, req) \/ CommitPublish(o, req)
    BY <1>9 DEF Publish
  <2> DEFINE req == [gen |-> g, expected |-> expected, kind |-> kind]
  <2>2. req \in Request /\ (ReplayPublish(o, req) \/ CommitPublish(o, req))
    BY <2>1, RequestInPast
  <2> HIDE DEF req
  <2> QED BY <2>2, ReplayPublishStep, CommitPublishStep
<1>10. ASSUME NEW r \in Reader, PinReader(r) PROVE IInv'
  BY <1>10, PinReaderStep
<1>11. ASSUME NEW r \in Reader, SelectValue(r) PROVE IInv'
  BY <1>11, SelectValueStep
<1>12. ASSUME NEW r \in Reader, NEW k \in Key, SelectGeneration(r, k) PROVE IInv'
  BY <1>12, SelectGenerationStep
<1>13. CASE UNCHANGED vars
  <2>0. UNCHANGED <<artifacts, gens, rows, ptr, history, ops, tampered,
                    writer, reader, answers>>
    BY <1>13 DEF vars, tables, clients
  <2>1. TypeOK' /\ WriterInv' /\ AnswerInv'
    BY <2>0 DEF IInv, TypeOK, WriterInv, AnswerInv
  <2>2. ProvenInv' /\ PinnedReadsConsistent'
    BY <2>0, ReaderFrame DEF IInv, ProvenInv, Proven, LinksValid, Tampered
  <2>3. PublishedInv' /\ HistoryChain' /\ OperationInv'
    BY <2>0, HistoryFrame DEF IInv, TypeOK, Published
  <2> QED BY <2>1, <2>2, <2>3 DEF IInv
<1> QED
  BY <1>1, <1>2, <1>3, <1>4, <1>5, <1>6, <1>7, <1>8, <1>9, <1>10, <1>11, <1>12, <1>13
  DEF Next

(* A commit reads the rows again, so it is of no generation with a row     *)
(* other than the manifest's; a change is later than every move so far.    *)
LEMMA NextTamperInv == IInv /\ TamperInv /\ [Next]_vars => TamperInv'
<1> SUFFICES ASSUME IInv, TamperInv, [Next]_vars PROVE TamperInv'
  OBVIOUS
<1>1. /\ rows \in [Generation -> Rows]
      /\ tampered \subseteq Generation \X Key \X Nat
      /\ \A h \in history : h \in HistoryEntry /\ h.version \in 1 .. ptr.version
  BY DEF IInv, TypeOK, HistoryChain
<1>2. ASSUME UNCHANGED <<rows, tampered, history>> PROVE TamperInv'
  BY <1>2 DEF TamperInv
<1>3. ASSUME NEW g \in Generation, PutCandidateBatch(g) PROVE TamperInv'
  <2>1. UNCHANGED <<tampered, history>>
    BY <1>3 DEF PutCandidateBatch
  <2>2. \A h \in Generation \ {g} : rows'[h] = rows[h]
    BY <1>1, <1>3 DEF PutCandidateBatch
  <2>3. \A h \in history : h.to # g
    BY <1>3 DEF IInv, PublishedInv, Published, PutCandidateBatch, Batchable
  <2>4. ASSUME NEW c \in tampered, rows'[c[1]][c[2]] # ManifestRows[c[1]][c[2]],
               NEW h \in history, h.to = c[1]
        PROVE  h.version <= c[3]
    <3>1. c[1] \in Generation /\ c[1] # g
      BY <1>1, <2>3, <2>4
    <3> QED BY <2>2, <2>4, <3>1 DEF TamperInv
  <2> QED BY <2>1, <2>4 DEF TamperInv
<1>4. ASSUME NEW g \in Generation, NEW k \in Key, Tamper(g, k) PROVE TamperInv'
  <2>1. /\ UNCHANGED history
        /\ tampered' = tampered \union {<<g, k, ptr.version>>}
        /\ ~Tampered(g, k)
    BY <1>4 DEF Tamper
  <2>2. \A h \in Generation, j \in Key : ~(h = g /\ j = k) => rows'[h][j] = rows[h][j]
    BY <1>1, <1>4 DEF Tamper, Rows
  <2>3. ASSUME NEW c \in tampered', rows'[c[1]][c[2]] # ManifestRows[c[1]][c[2]],
               NEW h \in history, h.to = c[1]
        PROVE  h.version <= c[3]
    <3>1. CASE c \in tampered
      <4>1. c[1] \in Generation /\ c[2] \in Key /\ ~(c[1] = g /\ c[2] = k)
        BY <1>1, <2>1, <3>1 DEF Tampered
      <4> QED BY <2>2, <2>3, <3>1, <4>1 DEF TamperInv
    <3>2. CASE c = <<g, k, ptr.version>>
      BY <1>1, <3>2
    <3> QED BY <2>1, <3>1, <3>2
  <2> QED BY <2>1, <2>3 DEF TamperInv
<1>5. ASSUME NEW o \in OpId, NEW req \in Request, CommitPublish(o, req)
      PROVE  TamperInv'
  <2>1. /\ UNCHANGED <<rows, tampered>>
        /\ history' = history \union {EntryOf(o, req)}
        /\ EntryOf(o, req).to = req.gen
        /\ rows[req.gen] = ManifestRows[req.gen]
    BY <1>5, CommitFacts, EntryIsNew DEF StillValid
  <2>2. ASSUME NEW c \in tampered, rows[c[1]][c[2]] # ManifestRows[c[1]][c[2]],
               NEW h \in history', h.to = c[1]
        PROVE  h.version <= c[3]
    <3>1. h \in history
      BY <2>1, <2>2
    <3> QED BY <2>2, <3>1 DEF TamperInv
  <2> QED BY <2>1, <2>2 DEF TamperInv
<1>6. ASSUME NEW o \in OpId, Publish(o) PROVE TamperInv'
  <2>1. PICK g \in Generation, kind \in Kind, expected \in PastPointers :
          LET req == [gen |-> g, expected |-> expected, kind |-> kind]
          IN  ReplayPublish(o, req) \/ CommitPublish(o, req)
    BY <1>6 DEF Publish
  <2> DEFINE req == [gen |-> g, expected |-> expected, kind |-> kind]
  <2>2. req \in Request /\ (ReplayPublish(o, req) \/ CommitPublish(o, req))
    BY <2>1, RequestInPast
  <2> HIDE DEF req
  <2>3. ReplayPublish(o, req) => UNCHANGED <<rows, tampered, history>>
    BY DEF ReplayPublish, tables
  <2> QED BY <1>2, <1>5, <2>2, <2>3
<1>7. ASSUME NEW w \in Writer,
             InsertArtifact(w) \/ \E a \in Artifact : CheckArtifact(w, a)
      PROVE  UNCHANGED <<rows, tampered, history>>
  BY <1>7 DEF InsertArtifact, CheckArtifact, tables
<1>8. ASSUME NEW g \in Generation,
             \/ CreateGeneration(g) \/ BeginBuild(g) \/ SealCandidate(g)
             \/ \E authority \in Authorities : ValidateCandidate(g, authority)
      PROVE  UNCHANGED <<rows, tampered, history>>
  BY <1>8 DEF CreateGeneration, BeginBuild, SealCandidate, ValidateCandidate
<1>9. ASSUME NEW r \in Reader,
             PinReader(r) \/ SelectValue(r) \/ \E k \in Key : SelectGeneration(r, k)
      PROVE  UNCHANGED <<rows, tampered, history>>
  BY <1>9 DEF PinReader, SelectValue, SelectGeneration, tables
<1>10. CASE UNCHANGED vars
  BY <1>2, <1>10 DEF vars, tables
<1> QED
  BY <1>2, <1>3, <1>4, <1>6, <1>7, <1>8, <1>9, <1>10 DEF Next

(* The inductive invariant holds in every reachable state.                 *)
THEOREM Invariance == Spec => [](IInv /\ TamperInv)
<1>1. Init => TamperInv
  BY DEF Init, TamperInv
<1> QED BY <1>1, InitIInv, NextIInv, NextTamperInv, PTL DEF Spec

----------------------------------------------------------------------------
(* What the runs check.                                                    *)

(* Every table row and every client keeps its declared type.               *)
THEOREM TypeCorrect == Spec => []TypeOK
<1>1. IInv => TypeOK
  BY DEF IInv
<1> QED BY <1>1, Invariance, PTL

(* No generation is READY or later without the validation that matched.    *)
THEOREM ProvenHolds == Spec => []ProvenBeforeVisible
<1>1. IInv => ProvenBeforeVisible
  BY DEF IInv, ProvenInv, Proven, Visible, ProvenBeforeVisible
<1> QED BY <1>1, Invariance, PTL

(* The pointer's history is one unbroken chain of recorded moves.          *)
THEOREM HistoryHolds == Spec => []HistoryChain
<1>1. IInv => HistoryChain
  BY DEF IInv
<1> QED BY <1>1, Invariance, PTL

(* Whatever publish() returned stays the one move made for its operation.  *)
THEOREM AnswersHold == Spec => []AnswersAreDurable
<1>1. IInv => AnswersAreDurable
  <2> SUFFICES ASSUME IInv PROVE AnswersAreDurable
    OBVIOUS
  <2>1. answers \subseteq [op: OpId, request: Request, result: HistoryEntry]
    BY DEF IInv, TypeOK
  <2>2. ASSUME NEW a \in answers
        PROVE  /\ ops[a.op].request = a.request /\ ops[a.op].result = a.result
               /\ a.result \in history /\ Performs(a.op, a.request, a.result)
    BY <2>1 DEF IInv, AnswerInv, OperationInv
  <2>3. \A a, b \in answers : a.op = b.op => a = b
    BY <2>1, <2>2
  <2> QED BY <2>2, <2>3 DEF Performs, AnswersAreDurable
<1> QED BY <1>1, Invariance, PTL

(* A pinned reader is served from its own generation, whoever publishes.   *)
THEOREM PinnedReadsHold == Spec => []PinnedReadsConsistent
<1>1. IInv => PinnedReadsConsistent
  BY DEF IInv
<1> QED BY <1>1, Invariance, PTL

(* Only a commit moves the pointer.                                        *)
LEMMA PointerMoves ==
  ASSUME IInv, [Next]_vars, ptr' # ptr
  PROVE  \E o \in OpId, req \in Request : CommitPublish(o, req)
<1>1. PICK o \in OpId : Publish(o)
  BY DEF Next, vars, tables, CheckArtifact, InsertArtifact, CreateGeneration, BeginBuild,
     PutCandidateBatch, SealCandidate, ValidateCandidate, Tamper, PinReader,
     SelectGeneration, SelectValue
<1>2. PICK g \in Generation, kind \in Kind, expected \in PastPointers :
        LET req == [gen |-> g, expected |-> expected, kind |-> kind]
        IN  ReplayPublish(o, req) \/ CommitPublish(o, req)
  BY <1>1 DEF Publish
<1> DEFINE req == [gen |-> g, expected |-> expected, kind |-> kind]
<1>3. req \in Request /\ (ReplayPublish(o, req) \/ CommitPublish(o, req))
  BY <1>2, RequestInPast
<1> HIDE DEF req
<1> QED BY <1>3 DEF ReplayPublish, tables

(* Of two writers of one artifact identity, the first one's content stays. *)
THEOREM ArtifactsHold == Spec => ArtifactsImmutable
<1>1. IInv /\ [Next]_vars =>
        [\A i \in ArtifactId : artifacts[i] # NoArtifact => artifacts'[i] = artifacts[i]]_vars
  <2> SUFFICES ASSUME IInv, [Next]_vars, NEW i \in ArtifactId, artifacts[i] # NoArtifact
               PROVE  artifacts'[i] = artifacts[i]
    OBVIOUS
  <2>1. ASSUME NEW w \in Writer, InsertArtifact(w) PROVE artifacts'[i] = artifacts[i]
    BY <2>1 DEF IInv, TypeOK, InsertArtifact, Insertable
  <2>2. ASSUME NEW o \in OpId, Publish(o) PROVE UNCHANGED artifacts
    BY <2>2 DEF Publish, ReplayPublish, CommitPublish, tables
  <2> QED
    BY <2>1, <2>2
    DEF Next, vars, tables, CheckArtifact, CreateGeneration, BeginBuild,
        PutCandidateBatch, SealCandidate, ValidateCandidate, Tamper, PinReader,
        SelectGeneration, SelectValue
<1> QED BY <1>1, Invariance, PTL DEF Spec, ArtifactsImmutable

----------------------------------------------------------------------------
(* The refinement of Publication.                                          *)

LEMMA InitRefines == Init => Pub!Init
BY DEF Init, Pub!Init, PublicationLog, VisibleRows, Published

(* What does not move the pointer changes nothing that readers can see.    *)
LEMMA StillStutters ==
  ASSUME IInv, [Next]_vars, UNCHANGED ptr
  PROVE  UNCHANGED <<PublicationLog, VisibleRows>>
<1>1. UNCHANGED history /\ \A g \in Generation :
        /\ Published(g)' <=> Published(g)
        /\ Published(g) => gens'[g] = gens[g]
  <2>1. ASSUME NEW o \in OpId, Publish(o) PROVE UNCHANGED <<gens, history>>
    <3>1. PICK g \in Generation, kind \in Kind, expected \in PastPointers :
            LET req == [gen |-> g, expected |-> expected, kind |-> kind]
            IN  ReplayPublish(o, req) \/ CommitPublish(o, req)
      BY <2>1 DEF Publish
    <3> DEFINE req == [gen |-> g, expected |-> expected, kind |-> kind]
    <3>2. req \in Request /\ (ReplayPublish(o, req) \/ CommitPublish(o, req))
      BY <3>1, RequestInPast
    <3> HIDE DEF req
    <3>3. ~ CommitPublish(o, req)
      <4>1. SUFFICES ASSUME CommitPublish(o, req) PROVE FALSE
        OBVIOUS
      <4>2. ptr' = [gen |-> req.gen, version |-> ptr.version + 1] /\ ptr.gen # req.gen
        BY <3>2, <4>1, CommitFacts
      <4> QED BY <4>2
    <3> QED BY <3>2, <3>3 DEF ReplayPublish, tables
  <2>2. ASSUME NEW g \in Generation,
               CreateGeneration(g) \/ BeginBuild(g) \/ SealCandidate(g)
                 \/ \E a \in Authorities : ValidateCandidate(g, a)
        PROVE  /\ ~ Published(g) /\ ~ Published(g)'
               /\ \A h \in Generation \ {g} : gens'[h] = gens[h]
               /\ UNCHANGED history
    <3>1. /\ gens \in [Generation -> GenerationRow]
          /\ \A row \in GenerationRow : DOMAIN row = {"status", "predecessor", "receipt"}
      BY DEF IInv, TypeOK, GenerationRow
    <3>2. gens'[g].status \in {"CREATED", "BUILDING", "VALIDATING", "READY", "FAILED"}
      <4>1. CASE CreateGeneration(g)
        BY <3>1, <4>1 DEF CreateGeneration
      <4>2. CASE BeginBuild(g)
        BY <3>1, <4>2 DEF BeginBuild
      <4>3. CASE SealCandidate(g)
        BY <3>1, <4>3 DEF SealCandidate
      <4>4. ASSUME NEW a \in Authorities, ValidateCandidate(g, a)
            PROVE  gens'[g].status \in {"READY", "FAILED"}
        BY <3>1, <4>4 DEF ValidateCandidate
      <4> QED BY <2>2, <4>1, <4>2, <4>3, <4>4
    <3> QED
      BY <2>2, <3>1, <3>2
      DEF CreateGeneration, BeginBuild, SealCandidate, ValidateCandidate, Published
  <2>3. ASSUME NEW g \in Generation,
               CreateGeneration(g) \/ BeginBuild(g) \/ SealCandidate(g)
                 \/ \E a \in Authorities : ValidateCandidate(g, a)
        PROVE  /\ UNCHANGED history
               /\ \A h \in Generation :
                    /\ Published(h)' <=> Published(h)
                    /\ Published(h) => gens'[h] = gens[h]
    BY <2>2, <2>3 DEF Published
  <2>4. CASE UNCHANGED <<gens, history>>
    BY <2>4 DEF Published
  <2>5. UNCHANGED <<gens, history>>
          \/ \E g \in Generation :
               CreateGeneration(g) \/ BeginBuild(g) \/ SealCandidate(g)
                 \/ \E a \in Authorities : ValidateCandidate(g, a)
    BY <2>1
    DEF Next, vars, tables, CheckArtifact, InsertArtifact, PutCandidateBatch, Tamper,
        PinReader, SelectGeneration, SelectValue
  <2> QED BY <2>3, <2>4, <2>5
<1> QED BY <1>1 DEF PublicationLog, VisibleRows, Published

(* A commit moves the head of the feature set one version on.              *)
LEMMA CommitRefines ==
  ASSUME IInv, NEW o \in OpId, NEW req \in Request, CommitPublish(o, req)
  PROVE  Pub!Next
<1> DEFINE g == req.gen
           f == TheFeatures
           entry == EntryOf(o, req)
<1>1. /\ g \in Generation /\ ptr.gen # g /\ ptr.version \in Nat
      /\ ptr' = [gen |-> g, version |-> ptr.version + 1]
      /\ history' = history \union {entry}
  BY CommitFacts
<1>2. entry.version = ptr.version + 1 /\ entry.to = g
  BY EntryIsNew
<1> HIDE DEF entry
<1>3. Pub!MoveHead(f, g)
  <2>1. PublicationLog' =
          PublicationLog \union {[fs |-> f, version |-> ptr.version + 1, gen |-> g]}
    BY <1>1, <1>2 DEF PublicationLog
  <2> QED BY <1>1, <2>1 DEF Pub!MoveHead
<1>4. \A h \in Generation :
        /\ Published(h)' <=> Published(h) \/ h = g
        /\ gens'[h].receipt = gens[h].receipt
  BY CommitPublishes
<1>5. VisibleRows' = [h \in Generation |->
        IF Published(h) \/ h = g THEN gens[h].receipt.actual ELSE Absent]
  BY <1>4 DEF VisibleRows
<1>6. CASE req.kind = "activate"
  <2>1. ~ Published(g)
    BY <1>6, CommitFacts DEF Published
  <2>2. VisibleRows[g] = Absent
    BY <1>1, <2>1 DEF VisibleRows
  <2>3. gens[g].receipt.actual \in PromisedRows[f][g]
    BY <1>1, CommitFacts DEF StillValid, PromisedRows
  <2>4. VisibleRows' = [VisibleRows EXCEPT ![g] = gens[g].receipt.actual]
    BY <1>5, <2>1 DEF VisibleRows
  <2> QED BY <1>1, <1>3, <2>2, <2>3, <2>4 DEF Pub!Next, Pub!PublishFirst
<1>7. CASE req.kind = "rollback"
  <2>1. Published(g)
    BY <1>7, CommitFacts DEF Published
  <2>2. \E h \in PublicationLog : h.fs = f /\ h.gen = g
    <3>1. PICK h \in history : h.to = g
      BY <1>1, <2>1 DEF IInv, PublishedInv
    <3> DEFINE e == [fs |-> f, version |-> h.version, gen |-> h.to]
    <3>2. e \in PublicationLog
      BY DEF PublicationLog
    <3> QED BY <3>1, <3>2
  <2>3. VisibleRows' = VisibleRows
    BY <1>5, <2>1 DEF VisibleRows
  <2> QED BY <1>1, <1>3, <2>2, <2>3 DEF Pub!Next, Pub!PublishAgain
<1> QED BY <1>6, <1>7, CommitFacts DEF Kind

LEMMA NextRefines == IInv /\ [Next]_vars => [Pub!Next]_(Pub!vars)
<1> SUFFICES ASSUME IInv, [Next]_vars PROVE [Pub!Next]_(Pub!vars)
  OBVIOUS
<1>1. CASE UNCHANGED ptr
  BY <1>1, StillStutters DEF Pub!vars
<1>2. CASE ptr' # ptr
  BY <1>2, PointerMoves, CommitRefines
<1> QED BY <1>1, <1>2

(* The store implements Publication: a generation becomes visible in one   *)
(* step, with the rows its receipt certifies, and every move, rollbacks    *)
(* included, is the next version of the head.                              *)
THEOREM Refinement == Spec => ImplementsPublication
BY Invariance, InitRefines, NextRefines, PTL DEF Spec, ImplementsPublication, Pub!Spec

=============================================================================
