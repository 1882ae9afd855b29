--------------------------- MODULE BackfillProofs ---------------------------
(***************************************************************************)
(* Proofs about Backfill, for any revisions, definitions, customers,       *)
(* cutoffs and labels, any identities and writers, and any number of       *)
(* builds.  A computation is never looked into: whatever it is, it gives   *)
(* the same value for the same set of revisions.                           *)
(***************************************************************************)
EXTENDS Backfill, FiniteSetTheorems, TLAPS

----------------------------------------------------------------------------
(* The inductive invariant.                                                *)

(* Each event known at a cutoff has a last revision.                       *)
LastExists(H, k) ==
    \A e \in {r.event : r \in KnownBy(H, k)} :
        \E r \in KnownBy(H, k) :
            /\ r.event = e
            /\ \A s \in KnownBy(H, k) : s.event = e => s.known <= r.known

HistoryInv ==
    /\ history \subseteq Offered /\ IsFiniteSet(history)
    /\ \A k \in Knowledge : LastExists(history, k)
    /\ frontier \in Int

(* A build is a manifest whose rows are a full computation's, and nothing  *)
(* that has arrived since was known at its cutoff.                         *)
Honest(H, f, b) ==
    /\ b = [gen |-> b.gen, known |-> b.known, source |-> b.source,
            base |-> b.base, rows |-> b.rows]
    /\ b.gen \in Gens
    /\ b.known \in Knowledge /\ b.known <= f
    /\ KnownBy(H, b.known) = KnownBy(b.source, b.known)
    /\ b.rows = Materialize(b.source, Customers, Cutoff, b.known)

WriterInv ==
    /\ writer = [w \in Writers |-> [step |-> writer[w].step, build |-> writer[w].build,
                                    held |-> writer[w].held]]
    /\ \A w \in Writers : ~At(w, "idle") => Honest(history, frontier, writer[w].build)

(* Whatever is mixed in a directory, its manifest is some build's.         *)
Sane(H, f, dir) ==
    dir # Nil =>
        /\ dir = [rows |-> dir.rows, manifest |-> dir.manifest, complete |-> dir.complete]
        /\ dir.manifest # Nil => Honest(H, f, dir.manifest)

Directories(H, f, dirs) ==
    /\ dirs = [g \in Gens |-> dirs[g]]
    /\ \A g \in Gens : Sane(H, f, dirs[g])

DirectoryInv ==
    Directories(history, frontier, disk) /\ Directories(history, frontier, staging)

(* A dataset is the one extracted now, too.                                *)
DatasetInv ==
    /\ dataset = [a \in AsOf |-> dataset[a]]
    /\ \A a \in AsOf :
           dataset[a] # Nil => a <= frontier /\ dataset[a] = DatasetRows(history, a)

IInv == HistoryInv /\ WriterInv /\ DirectoryInv /\ DatasetInv

----------------------------------------------------------------------------
(* The three ways to select the payments of a cutoff.                      *)

LEMMA OfferedRevision ==
    ASSUME NEW H \in SUBSET Offered, NEW k, NEW r \in KnownBy(H, k)
    PROVE  r \in H /\ r \in Offered /\ r.id \in Nat /\ r.known \in Nat
BY CutoffsAreEpochs DEF KnownBy

LEMMA LatestIsKnown ==
    ASSUME NEW H, NEW k, NEW r \in Latest(H, k)
    PROVE  r \in KnownBy(H, k)
BY DEF Latest

(* An accepted history has at most one last revision of an event.          *)
LEMMA LatestUnique ==
    ASSUME NEW H \in SUBSET Offered, Normal(H), NEW k,
           NEW r \in Latest(H, k), NEW s \in Latest(H, k), r.event = s.event
    PROVE  r = s
<1>1. r \in KnownBy(H, k) /\ s \in KnownBy(H, k)
  BY LatestIsKnown
<1>2. r.known \in Nat /\ s.known \in Nat /\ r \in H /\ s \in H
  BY <1>1, OfferedRevision
<1>3. r.known <= s.known /\ s.known <= r.known
  BY <1>1 DEF Latest
<1>4. r.known = s.known
  BY <1>2, <1>3
<1>5. r.id = s.id
  BY <1>2, <1>4 DEF Normal
<1> QED
  BY <1>2, <1>5 DEF Normal

(* The first row of a window ordered by knowledge time and revision        *)
(* identity is the last revision.                                          *)
LEMMA RankOne ==
    ASSUME NEW H \in SUBSET Offered, IsFiniteSet(H), Normal(H), NEW k,
           NEW r \in KnownBy(H, k)
    PROVE  Rank(r, KnownBy(H, k)) = 1 <=> r \in Latest(H, k)
<1> DEFINE K == KnownBy(H, k)
           D == {s \in K : /\ s.event = r.event
                           /\ \/ s.known > r.known
                              \/ s.known = r.known /\ s.id > r.id}
<1>1. IsFiniteSet(K) /\ D \in SUBSET K
  BY FS_Subset DEF KnownBy
<1>2. IsFiniteSet(D)
  BY <1>1, FS_Subset
<1>3. Cardinality(D) \in Nat /\ (Cardinality(D) = 0 <=> D = {})
  BY <1>2, FS_EmptySet, FS_CardinalityType
<1>4. Rank(r, K) = 1 + Cardinality(D)
  BY DEF Rank
<1>5. ASSUME D = {} PROVE r \in Latest(H, k)
  <2>1. ASSUME NEW s \in K, s.event = r.event PROVE s.known <= r.known
    BY <1>5, <2>1, OfferedRevision
  <2> QED
    BY <2>1 DEF Latest
<1>6. ASSUME r \in Latest(H, k), NEW s \in D PROVE FALSE
  <2>1. s \in K /\ s.event = r.event
    OBVIOUS
  <2>2. s.known <= r.known
    BY <1>6, <2>1 DEF Latest
  <2>3. r \in H /\ s \in H /\ {r.known, s.known, r.id, s.id} \subseteq Nat
    BY <2>1, OfferedRevision
  <2>4. s.known = r.known /\ s.id > r.id
    BY <2>2, <2>3
  <2>5. s.id = r.id
    BY <2>1, <2>3, <2>4 DEF Normal
  <2> QED
    BY <2>3, <2>4, <2>5
<1> HIDE DEF D
<1> QED
  BY <1>3, <1>4, <1>5, <1>6

LEMMA AuthoritativeIsLatest ==
    ASSUME NEW H \in SUBSET Offered, IsFiniteSet(H), Normal(H), NEW k
    PROVE  Authoritative(H, k) = {r \in Latest(H, k) : r.op = "upsert"}
<1>1. \A r \in KnownBy(H, k) : Rank(r, KnownBy(H, k)) = 1 <=> r \in Latest(H, k)
  BY RankOne
<1> QED
  BY <1>1, LatestIsKnown DEF Authoritative

(* Spark's rows are the shared library's, for any customers and cutoffs.   *)
LEMMA ComputedIsMaterialize ==
    ASSUME NEW H \in SUBSET Offered, IsFiniteSet(H), Normal(H),
           NEW customers, NEW cut, NEW k
    PROVE  ComputedRows(H, customers, cut, k) = Materialize(H, customers, cut, k)
<1>1. ASSUME NEW p \in customers \X Definitions
      PROVE  {r \in Authoritative(H, k) :
                  r.at <= cut /\ r.customer = p[1] /\ InWindow(p[2], r, cut)}
             = {r \in Select(H, p[1], cut, k) : InWindow(p[2], r, cut)}
  BY AuthoritativeIsLatest DEF Select
<1> QED
  BY <1>1 DEF ComputedRows, Materialize

(* The projector's dictionary holds the last revision of each event, so    *)
(* its rows are the shared library's too.                                  *)
LEMMA ExpectedIsMaterialize ==
    ASSUME NEW H \in SUBSET Offered, Normal(H), NEW customers, NEW cut, NEW k,
           LastExists(H, k)
    PROVE  ExpectedRows(H, customers, cut, k) = Materialize(H, customers, cut, k)
<1> DEFINE events == {r.event : r \in KnownBy(H, k)}
           current == [e \in events |->
               CHOOSE r \in KnownBy(H, k) :
                   r.event = e /\ \A s \in KnownBy(H, k) : s.event = e => s.known <= r.known]
           visible(c) == {e \in events : /\ current[e].op = "upsert"
                                         /\ current[e].customer = c
                                         /\ current[e].at <= cut}
           taken(p) == {current[e] : e \in {f \in visible(p[1]) :
                                               InWindow(p[2], current[f], cut)}}
<1>1. ASSUME NEW e \in events
      PROVE  current[e] \in Latest(H, k) /\ current[e].event = e
  <2>1. \E r \in KnownBy(H, k) :
            r.event = e /\ \A s \in KnownBy(H, k) : s.event = e => s.known <= r.known
    BY DEF LastExists
  <2>2. /\ current[e] \in KnownBy(H, k) /\ current[e].event = e
        /\ \A s \in KnownBy(H, k) : s.event = e => s.known <= current[e].known
    BY <2>1
  <2> QED
    BY <2>2 DEF Latest
<1>2. ASSUME NEW r \in Latest(H, k) PROVE r.event \in events /\ current[r.event] = r
  <2>1. r.event \in events
    BY LatestIsKnown
  <2>2. current[r.event] \in Latest(H, k) /\ current[r.event].event = r.event
    BY <1>1, <2>1
  <2> QED
    BY <2>1, <2>2, LatestUnique
<1> HIDE DEF current, events
<1>3. ASSUME NEW p \in customers \X Definitions
      PROVE  taken(p) = {r \in Select(H, p[1], cut, k) : InWindow(p[2], r, cut)}
  BY <1>1, <1>2 DEF Select
<1>4. ExpectedRows(H, customers, cut, k)
      = [p \in customers \X Definitions |-> Compute(p[2], taken(p), cut)]
  BY DEF ExpectedRows, current, events
<1> HIDE DEF taken
<1> QED
  BY <1>3, <1>4 DEF Materialize

(* What was not known at a cutoff has no part in its rows.                 *)
LEMMA SameKnowledgeSameRows ==
    ASSUME NEW H, NEW I, NEW customers, NEW cut, NEW k, KnownBy(H, k) = KnownBy(I, k)
    PROVE  Materialize(H, customers, cut, k) = Materialize(I, customers, cut, k)
BY DEF Materialize, Select, Latest

----------------------------------------------------------------------------
(* The affected scope.                                                     *)

(* The state of an event is its last revision, when that is an upsert.     *)
LEMMA StateIs ==
    ASSUME NEW H \in SUBSET Offered, Normal(H), NEW k,
           NEW r \in Latest(H, k), r.op = "upsert"
    PROVE  /\ r.event \in EventsOf(H) /\ r # Nil
           /\ StateByEvent(H, k)[r.event] = r
<1> DEFINE last == {s \in Latest(H, k) : s.event = r.event /\ s.op = "upsert"}
<1>1. r \in H /\ r \in Offered
  BY LatestIsKnown, OfferedRevision
<1>2. last = {r}
  BY LatestUnique
<1>3. (CHOOSE s \in last : TRUE) = r
  BY <1>2
<1>4. r.event \in EventsOf(H)
  BY <1>1 DEF EventsOf
<1>5. StateByEvent(H, k)[r.event] = IF last = {} THEN Nil ELSE CHOOSE s \in last : TRUE
  BY <1>4 DEF StateByEvent
<1> QED
  BY <1>1, <1>2, <1>3, <1>4, <1>5, NilIsNothing

LEMMA StateIsLatest ==
    ASSUME NEW H, NEW k, NEW e \in EventsOf(H), StateByEvent(H, k)[e] # Nil
    PROVE  /\ StateByEvent(H, k)[e] \in Latest(H, k)
           /\ StateByEvent(H, k)[e].op = "upsert"
<1> DEFINE last == {s \in Latest(H, k) : s.event = e /\ s.op = "upsert"}
<1>1. StateByEvent(H, k)[e] = IF last = {} THEN Nil ELSE CHOOSE s \in last : TRUE
  BY DEF StateByEvent
<1> QED
  BY <1>1

(* The scope does not depend on which cutoff is the earlier.               *)
LEMMA AffectedBothWays ==
    ASSUME NEW H, NEW base, NEW target
    PROVE  AffectedPairs(H, base, target) = AffectedPairs(H, target, base)
<1>1. \A e : Candidates(H, e, base, target) = Candidates(H, e, target, base)
  BY DEF Candidates
<1> QED
  BY <1>1 DEF AffectedPairs

(* A payment of an unaffected pair at one cutoff is a payment of it at the *)
(* other.                                                                  *)
LEMMA UnaffectedPayment ==
    ASSUME NEW H \in SUBSET Offered, Normal(H), NEW base, NEW target,
           NEW customer, NEW d \in Definitions,
           <<customer, d>> \notin AffectedPairs(H, base, target),
           NEW r \in Select(H, customer, Cutoff, base), InWindow(d, r, Cutoff)
    PROVE  r \in Select(H, customer, Cutoff, target)
<1> DEFINE e == r.event
<1>1. r \in Latest(H, base) /\ r.op = "upsert" /\ r.customer = customer /\ r.at <= Cutoff
  BY DEF Select
<1>2. e \in EventsOf(H) /\ r # Nil /\ StateByEvent(H, base)[e] = r
  BY <1>1, StateIs
<1>3. ASSUME StateByEvent(H, target)[e] # r PROVE FALSE
  <2>1. r \in Candidates(H, e, base, target)
    BY <1>2 DEF Candidates
  <2> DEFINE changed == {f \in EventsOf(H) :
                            StateByEvent(H, base)[f] # StateByEvent(H, target)[f]}
             moved == {x \in changed \X Definitions :
                          \E q \in Candidates(H, x[1], base, target) :
                              q.at <= Cutoff /\ InWindow(x[2], q, Cutoff)}
             pairs(x) == {<<q.customer, x[2]>> : q \in Candidates(H, x[1], base, target)}
  <2>2. PICK x \in changed \X Definitions : x[1] = e /\ x[2] = d
    <3>1. e \in changed
      BY <1>2, <1>3
    <3> HIDE DEF changed, e
    <3>2. <<e, d>> \in changed \X Definitions /\ <<e, d>>[1] = e /\ <<e, d>>[2] = d
      BY <3>1
    <3> QED BY <3>2
  <2>3. x \in moved
    BY <1>1, <2>1, <2>2
  <2>4. <<customer, d>> \in pairs(x)
    BY <1>1, <2>1, <2>2
  <2>5. AffectedPairs(H, base, target) = UNION {pairs(y) : y \in moved}
    BY DEF AffectedPairs
  <2> HIDE DEF moved, pairs
  <2> QED
    BY <2>3, <2>4, <2>5
<1>4. StateByEvent(H, target)[e] = r /\ StateByEvent(H, target)[e] # Nil
  BY <1>2, <1>3
<1>5. r \in Latest(H, target)
  BY <1>2, <1>4, StateIsLatest
<1> QED
  BY <1>1, <1>5 DEF Select

(* An unaffected pair has the same value at both cutoffs.                  *)
LEMMA UnaffectedValue ==
    ASSUME NEW H \in SUBSET Offered, Normal(H), NEW base, NEW target,
           NEW p \in Customers \X Definitions, p \notin AffectedPairs(H, base, target)
    PROVE  Materialize(H, Customers, Cutoff, base)[p]
           = Materialize(H, Customers, Cutoff, target)[p]
<1> DEFINE S(k) == {r \in Select(H, p[1], Cutoff, k) : InWindow(p[2], r, Cutoff)}
<1>1. p[2] \in Definitions /\ p = <<p[1], p[2]>>
  OBVIOUS
<1>2. <<p[1], p[2]>> \notin AffectedPairs(H, base, target)
  BY <1>1
<1>3. <<p[1], p[2]>> \notin AffectedPairs(H, target, base)
  BY <1>2, AffectedBothWays
<1>4. ASSUME NEW r \in S(base) PROVE r \in S(target)
  BY <1>1, <1>2, UnaffectedPayment
<1>5. ASSUME NEW r \in S(target) PROVE r \in S(base)
  BY <1>1, <1>3, UnaffectedPayment
<1>6. S(base) = S(target)
  BY <1>4, <1>5
<1> QED
  BY <1>6 DEF Materialize

(* The rows of an incremental build.                                       *)
CarriedRows(H, rows, affected, target) ==
    LET again == ComputedRows(H, {q[1] : q \in affected}, Cutoff, target)
    IN  [p \in Customers \X Definitions |-> IF p \in affected THEN again[p] ELSE rows[p]]

(* What is recomputed beside what is carried over makes a full             *)
(* computation.                                                            *)
LEMMA CarriedOver ==
    ASSUME NEW H \in SUBSET Offered, IsFiniteSet(H), Normal(H), NEW base, NEW target,
           NEW rows, rows = Materialize(H, Customers, Cutoff, base),
           NEW affected, affected = AffectedPairs(H, base, target)
    PROVE  CarriedRows(H, rows, affected, target) = Materialize(H, Customers, Cutoff, target)
<1> DEFINE again == {q[1] : q \in affected}
<1>1. ASSUME NEW p \in Customers \X Definitions, p \in affected
      PROVE  ComputedRows(H, again, Cutoff, target)[p]
             = Materialize(H, Customers, Cutoff, target)[p]
  <2>1. p \in again \X Definitions
    BY <1>1
  <2>2. ComputedRows(H, again, Cutoff, target) = Materialize(H, again, Cutoff, target)
    BY ComputedIsMaterialize
  <2> QED
    BY <2>1, <2>2 DEF Materialize
<1>2. ASSUME NEW p \in Customers \X Definitions, p \notin affected
      PROVE  rows[p] = Materialize(H, Customers, Cutoff, target)[p]
  BY <1>2, UnaffectedValue
<1>3. \A p \in Customers \X Definitions :
          (IF p \in affected THEN ComputedRows(H, again, Cutoff, target)[p] ELSE rows[p])
          = Materialize(H, Customers, Cutoff, target)[p]
  BY <1>1, <1>2
<1>4. Materialize(H, Customers, Cutoff, target)
      = [p \in Customers \X Definitions |->
            Materialize(H, Customers, Cutoff, target)[p]]
  BY DEF Materialize
<1> QED
  BY <1>3, <1>4 DEF CarriedRows

----------------------------------------------------------------------------
(* The history, whatever arrives.                                          *)

LEMMA LastGrows ==
    ASSUME NEW H \in SUBSET Offered, NEW r \in Offered, NEW k, LastExists(H, k)
    PROVE  LastExists(H \cup {r}, k)
<1> DEFINE I == H \cup {r}
           Last(K, q) == \A s \in K : s.event = q.event => s.known <= q.known
<1>1. I \in SUBSET Offered
  OBVIOUS
<1>2. KnownBy(I, k) = KnownBy(H, k) \cup {q \in {r} : q.known <= k}
  BY DEF KnownBy
<1>3. \A q \in KnownBy(I, k) : q.known \in Nat
  BY <1>1, OfferedRevision
<1>4. ASSUME NEW p \in KnownBy(H, k)
      PROVE  \E q \in KnownBy(H, k) : q.event = p.event /\ Last(KnownBy(H, k), q)
  BY DEF LastExists
<1>5. ASSUME NEW p \in KnownBy(I, k)
      PROVE  \E q \in KnownBy(I, k) : q.event = p.event /\ Last(KnownBy(I, k), q)
  <2>1. CASE \E q \in KnownBy(H, k) : q.event = p.event
    <3>1. PICK q \in KnownBy(H, k) : q.event = p.event /\ Last(KnownBy(H, k), q)
      BY <1>4, <2>1
    <3>2. q \in KnownBy(I, k) /\ q.known \in Nat
      BY <1>2, <1>3
    <3>3. CASE r \in KnownBy(I, k) /\ r.event = p.event /\ r.known > q.known
      <4>1. r.known \in Nat
        BY <1>3, <3>3
      <4>2. ASSUME NEW s \in KnownBy(I, k), s.event = r.event PROVE s.known <= r.known
        <5>1. s.known \in Nat
          BY <1>3
        <5>2. CASE s \in KnownBy(H, k)
          <6>1. s.known <= q.known
            BY <3>1, <3>3, <4>2, <5>2
          <6> QED BY <3>2, <3>3, <4>1, <5>1, <6>1
        <5>3. CASE s = r
          BY <4>1, <5>3
        <5> QED BY <1>2, <5>2, <5>3
      <4> QED BY <3>3, <4>2
    <3>4. CASE ~(r \in KnownBy(I, k) /\ r.event = p.event /\ r.known > q.known)
      <4>1. ASSUME NEW s \in KnownBy(I, k), s.event = q.event PROVE s.known <= q.known
        <5>1. s.known \in Nat
          BY <1>3
        <5>2. CASE s \in KnownBy(H, k)
          BY <3>1, <4>1, <5>2
        <5>3. CASE s = r
          <6>1. ~(r.known > q.known)
            BY <3>1, <3>4, <4>1, <5>3
          <6> QED BY <3>2, <5>1, <5>3, <6>1
        <5> QED BY <1>2, <5>2, <5>3
      <4> QED BY <3>1, <3>2, <4>1
    <3> QED BY <3>3, <3>4
  <2>2. CASE ~\E q \in KnownBy(H, k) : q.event = p.event
    <3>1. p = r
      BY <1>2, <2>2
    <3>2. ASSUME NEW s \in KnownBy(I, k), s.event = p.event PROVE s.known <= p.known
      <4>1. s = p
        BY <1>2, <2>2, <3>1, <3>2
      <4> QED BY <1>3, <4>1
    <3> QED BY <3>2
  <2> QED BY <2>1, <2>2
<1> HIDE DEF I
<1>6. LastExists(I, k)
  BY <1>5 DEF LastExists
<1> QED
  BY <1>6 DEF I

LEMMA Later ==
    ASSUME NEW f \in Int, NEW k \in Nat
    PROVE  Max({f, k}) \in Int /\ f <= Max({f, k}) /\ k <= Max({f, k})
BY DEF Max

LEMMA HistoryInit == Init => HistoryInv
<1> SUFFICES ASSUME Init PROVE HistoryInv
  OBVIOUS
<1>1. history = {} /\ frontier = -1
  BY DEF Init
<1>2. IsFiniteSet(history)
  BY <1>1, FS_EmptySet
<1>3. \A k \in Knowledge : LastExists(history, k)
  BY <1>1 DEF LastExists, KnownBy
<1> QED
  BY <1>1, <1>2, <1>3 DEF HistoryInv

(* Only an arrival changes the history; only a computation the frontier.   *)
LEMMA HistoryStep ==
    ASSUME HistoryInv, [Next]_vars
    PROVE  HistoryInv'
<1>1. ASSUME NEW r \in Offered, Ingest(r) PROVE HistoryInv'
  <2>1. history' = history \cup {r} /\ frontier' = frontier
    BY <1>1 DEF Ingest
  <2>2. IsFiniteSet(history')
    BY <2>1, FS_AddElement DEF HistoryInv
  <2>3. \A k \in Knowledge : LastExists(history', k)
    BY <2>1, LastGrows DEF HistoryInv
  <2> QED BY <2>1, <2>2, <2>3 DEF HistoryInv
<1>2. ASSUME NEW k \in Nat, UNCHANGED history, frontier' = Max({frontier, k})
      PROVE  HistoryInv'
  BY <1>2, Later DEF HistoryInv
<1>3. ASSUME UNCHANGED <<history, frontier>> PROVE HistoryInv'
  BY <1>3 DEF HistoryInv
<1>4. ASSUME NEW w \in Writers, NEW g \in Gens, NEW k \in Knowledge,
             StartFull(w, g, k) \/ \E b \in Gens : StartIncremental(w, g, k, b)
      PROVE  HistoryInv'
  <2>1. UNCHANGED history /\ frontier' = Max({frontier, k})
    BY <1>4 DEF StartFull, StartIncremental, Start
  <2> QED BY <1>2, <2>1, CutoffsAreEpochs
<1>5. ASSUME NEW w \in Writers,
             \/ Inspect(w) \/ OpenStaging(w) \/ EmptyHeld(w) \/ RemoveStaging(w)
             \/ MakeDir(w) \/ WriteRows(w) \/ WriteManifest(w) \/ WriteMarker(w)
             \/ Rename(w) \/ Quit(w)
      PROVE  UNCHANGED <<history, frontier>>
  BY <1>5 DEF Inspect, OpenStaging, EmptyHeld, RemoveStaging, MakeDir, WriteRows,
     WriteManifest, WriteMarker, WriteFile, Rename, Quit
<1>6. ASSUME NEW a \in AsOf, BuildDataset(a) PROVE HistoryInv'
  <2>1. UNCHANGED history /\ frontier' = Max({frontier, a})
    BY <1>6 DEF BuildDataset
  <2> QED BY <1>2, <2>1, CutoffsAreEpochs
<1>7. CASE UNCHANGED vars
  BY <1>3, <1>7 DEF vars
<1> QED
  BY <1>1, <1>3, <1>4, <1>5, <1>6, <1>7 DEF Next

LEMMA HistoryHolds == Spec => []HistoryInv
<1>1. Init => HistoryInv
  BY HistoryInit
<1>2. HistoryInv /\ [Next]_vars => HistoryInv'
  BY HistoryStep
<1> QED
  BY <1>1, <1>2, PTL DEF Spec

(* For every source history, definitions, cutoffs and order of arrival,    *)
(* late claims included: Spark's rows and the projector's are the shared   *)
(* library's (spark_runtime._computed_rows, expected.project_feature_rows, *)
(* computation.materialize).                                               *)
THEOREM PathsAgree == Spec => []ImplementationsAgree
<1>1. HistoryInv => ImplementationsAgree
  BY ComputedIsMaterialize, ExpectedIsMaterialize
  DEF HistoryInv, ImplementationsAgree
<1> QED
  BY <1>1, HistoryHolds, PTL

----------------------------------------------------------------------------
(* What on-time arrivals leave alone.                                      *)

(* From H and f to I and h nothing becomes known up to f.                  *)
Grown(H, f, I, h) ==
    /\ f \in Int /\ h \in Int /\ f <= h
    /\ \A k \in Nat : k <= f => KnownBy(I, k) = KnownBy(H, k)

LEMMA StepGrows ==
    ASSUME HistoryInv, [Next]_vars, ~Backdated
    PROVE  Grown(history, frontier, history', frontier')
<1>1. frontier \in Int /\ history \subseteq Offered
  BY DEF HistoryInv
<1>2. ASSUME NEW r \in Offered, Ingest(r)
      PROVE  Grown(history, frontier, history', frontier')
  <2>1. history' = history \cup {r} /\ frontier' = frontier /\ r.known > frontier
    BY <1>2 DEF Ingest
  <2>2. r.known \in Nat
    BY CutoffsAreEpochs
  <2>3. ASSUME NEW k \in Nat, k <= frontier
        PROVE  KnownBy(history', k) = KnownBy(history, k)
    <3>1. ~(r.known <= k)
      BY <1>1, <2>1, <2>2, <2>3
    <3> QED BY <2>1, <3>1 DEF KnownBy
  <2> QED BY <1>1, <2>1, <2>3 DEF Grown
<1>3. ASSUME NEW k \in Nat, UNCHANGED history, frontier' = Max({frontier, k})
      PROVE  Grown(history, frontier, history', frontier')
  BY <1>1, <1>3, Later DEF Grown
<1>4. ASSUME UNCHANGED <<history, frontier>>
      PROVE  Grown(history, frontier, history', frontier')
  BY <1>1, <1>4 DEF Grown
<1>5. ASSUME NEW w \in Writers, NEW g \in Gens, NEW k \in Knowledge,
             StartFull(w, g, k) \/ \E b \in Gens : StartIncremental(w, g, k, b)
      PROVE  Grown(history, frontier, history', frontier')
  <2>1. UNCHANGED history /\ frontier' = Max({frontier, k})
    BY <1>5 DEF StartFull, StartIncremental, Start
  <2> QED BY <1>3, <2>1, CutoffsAreEpochs
<1>6. ASSUME NEW w \in Writers,
             \/ Inspect(w) \/ OpenStaging(w) \/ EmptyHeld(w) \/ RemoveStaging(w)
             \/ MakeDir(w) \/ WriteRows(w) \/ WriteManifest(w) \/ WriteMarker(w)
             \/ Rename(w) \/ Quit(w)
      PROVE  UNCHANGED <<history, frontier>>
  BY <1>6 DEF Inspect, OpenStaging, EmptyHeld, RemoveStaging, MakeDir, WriteRows,
     WriteManifest, WriteMarker, WriteFile, Rename, Quit
<1>7. ASSUME NEW a \in AsOf, BuildDataset(a)
      PROVE  Grown(history, frontier, history', frontier')
  <2>1. UNCHANGED history /\ frontier' = Max({frontier, a})
    BY <1>7 DEF BuildDataset
  <2> QED BY <1>3, <2>1, CutoffsAreEpochs
<1>8. CASE UNCHANGED vars
  BY <1>4, <1>8 DEF vars
<1> QED
  BY <1>2, <1>4, <1>5, <1>6, <1>7, <1>8 DEF Next

LEMMA HonestKept ==
    ASSUME NEW H, NEW f, NEW I, NEW h, Grown(H, f, I, h), NEW b, Honest(H, f, b)
    PROVE  Honest(I, h, b)
<1>1. b.known \in Nat /\ b.known <= f /\ f \in Int /\ h \in Int /\ f <= h
  BY CutoffsAreEpochs DEF Grown, Honest
<1>2. b.known <= h
  BY <1>1
<1>3. KnownBy(I, b.known) = KnownBy(H, b.known)
  BY <1>1 DEF Grown
<1> QED
  BY <1>2, <1>3 DEF Honest

LEMMA DirectoriesKept ==
    ASSUME NEW H, NEW f, NEW I, NEW h, Grown(H, f, I, h), NEW dirs, Directories(H, f, dirs)
    PROVE  Directories(I, h, dirs)
BY HonestKept DEF Directories, Sane

(* A dataset's labels never look beyond its own cutoff.                    *)
LEMMA DatasetRowsKept ==
    ASSUME NEW H, NEW f, NEW I, NEW h, Grown(H, f, I, h), NEW a \in AsOf, a <= f
    PROVE  DatasetRows(I, a) = DatasetRows(H, a)
<1>1. ASSUME NEW l \in Labels
      PROVE  Materialize(I, {l.customer}, l.time, EffectiveCutoff(l, a))
             = Materialize(H, {l.customer}, l.time, EffectiveCutoff(l, a))
  <2>1. l.prediction \in Nat /\ a \in Nat /\ f \in Int
    BY CutoffsAreEpochs DEF Grown
  <2>2. EffectiveCutoff(l, a) \in Nat /\ EffectiveCutoff(l, a) <= a
    BY <2>1 DEF EffectiveCutoff, Min
  <2>3. EffectiveCutoff(l, a) <= f
    BY <2>1, <2>2
  <2>4. KnownBy(I, EffectiveCutoff(l, a)) = KnownBy(H, EffectiveCutoff(l, a))
    BY <2>2, <2>3 DEF Grown
  <2> QED BY <2>4, SameKnowledgeSameRows
<1> QED
  BY <1>1 DEF DatasetRows

LEMMA DatasetKept ==
    ASSUME HistoryInv, DatasetInv, Grown(history, frontier, history', frontier'),
           UNCHANGED dataset
    PROVE  DatasetInv'
<1>1. ASSUME NEW a \in AsOf, dataset'[a] # Nil
      PROVE  a <= frontier' /\ dataset'[a] = DatasetRows(history', a)
  <2>1. a <= frontier /\ dataset[a] = DatasetRows(history, a)
    BY <1>1 DEF DatasetInv
  <2>2. a <= frontier'
    BY <2>1, CutoffsAreEpochs DEF Grown
  <2>3. DatasetRows(history', a) = DatasetRows(history, a)
    BY <2>1, DatasetRowsKept
  <2> QED BY <2>1, <2>2, <2>3
<1>2. dataset' = [a \in AsOf |-> dataset'[a]]
  BY DEF DatasetInv
<1> QED
  BY <1>1, <1>2 DEF DatasetInv

----------------------------------------------------------------------------
(* Two ways to build a generation.                                         *)

LEMMA FullIsHonest ==
    ASSUME HistoryInv, Normal(history), NEW g \in Gens, NEW k \in Knowledge,
           NEW f \in Int, k <= f
    PROVE  Honest(history, f, FullBuild(g, k))
<1>1. ComputedRows(history, Customers, Cutoff, k)
      = Materialize(history, Customers, Cutoff, k)
  BY ComputedIsMaterialize DEF HistoryInv
<1> QED
  BY <1>1 DEF Honest, FullBuild

LEMMA IncrementalIsHonest ==
    ASSUME HistoryInv, Normal(history), NEW g \in Gens, NEW k \in Knowledge,
           NEW f \in Int, k <= f, NEW base, Honest(history, frontier, base)
    PROVE  Honest(history, f, IncrementalBuild(g, k, base))
<1> DEFINE affected == AffectedPairs(history, base.known, k)
           rows == CarriedRows(history, base.rows, affected, k)
           b == [gen |-> g, known |-> k, source |-> history, base |-> base.gen,
                 rows |-> rows]
<1>1. base.rows = Materialize(history, Customers, Cutoff, base.known)
  BY SameKnowledgeSameRows DEF Honest
<1>2. rows = Materialize(history, Customers, Cutoff, k)
  <2>1. history \in SUBSET Offered /\ IsFiniteSet(history)
    BY DEF HistoryInv
  <2> QED BY <1>1, <2>1, CarriedOver
<1>3. IncrementalBuild(g, k, base) = IF TooWide(history, affected) THEN FullBuild(g, k) ELSE b
  BY DEF IncrementalBuild, CarriedRows
<1> HIDE DEF rows, affected
<1>4. Honest(history, f, b)
  BY <1>2 DEF Honest
<1> HIDE DEF b
<1> QED
  BY <1>3, <1>4, FullIsHonest

(* What a reader accepts is the manifest.                                  *)
LEMMA LoadedIsManifest ==
    ASSUME NEW H, NEW f, NEW dir, Sane(H, f, dir), Readable(dir)
    PROVE  Loaded(dir) = dir.manifest /\ Honest(H, f, dir.manifest)
<1> DEFINE m == dir.manifest
<1>1. Honest(H, f, m)
  BY DEF Sane, Readable
<1>2. dir.rows.values = m.rows
  BY DEF Readable, Rows
<1>3. m = [gen |-> m.gen, known |-> m.known, source |-> m.source,
           base |-> m.base, rows |-> m.rows]
  BY <1>1 DEF Honest
<1> HIDE DEF m
<1>4. [m EXCEPT !.rows = m.rows] = m
  BY <1>3
<1> QED
  BY <1>1, <1>2, <1>4 DEF Loaded, m

----------------------------------------------------------------------------
(* Writers and the directories they share.                                 *)

(* A writer takes a step of the build it holds, or gives it up.            *)
Moves ==
    /\ writer' = [v \in Writers |-> [step |-> writer'[v].step, build |-> writer'[v].build,
                                     held |-> writer'[v].held]]
    /\ \A v \in Writers :
           ~At(v, "idle")' => ~At(v, "idle") /\ writer'[v].build = writer[v].build

LEMMA MovesKeep ==
    ASSUME WriterInv, Grown(history, frontier, history', frontier'), Moves
    PROVE  WriterInv'
<1>1. ASSUME NEW v \in Writers, ~At(v, "idle")'
      PROVE  Honest(history', frontier', writer'[v].build)
  BY <1>1, HonestKept DEF Moves, WriterInv
<1> QED
  BY <1>1 DEF Moves, WriterInv

(* The steps of one writer, and of those that held what it moved.          *)
LEMMA RowMoves ==
    ASSUME WriterInv, NEW w \in Writers, ~At(w, "idle"), NEW s, NEW h,
           \/ writer' = [writer EXCEPT ![w].step = s]
           \/ writer' = [writer EXCEPT ![w].step = s, ![w].held = h]
    PROVE  Moves
<1>1. ASSUME NEW v \in Writers
      PROVE  writer'[v] = [step |-> writer'[v].step, build |-> writer[v].build,
                           held |-> writer'[v].held]
  BY DEF WriterInv
<1>2. ASSUME NEW v \in Writers, v # w PROVE writer'[v] = writer[v]
  BY <1>2 DEF WriterInv
<1>3. DOMAIN writer' = Writers /\ writer' = [v \in Writers |-> writer'[v]]
  BY DEF WriterInv
<1>4. ASSUME NEW v \in Writers, ~At(v, "idle")' PROVE ~At(v, "idle")
  BY <1>2, <1>4 DEF At
<1>5. ASSUME NEW v \in Writers
      PROVE  /\ writer'[v].build = writer[v].build
             /\ writer'[v] = [step |-> writer'[v].step, build |-> writer'[v].build,
                              held |-> writer'[v].held]
  <2>1. PICK b, x : /\ b = writer[v].build
                    /\ x = [step |-> writer'[v].step, build |-> b,
                            held |-> writer'[v].held]
    OBVIOUS
  <2>2. x.build = b
    BY <2>1
  <2>3. writer'[v] = x
    BY <1>1, <2>1, Zenon
  <2>4. writer'[v].build = writer[v].build
    BY <2>1, <2>2, <2>3, Zenon
  <2> QED BY <1>1, <2>4, Zenon
<1> QED
  BY <1>3, <1>4, <1>5 DEF Moves

LEMMA HeldMoves ==
    ASSUME WriterInv, NEW w \in Writers, ~At(w, "idle"), NEW s, NEW g, NEW place,
           writer' = [HeldAfter(g, place) EXCEPT ![w].step = s]
    PROVE  Moves
<1> DEFINE W == HeldAfter(g, place)
<1>1. ASSUME NEW v \in Writers
      PROVE  /\ W[v].step = writer[v].step /\ W[v].build = writer[v].build
             /\ W[v] = [step |-> W[v].step, build |-> W[v].build, held |-> W[v].held]
  <2>1. writer[v] = [step |-> writer[v].step, build |-> writer[v].build,
                     held |-> writer[v].held]
    BY DEF WriterInv
  <2>2. W[v] = IF writer[v].held = "staging" /\ Gen(v) = g
               THEN [writer[v] EXCEPT !.held = place] ELSE writer[v]
    BY DEF HeldAfter
  <2> QED BY <2>1, <2>2
<1>2. W = [v \in Writers |-> W[v]]
  BY DEF HeldAfter
<1> HIDE DEF W
<1>3. writer' = [W EXCEPT ![w].step = s]
  BY DEF W
<1>4. ASSUME NEW v \in Writers
      PROVE  /\ writer'[v] = [step |-> writer'[v].step, build |-> writer'[v].build,
                              held |-> writer'[v].held]
             /\ writer'[v].build = writer[v].build
             /\ v # w => writer'[v].step = writer[v].step
  BY <1>1, <1>2, <1>3
<1>5. writer' = [v \in Writers |-> writer'[v]]
  BY <1>2, <1>3
<1>6. ASSUME NEW v \in Writers, ~At(v, "idle")' PROVE ~At(v, "idle")
  BY <1>4, <1>6 DEF At
<1> QED
  BY <1>4, <1>5, <1>6 DEF Moves

LEMMA QuitMoves ==
    ASSUME WriterInv, NEW w \in Writers, Quit(w)
    PROVE  Moves
<1>1. writer' = [writer EXCEPT ![w] = [step |-> "idle", build |-> Nil, held |-> "nothing"]]
  BY DEF Quit, Idle
<1>2. At(w, "idle")'
  BY <1>1 DEF WriterInv, At
<1>3. ASSUME NEW v \in Writers, v # w PROVE writer'[v] = writer[v]
  BY <1>1, <1>3 DEF WriterInv
<1>4. ASSUME NEW v \in Writers
      PROVE  writer'[v] = [step |-> writer'[v].step, build |-> writer'[v].build,
                           held |-> writer'[v].held]
  BY <1>1 DEF WriterInv
<1>5. writer' = [v \in Writers |-> writer'[v]]
  BY <1>1 DEF WriterInv
<1>6. ASSUME NEW v \in Writers, ~At(v, "idle")'
      PROVE  ~At(v, "idle") /\ writer'[v].build = writer[v].build
  BY <1>2, <1>3, <1>6 DEF At
<1> QED
  BY <1>4, <1>5, <1>6 DEF Moves

(* Edits of a table of directories.                                        *)
LEMMA DirectoryEdit ==
    ASSUME NEW H, NEW f, NEW dirs, Directories(H, f, dirs), NEW g, NEW x, Sane(H, f, x)
    PROVE  Directories(H, f, [dirs EXCEPT ![g] = x])
BY DEF Directories

LEMMA EmptyIsSane ==
    ASSUME NEW H, NEW f
    PROVE  Sane(H, f, Nil) /\ Sane(H, f, EmptyDir)
BY DEF Sane, EmptyDir

(* One file is put among the others.                                       *)
LEMMA FileIsSane ==
    ASSUME NEW H, NEW f, NEW dir, dir # Nil, Sane(H, f, dir), NEW content
    PROVE  /\ Sane(H, f, [dir EXCEPT !["rows"] = content])
           /\ Sane(H, f, [dir EXCEPT !["complete"] = content])
           /\ Honest(H, f, content) => Sane(H, f, [dir EXCEPT !["manifest"] = content])
<1> DEFINE r == dir.rows
           m == dir.manifest
           c == dir.complete
<1>1. dir = [rows |-> r, manifest |-> m, complete |-> c] /\ (m # Nil => Honest(H, f, m))
  BY DEF Sane
<1> HIDE DEF r, m, c
<1>2. [dir EXCEPT !["rows"] = content] = [rows |-> content, manifest |-> m, complete |-> c]
  BY <1>1
<1>3. [dir EXCEPT !["complete"] = content] = [rows |-> r, manifest |-> m, complete |-> content]
  BY <1>1
<1>4. [dir EXCEPT !["manifest"] = content] = [rows |-> r, manifest |-> content, complete |-> c]
  BY <1>1
<1>5. ASSUME NEW x, NEW y, NEW z, y # Nil => Honest(H, f, y)
      PROVE  Sane(H, f, [rows |-> x, manifest |-> y, complete |-> z])
  BY <1>5 DEF Sane
<1> QED
  BY <1>1, <1>2, <1>3, <1>4, <1>5

----------------------------------------------------------------------------
(* The invariant, when revisions arrive on time.                           *)

LEMMA InitInv == Init => IInv
<1> SUFFICES ASSUME Init PROVE IInv
  OBVIOUS
<1>1. HistoryInv
  BY HistoryInit
<1>2. WriterInv
  BY DEF Init, WriterInv, Idle, At
<1>3. DirectoryInv
  BY DEF Init, DirectoryInv, Directories, Sane
<1>4. DatasetInv
  BY DEF Init, DatasetInv
<1> QED
  BY <1>1, <1>2, <1>3, <1>4 DEF IInv

LEMMA BegunRow ==
    ASSUME NEW build
    PROVE  [Idle EXCEPT !.step = "inspect", !.build = build]
           = [step |-> "inspect", build |-> build, held |-> "nothing"]
<1>1. PICK x : x = [Idle EXCEPT !.step = "inspect", !.build = build]
  OBVIOUS
<1>2. x = [step |-> x.step, build |-> x.build, held |-> x.held]
  BY <1>1 DEF Idle
<1>3. x.step = "inspect" /\ x.build = build /\ x.held = "nothing"
  BY <1>1 DEF Idle
<1> QED
  BY <1>1, <1>2, <1>3, Zenon

(* What a build that begins holds is honest.                               *)
LEMMA StartsHonest ==
    ASSUME IInv, ~Backdated, NEW w \in Writers, NEW g \in Gens, NEW k \in Knowledge,
           StartFull(w, g, k) \/ \E b \in Gens : StartIncremental(w, g, k, b)
    PROVE  /\ WriterInv'
           /\ UNCHANGED <<history, dataset, disk, staging>>
<1>1. frontier \in Int /\ k \in Nat /\ HistoryInv
  BY CutoffsAreEpochs DEF IInv, HistoryInv
<1>2. Max({frontier, k}) \in Int /\ k <= Max({frontier, k})
  BY <1>1, Later
<1>3. PICK f \in Int : f = Max({frontier, k}) /\ k <= f
  BY <1>2
<1>4. PICK build : Start(w, build, k) /\ Honest(history, f, build)
  <2>1. CASE StartFull(w, g, k)
    <3>1. Start(w, FullBuild(g, k), k) /\ Normal(history)
      BY <2>1 DEF StartFull, Start
    <3>2. Honest(history, f, FullBuild(g, k))
      BY <1>1, <1>3, <3>1, FullIsHonest
    <3> QED BY <3>1, <3>2
  <2>2. ASSUME NEW b \in Gens, StartIncremental(w, g, k, b)
        PROVE  \E build : Start(w, build, k) /\ Honest(history, f, build)
    <3> DEFINE base == Loaded(disk[b])
    <3>1. Readable(disk[b]) /\ Start(w, IncrementalBuild(g, k, base), k) /\ Normal(history)
      BY <2>2 DEF StartIncremental, Start
    <3>2. Honest(history, frontier, base)
      BY <3>1, LoadedIsManifest DEF IInv, DirectoryInv, Directories
    <3> HIDE DEF base
    <3>3. Honest(history, f, IncrementalBuild(g, k, base))
      BY <1>1, <1>3, <3>1, <3>2, IncrementalIsHonest
    <3> QED BY <3>1, <3>3
  <2> QED BY <2>1, <2>2
<1>5. /\ frontier' = f
      /\ UNCHANGED <<history, dataset, disk, staging>>
      /\ writer' = [writer EXCEPT ![w] = [step |-> "inspect", build |-> build,
                                          held |-> "nothing"]]
  <2>1. [Idle EXCEPT !.step = "inspect", !.build = build]
        = [step |-> "inspect", build |-> build, held |-> "nothing"]
    BY BegunRow
  <2>2. writer' = [writer EXCEPT ![w] = [Idle EXCEPT !.step = "inspect", !.build = build]]
    BY <1>4 DEF Start
  <2> QED BY <1>3, <1>4, <2>1, <2>2 DEF Start
<1>6. Grown(history, frontier, history', frontier')
  BY <1>1, <1>3, <1>5, Later DEF Grown
<1>7. WriterInv
  BY DEF IInv
<1>8. ASSUME NEW v \in Writers, ~At(v, "idle")'
      PROVE  Honest(history', frontier', writer'[v].build)
  <2>1. CASE v = w
    <3>1. writer'[v].build = build
      BY <1>5, <1>7, <2>1 DEF WriterInv
    <3> QED BY <1>4, <1>5, <3>1
  <2>2. CASE v # w
    <3>1. writer'[v] = writer[v]
      BY <1>5, <1>7, <2>2 DEF WriterInv
    <3>2. Honest(history, frontier, writer[v].build)
      BY <1>7, <1>8, <3>1 DEF At, WriterInv
    <3> QED BY <1>6, <3>1, <3>2, HonestKept
  <2> QED BY <2>1, <2>2
<1>9. ASSUME NEW v \in Writers
      PROVE  writer'[v] = [step |-> writer'[v].step, build |-> writer'[v].build,
                           held |-> writer'[v].held]
  BY <1>5, <1>7 DEF WriterInv
<1>10. writer' = [v \in Writers |-> writer'[v]]
  BY <1>5, <1>7 DEF WriterInv
<1>11. WriterInv'
  BY <1>8, <1>9, <1>10 DEF WriterInv
<1> QED
  BY <1>5, <1>11

(* Each step of a writer moves it on, and leaves directories whose         *)
(* manifests are honest.                                                   *)
WriterStep(w) ==
    /\ Moves
    /\ Directories(history, frontier, disk') /\ Directories(history, frontier, staging')

LEMMA GotoStep ==
    ASSUME IInv, NEW w \in Writers, ~At(w, "idle"), NEW s, Goto(w, s),
           UNCHANGED <<disk, staging>>
    PROVE  WriterStep(w)
<1>1. Moves
  BY RowMoves DEF Goto, IInv
<1> QED
  BY <1>1 DEF WriterStep, IInv, DirectoryInv

LEMMA InspectStep ==
    ASSUME IInv, NEW w \in Writers, Inspect(w)
    PROVE  WriterStep(w)
<1>1. /\ ~At(w, "idle") /\ UNCHANGED <<disk, staging>>
      /\ Goto(w, CASE disk[Gen(w)] = Nil -> "clear"
                   [] Readable(disk[Gen(w)]) /\ disk[Gen(w)].manifest = writer[w].build ->
                         "replayed"
                   [] OTHER -> "failed")
  BY DEF Inspect, At
<1> QED
  BY <1>1, GotoStep

LEMMA OpenStagingStep ==
    ASSUME IInv, NEW w \in Writers, OpenStaging(w)
    PROVE  WriterStep(w)
<1>1. ~At(w, "idle") /\ UNCHANGED <<disk, staging>>
  BY DEF OpenStaging, At
<1>2. CASE Goto(w, "mkdir")
  BY <1>1, <1>2, GotoStep
<1>3. CASE writer' = [writer EXCEPT ![w].step = "empty", ![w].held = "staging"]
  <2>1. Moves
    BY <1>1, <1>3, RowMoves DEF IInv
  <2> QED BY <1>1, <2>1 DEF WriterStep, IInv, DirectoryInv
<1> QED
  BY <1>2, <1>3 DEF OpenStaging

LEMMA EmptyHeldStep ==
    ASSUME IInv, NEW w \in Writers, EmptyHeld(w)
    PROVE  WriterStep(w)
<1>1. ~At(w, "idle")
  BY DEF EmptyHeld, At
<1>2. Moves
  BY <1>1, RowMoves DEF EmptyHeld, IInv
<1>3. /\ disk' \in {disk, [disk EXCEPT ![Gen(w)] = EmptyDir]}
      /\ staging' \in {staging, [staging EXCEPT ![Gen(w)] = EmptyDir]}
  BY DEF EmptyHeld
<1>4. Directories(history, frontier, disk) /\ Directories(history, frontier, staging)
  BY DEF IInv, DirectoryInv
<1>5. /\ Directories(history, frontier, [disk EXCEPT ![Gen(w)] = EmptyDir])
      /\ Directories(history, frontier, [staging EXCEPT ![Gen(w)] = EmptyDir])
  BY <1>4, DirectoryEdit, EmptyIsSane
<1> QED
  BY <1>2, <1>3, <1>4, <1>5 DEF WriterStep

LEMMA RemoveStagingStep ==
    ASSUME IInv, NEW w \in Writers, RemoveStaging(w)
    PROVE  WriterStep(w)
<1>1. ~At(w, "idle") /\ UNCHANGED disk
  BY DEF RemoveStaging, At
<1>2. CASE Goto(w, "failed") /\ UNCHANGED staging
  BY <1>1, <1>2, GotoStep
<1>3. CASE /\ staging' = [staging EXCEPT ![Gen(w)] = Nil]
           /\ writer' = [HeldAfter(Gen(w), "nowhere") EXCEPT ![w].step = "mkdir"]
  <2>1. Moves
    BY <1>1, <1>3, HeldMoves DEF IInv
  <2>2. Directories(history, frontier, staging')
    BY <1>3, DirectoryEdit, EmptyIsSane DEF IInv, DirectoryInv
  <2> QED BY <1>1, <2>1, <2>2 DEF WriterStep, IInv, DirectoryInv
<1> QED
  BY <1>2, <1>3 DEF RemoveStaging

LEMMA MakeDirStep ==
    ASSUME IInv, NEW w \in Writers, MakeDir(w)
    PROVE  WriterStep(w)
<1>1. ~At(w, "idle") /\ UNCHANGED disk
  BY DEF MakeDir, At
<1>2. CASE Goto(w, "failed") /\ UNCHANGED staging
  BY <1>1, <1>2, GotoStep
<1>3. CASE staging' = [staging EXCEPT ![Gen(w)] = EmptyDir] /\ Goto(w, "rows")
  <2>1. Moves
    BY <1>1, <1>3, RowMoves DEF IInv, Goto
  <2>2. Directories(history, frontier, staging')
    BY <1>3, DirectoryEdit, EmptyIsSane DEF IInv, DirectoryInv
  <2> QED BY <1>1, <2>1, <2>2 DEF WriterStep, IInv, DirectoryInv
<1> QED
  BY <1>2, <1>3 DEF MakeDir

LEMMA WriteFileStep ==
    ASSUME IInv, NEW w \in Writers, ~At(w, "idle"), NEW step, NEW next, NEW content,
           NEW file \in {"rows", "manifest", "complete"},
           file = "manifest" => Honest(history, frontier, content),
           WriteFile(w, step, file, content, next)
    PROVE  WriterStep(w)
<1>1. UNCHANGED disk
  BY DEF WriteFile
<1>2. CASE Goto(w, "failed") /\ UNCHANGED staging
  BY <1>1, <1>2, GotoStep
<1>3. CASE /\ staging[Gen(w)] # Nil
           /\ staging' = [staging EXCEPT ![Gen(w)][file] = content] /\ Goto(w, next)
  <2>1. Moves
    BY <1>3, RowMoves DEF IInv, Goto
  <2>2. Directories(history, frontier, staging)
    BY DEF IInv, DirectoryInv
  <2>3. Gen(w) \in Gens
    BY DEF IInv, WriterInv, Honest, Gen
  <2>4. PICK dir : dir = staging[Gen(w)]
    OBVIOUS
  <2>5. Sane(history, frontier, dir) /\ dir # Nil
    BY <1>3, <2>2, <2>3, <2>4 DEF Directories
  <2>6. Sane(history, frontier, [dir EXCEPT ![file] = content])
    BY <2>5, FileIsSane
  <2>7. staging' = [staging EXCEPT ![Gen(w)] = [dir EXCEPT ![file] = content]]
    BY <1>3, <2>4
  <2>8. Directories(history, frontier, staging')
    BY <2>2, <2>6, <2>7, DirectoryEdit
  <2> QED BY <1>1, <2>1, <2>8 DEF WriterStep, IInv, DirectoryInv
<1> QED
  BY <1>2, <1>3 DEF WriteFile

LEMMA WriteStep ==
    ASSUME IInv, NEW w \in Writers, WriteRows(w) \/ WriteManifest(w) \/ WriteMarker(w)
    PROVE  WriterStep(w)
<1>1. ~At(w, "idle")
  BY DEF WriteRows, WriteManifest, WriteMarker, WriteFile, At
<1>2. Honest(history, frontier, writer[w].build)
  BY <1>1 DEF IInv, WriterInv
<1> QED
  BY <1>1, <1>2, WriteFileStep DEF WriteRows, WriteManifest, WriteMarker

LEMMA RenameStep ==
    ASSUME IInv, NEW w \in Writers, Rename(w)
    PROVE  WriterStep(w)
<1>1. ~At(w, "idle")
  BY DEF Rename, At
<1>2. CASE Goto(w, "failed") /\ UNCHANGED <<disk, staging>>
  BY <1>1, <1>2, GotoStep
<1>3. CASE /\ disk' = [disk EXCEPT ![Gen(w)] = staging[Gen(w)]]
           /\ staging' = [staging EXCEPT ![Gen(w)] = Nil]
           /\ writer' = [HeldAfter(Gen(w), "final") EXCEPT ![w].step = "written"]
  <2>1. Moves
    BY <1>1, <1>3, HeldMoves DEF IInv
  <2>2. Directories(history, frontier, disk) /\ Directories(history, frontier, staging)
    BY DEF IInv, DirectoryInv
  <2>3. Gen(w) \in Gens
    BY <1>1 DEF IInv, WriterInv, Honest, Gen
  <2>4. Sane(history, frontier, staging[Gen(w)])
    BY <2>2, <2>3 DEF Directories
  <2>5. Directories(history, frontier, disk') /\ Directories(history, frontier, staging')
    BY <1>3, <2>2, <2>4, DirectoryEdit, EmptyIsSane
  <2> QED BY <2>1, <2>5 DEF WriterStep
<1> QED
  BY <1>2, <1>3 DEF Rename

LEMMA NextKeeps ==
    ASSUME IInv, [Next]_vars, ~Backdated
    PROVE  IInv'
<1>1. HistoryInv'
  BY HistoryStep DEF IInv
<1>2. Grown(history, frontier, history', frontier')
  BY StepGrows DEF IInv
<1>3. ASSUME UNCHANGED <<disk, staging>> PROVE DirectoryInv'
  BY <1>2, <1>3, DirectoriesKept DEF IInv, DirectoryInv
<1>4. ASSUME UNCHANGED dataset PROVE DatasetInv'
  BY <1>2, <1>4, DatasetKept DEF IInv
<1>5. ASSUME UNCHANGED writer PROVE WriterInv'
  <2>1. Moves
    BY <1>5 DEF IInv, WriterInv, Moves, At
  <2> QED BY <1>2, <2>1, MovesKeep DEF IInv
<1>6. ASSUME UNCHANGED <<writer, disk, staging, dataset>> PROVE IInv'
  BY <1>1, <1>3, <1>4, <1>5, <1>6 DEF IInv
<1>7. ASSUME NEW r \in Offered, Ingest(r) PROVE IInv'
  BY <1>6, <1>7 DEF Ingest
<1>8. ASSUME NEW w \in Writers, NEW g \in Gens, NEW k \in Knowledge,
             StartFull(w, g, k) \/ \E b \in Gens : StartIncremental(w, g, k, b)
      PROVE  IInv'
  <2>1. WriterInv' /\ UNCHANGED <<history, dataset, disk, staging>>
    BY <1>8, StartsHonest
  <2> QED BY <1>1, <1>3, <1>4, <2>1 DEF IInv
<1>9. ASSUME NEW w \in Writers, WriterStep(w), UNCHANGED <<history, frontier, dataset>>
      PROVE  IInv'
  <2>1. WriterInv'
    BY <1>2, <1>9, MovesKeep DEF IInv, WriterStep
  <2>2. DirectoryInv'
    BY <1>9 DEF WriterStep, DirectoryInv
  <2> QED BY <1>1, <1>4, <1>9, <2>1, <2>2 DEF IInv
<1>10. ASSUME NEW w \in Writers,
              \/ Inspect(w) \/ OpenStaging(w) \/ EmptyHeld(w) \/ RemoveStaging(w)
              \/ MakeDir(w) \/ WriteRows(w) \/ WriteManifest(w) \/ WriteMarker(w)
              \/ Rename(w)
       PROVE  IInv'
  <2>1. UNCHANGED <<history, frontier, dataset>>
    BY <1>10 DEF Inspect, OpenStaging, EmptyHeld, RemoveStaging, MakeDir, WriteRows,
       WriteManifest, WriteMarker, WriteFile, Rename
  <2>2. WriterStep(w)
    BY <1>10, InspectStep, OpenStagingStep, EmptyHeldStep, RemoveStagingStep,
       MakeDirStep, WriteStep, RenameStep
  <2> QED BY <1>9, <2>1, <2>2
<1>11. ASSUME NEW w \in Writers, Quit(w) PROVE IInv'
  <2>1. Moves
    BY <1>11, QuitMoves DEF IInv
  <2>2. WriterInv'
    BY <1>2, <2>1, MovesKeep DEF IInv
  <2> QED BY <1>1, <1>3, <1>4, <1>11, <2>2 DEF IInv, Quit
<1>12. ASSUME NEW a \in AsOf, BuildDataset(a) PROVE IInv'
  <2>1. /\ dataset' = [dataset EXCEPT ![a] = DatasetRows(history, a)]
        /\ frontier' = Max({frontier, a}) /\ UNCHANGED <<history, disk, staging, writer>>
    BY <1>12 DEF BuildDataset
  <2>2. frontier \in Int /\ a \in Nat /\ a <= frontier' /\ frontier <= frontier'
    BY <2>1, Later, CutoffsAreEpochs DEF IInv, HistoryInv
  <2>3. dataset' = [b \in AsOf |-> dataset'[b]]
    BY <2>1 DEF IInv, DatasetInv
  <2>4. ASSUME NEW b \in AsOf, dataset'[b] # Nil
        PROVE  b <= frontier' /\ dataset'[b] = DatasetRows(history', b)
    <3>1. CASE b = a
      BY <2>1, <2>2, <3>1 DEF IInv, DatasetInv
    <3>2. CASE b # a
      <4>1. dataset'[b] = dataset[b]
        BY <2>1, <3>2 DEF IInv, DatasetInv
      <4>2. b <= frontier /\ dataset[b] = DatasetRows(history, b)
        BY <2>4, <4>1 DEF IInv, DatasetInv
      <4>3. b \in Nat /\ frontier' \in Int
        BY <1>2, CutoffsAreEpochs DEF Grown
      <4> QED BY <2>1, <2>2, <4>1, <4>2, <4>3
    <3> QED BY <3>1, <3>2
  <2>5. DatasetInv'
    BY <2>3, <2>4 DEF DatasetInv
  <2> QED BY <1>1, <1>3, <1>5, <2>1, <2>5 DEF IInv
<1>13. ASSUME UNCHANGED vars PROVE IInv'
  BY <1>6, <1>13 DEF vars
<1> QED
  BY <1>7, <1>8, <1>10, <1>11, <1>12, <1>13 DEF Next

LEMMA IInvHolds == ASSUME ~Backdated PROVE Spec => []IInv
<1>1. Init => IInv
  BY InitInv
<1>2. IInv /\ [Next]_vars => IInv'
  BY NextKeeps
<1> QED
  BY <1>1, <1>2, PTL DEF Spec

(* When no revision claims to have been known at a cutoff already used,    *)
(* whatever a writer holds or a reader accepts has the rows a full         *)
(* computation over its own source gives, through any chain of             *)
(* predecessors (spark_runtime.incremental_rebuild, read_generation).      *)
THEOREM IncrementalIsFull == ASSUME ~Backdated PROVE Spec => []IncrementalEqualsFull
<1>1. IInv => IncrementalEqualsFull
  <2> SUFFICES ASSUME IInv, NEW b \in Builds
               PROVE  b.rows = Materialize(b.source, Customers, Cutoff, b.known)
    BY DEF IncrementalEqualsFull
  <2>1. Honest(history, frontier, b)
    <3>1. ASSUME NEW w \in Writers, ~At(w, "idle")
          PROVE  Honest(history, frontier, writer[w].build)
      BY <3>1 DEF IInv, WriterInv
    <3>2. ASSUME NEW g \in Gens, Readable(disk[g])
          PROVE  Honest(history, frontier, Loaded(disk[g]))
      BY <3>2, LoadedIsManifest DEF IInv, DirectoryInv, Directories
    <3> QED BY <3>1, <3>2 DEF Builds
  <2> QED BY <2>1 DEF Honest
<1> QED
  BY <1>1, IInvHolds, PTL

(* Under the same condition, a dataset extracted again is the dataset      *)
(* extracted then, whatever has been corrected or retracted since          *)
(* (dataset.build_training_dataset).                                       *)
THEOREM DatasetsStay == ASSUME ~Backdated PROVE Spec => []DatasetsAreReproducible
<1>1. IInv => DatasetsAreReproducible
  BY DEF IInv, DatasetInv, DatasetsAreReproducible
<1> QED
  BY <1>1, IInvHolds, PTL

=============================================================================
