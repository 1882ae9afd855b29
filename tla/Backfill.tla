------------------------------ MODULE Backfill ------------------------------
(***************************************************************************)
(* Point-in-time features and incremental backfill.                        *)
(*                                                                         *)
(* A source history only grows: every payment is a logical event with      *)
(* revisions, and each revision carries the time the payment happened (at) *)
(* and the earliest time the platform could know of it (known).  Three     *)
(* paths compute features from it: the shared Python library               *)
(* (temporal.py, computation.py), Spark (spark_runtime.py) and the         *)
(* independent projector the parity gate compares with (expected.py).      *)
(* Spark builds a generation in full or incrementally from a predecessor   *)
(* on disk; writers persist generations through a staging directory that   *)
(* two writers of one identity share, and may die at any step.             *)
(***************************************************************************)
EXTENDS Integers, FiniteSetsExt

CONSTANTS
    Offered,      \* revisions that may arrive
    Definitions,  \* feature definitions: name, computation, window, empty
    Customers,    \* the customers every generation covers
    Cutoff,       \* the event cutoff of every generation
    Knowledge,    \* knowledge cutoffs a build may ask for
    Fraction,     \* maximum_pair_fraction, as <<numerator, denominator>>
    AsOf,         \* the frontiers a training dataset is extracted at
    Labels,       \* training labels: customer, time, prediction
    Gens,         \* generation identities
    Writers,      \* processes that build and write generations
    MaxStarts,    \* bound: how many builds are started in all
    Backdated,    \* TRUE: a revision may claim to be older than a frontier used
    Nil           \* nothing: no window, no default, no file, no directory

ASSUME NilIsNothing == Nil \notin Gens \cup Offered
ASSUME CutoffsAreEpochs ==
    /\ Knowledge \subseteq Nat /\ AsOf \subseteq Nat /\ Cutoff \in Nat
    /\ \A r \in Offered : r.id \in Nat /\ r.known \in Nat
    /\ \A l \in Labels : l.prediction \in Nat

VARIABLES
    history,   \* the revisions that have arrived
    frontier,  \* the latest knowledge cutoff anything was computed at
    dataset,   \* the training dataset extracted at each dataset_as_of, or Nil
    disk,      \* the generation directory of each identity, or Nil
    staging,   \* its staging directory, or Nil
    writer,    \* each writer's step and the build it holds
    starts     \* builds started

vars == <<history, frontier, dataset, disk, staging, writer, starts>>

----------------------------------------------------------------------------
(* The bitemporal selection and the five computations.                     *)

Normal(H) ==
    \A r, s \in H :
        /\ r.id = s.id => r = s
        /\ r.event = s.event => r.customer = s.customer
        /\ r.event = s.event /\ r.known = s.known => r.id = s.id

KnownBy(H, k) == {r \in H : r.known <= k}

InWindow(d, r, cut) == d.window # Nil => r.at > cut - d.window

Latest(H, k) ==
    {r \in KnownBy(H, k) :
        \A s \in KnownBy(H, k) : s.event = r.event => s.known <= r.known}

Select(H, customer, cut, k) ==
    {r \in Latest(H, k) :
        r.op = "upsert" /\ r.customer = customer /\ r.at <= cut}

\* A ratio is counted in twelfths, exact for up to four payments.
Compute(d, S, cut) ==
    LET won == {r \in S : r.status = "succeeded"}
        failed == {r \in S : r.status = "failed"}
    IN  CASE d.computation = "transaction_count" -> Cardinality(S)
          [] d.computation = "successful_spend_cents" ->
                IF won = {} THEN d.empty
                ELSE MapThenSumSet(LAMBDA r : r.amount, won)
          [] d.computation = "failed_payment_ratio" ->
                IF S = {} THEN d.empty
                ELSE (12 * Cardinality(failed)) \div Cardinality(S)
          [] d.computation = "hours_since_success" ->
                IF won = {} THEN d.empty ELSE cut - Max({r.at : r \in won})
          [] d.computation = "max_merchant_risk" ->
                IF S = {} THEN d.empty ELSE Max({r.risk : r \in S})

Materialize(H, customers, cut, k) ==
    [p \in customers \X Definitions |->
        Compute(p[2], {r \in Select(H, p[1], cut, k) : InWindow(p[2], r, cut)}, cut)]

\* The parity gate's projector: the last revision of each event in knowledge
\* order, kept in a dictionary.
ExpectedRows(H, customers, cut, k) ==
    LET events == {r.event : r \in KnownBy(H, k)}
        current == [e \in events |->
            CHOOSE r \in KnownBy(H, k) :
                r.event = e /\ \A s \in KnownBy(H, k) : s.event = e => s.known <= r.known]
        visible(c) == {e \in events : /\ current[e].op = "upsert"
                                      /\ current[e].customer = c
                                      /\ current[e].at <= cut}
    IN  [p \in customers \X Definitions |->
            Compute(p[2],
                    {current[e] : e \in {f \in visible(p[1]) :
                                            InWindow(p[2], current[f], cut)}},
                    cut)]

\* row_number over knowledge_time and revision_id, both descending.
Rank(r, S) ==
    1 + Cardinality({s \in S : /\ s.event = r.event
                               /\ \/ s.known > r.known
                                  \/ s.known = r.known /\ s.id > r.id})

Authoritative(H, k) ==
    {r \in KnownBy(H, k) : Rank(r, KnownBy(H, k)) = 1 /\ r.op = "upsert"}

ComputedRowsCutFirst(H, customers, cut, k) ==
    [p \in customers \X Definitions |->
        Compute(p[2],
                {r \in Authoritative({s \in H : s.at <= cut}, k) :
                    r.customer = p[1] /\ InWindow(p[2], r, cut)},
                cut)]

ComputedRows(H, customers, cut, k) ==
    [p \in customers \X Definitions |->
        Compute(p[2],
                {r \in Authoritative(H, k) :
                    r.at <= cut /\ r.customer = p[1] /\ InWindow(p[2], r, cut)},
                cut)]

----------------------------------------------------------------------------
(* The affected scope and the two ways to build a generation.              *)

EventsOf(H) == {r.event : r \in H}

StateByEvent(H, k) ==
    [e \in EventsOf(H) |->
        LET last == {r \in Latest(H, k) : r.event = e /\ r.op = "upsert"}
        IN  IF last = {} THEN Nil ELSE CHOOSE r \in last : TRUE]

CandidatesOfTarget(H, e, base, target) == {StateByEvent(H, target)[e]} \ {Nil}

\* The states on both sides of a change count: a correction may move a payment
\* out of a window as well as into it.
Candidates(H, e, base, target) ==
    {StateByEvent(H, base)[e], StateByEvent(H, target)[e]} \ {Nil}

AffectedPairs(H, base, target) ==
    LET changed == {e \in EventsOf(H) :
                        StateByEvent(H, base)[e] # StateByEvent(H, target)[e]}
        moved == {x \in changed \X Definitions :
                     \E r \in Candidates(H, x[1], base, target) :
                         r.at <= Cutoff /\ InWindow(x[2], r, Cutoff)}
    IN  UNION {{<<r.customer, x[2]>> : r \in Candidates(H, x[1], base, target)} :
                  x \in moved}

TooWide(H, pairs) ==
    Cardinality(pairs) * Fraction[2]
        > Fraction[1] * Cardinality({r.customer : r \in H}) * Cardinality(Definitions)

FullBuild(g, k) ==
    [gen |-> g, known |-> k, source |-> history, base |-> Nil,
     rows |-> ComputedRows(history, Customers, Cutoff, k)]

IncrementalBuild(g, k, base) ==
    LET affected == AffectedPairs(history, base.known, k)
        again == ComputedRows(history, {p[1] : p \in affected}, Cutoff, k)
    IN  IF TooWide(history, affected) THEN FullBuild(g, k)
        ELSE [gen |-> g, known |-> k, source |-> history, base |-> base.gen,
              rows |-> [p \in Customers \X Definitions |->
                           IF p \in affected THEN again[p] ELSE base.rows[p]]]

----------------------------------------------------------------------------
(* Generation directories: what their files hold, and what a reader takes. *)

\* rows.json carries each row's knowledge cutoff beside its value.
Rows(b) == [known |-> b.known, values |-> b.rows]

EmptyDir == [rows |-> Nil, manifest |-> Nil, complete |-> Nil]

\* Exactly the three files; the marker binds the manifest, the manifest the rows.
Readable(dir) ==
    /\ dir # Nil
    /\ dir.rows # Nil /\ dir.manifest # Nil /\ dir.complete # Nil
    /\ dir.complete = dir.manifest
    /\ dir.rows = Rows(dir.manifest)

Loaded(dir) == [dir.manifest EXCEPT !.rows = dir.rows.values]

----------------------------------------------------------------------------
Idle == [step |-> "idle", build |-> Nil, held |-> "nothing"]

Init ==
    /\ history = {}
    /\ frontier = -1
    /\ dataset = [a \in AsOf |-> Nil]
    /\ disk = [g \in Gens |-> Nil]
    /\ staging = [g \in Gens |-> Nil]
    /\ writer = [w \in Writers |-> Idle]
    /\ starts = 0

\* A revision arrives.  On time: what becomes known later than a frontier that
\* was already used also says so.
Ingest(r) ==
    /\ r \notin history
    /\ Backdated \/ r.known > frontier
    /\ history' = history \cup {r}
    /\ UNCHANGED <<frontier, dataset, disk, staging, writer, starts>>

\* validate_inputs refuses an ambiguous history before anything is built.
Start(w, build, k) ==
    /\ writer[w].step = "idle"
    /\ starts < MaxStarts
    /\ Normal(history)
    /\ writer' = [writer EXCEPT ![w] = [Idle EXCEPT !.step = "inspect", !.build = build]]
    /\ frontier' = Max({frontier, k})
    /\ starts' = starts + 1
    /\ UNCHANGED <<history, dataset, disk, staging>>

StartFull(w, g, k) == Start(w, FullBuild(g, k), k)

\* The predecessor is reopened from disk.  Its source is not compared with the
\* history this build reads.
StartIncremental(w, g, k, b) ==
    /\ Readable(disk[b])
    /\ Loaded(disk[b]).known <= k
    /\ Start(w, IncrementalBuild(g, k, Loaded(disk[b])), k)

Goto(w, step) == writer' = [writer EXCEPT ![w].step = step]

At(w, step) == writer[w].step = step

Gen(w) == writer[w].build.gen

\* The identity exists: an exact replay, or a conflict.
Inspect(w) ==
    /\ At(w, "inspect")
    /\ LET final == disk[Gen(w)]
       IN  Goto(w, CASE final = Nil -> "clear"
                     [] Readable(final) /\ final.manifest = writer[w].build -> "replayed"
                     [] OTHER -> "failed")
    /\ UNCHANGED <<history, frontier, dataset, disk, staging, starts>>

\* rmtree opens the staging directory, empties what it holds open, wherever
\* that is by then, and removes the path.
OpenStaging(w) ==
    /\ At(w, "clear")
    /\ IF staging[Gen(w)] = Nil
       THEN Goto(w, "mkdir")
       ELSE writer' = [writer EXCEPT ![w].step = "empty", ![w].held = "staging"]
    /\ UNCHANGED <<history, frontier, dataset, disk, staging, starts>>

\* What the writers hold once the staging directory of g is somewhere else.
HeldAfter(g, place) ==
    [w \in Writers |->
        IF writer[w].held = "staging" /\ Gen(w) = g
        THEN [writer[w] EXCEPT !.held = place]
        ELSE writer[w]]

EmptyHeld(w) ==
    /\ At(w, "empty")
    /\ staging' = IF writer[w].held = "staging"
                  THEN [staging EXCEPT ![Gen(w)] = EmptyDir] ELSE staging
    /\ disk' = IF writer[w].held = "final"
               THEN [disk EXCEPT ![Gen(w)] = EmptyDir] ELSE disk
    /\ writer' = [writer EXCEPT ![w].step = "rmdir", ![w].held = "nothing"]
    /\ UNCHANGED <<history, frontier, dataset, starts>>

RemoveStaging(w) ==
    /\ At(w, "rmdir")
    /\ IF staging[Gen(w)] = EmptyDir
       THEN /\ staging' = [staging EXCEPT ![Gen(w)] = Nil]
            /\ writer' = [HeldAfter(Gen(w), "nowhere") EXCEPT ![w].step = "mkdir"]
       ELSE /\ Goto(w, "failed")
            /\ UNCHANGED staging
    /\ UNCHANGED <<history, frontier, dataset, disk, starts>>

MakeDir(w) ==
    /\ At(w, "mkdir")
    /\ IF staging[Gen(w)] = Nil
       THEN /\ staging' = [staging EXCEPT ![Gen(w)] = EmptyDir]
            /\ Goto(w, "rows")
       ELSE /\ Goto(w, "failed")
            /\ UNCHANGED staging
    /\ UNCHANGED <<history, frontier, dataset, disk, starts>>

\* One file of the staging directory; another writer may have removed it.
WriteFile(w, step, file, content, next) ==
    /\ At(w, step)
    /\ IF staging[Gen(w)] = Nil
       THEN /\ Goto(w, "failed")
            /\ UNCHANGED staging
       ELSE /\ staging' = [staging EXCEPT ![Gen(w)][file] = content]
            /\ Goto(w, next)
    /\ UNCHANGED <<history, frontier, dataset, disk, starts>>

WriteRows(w) == WriteFile(w, "rows", "rows", Rows(writer[w].build), "manifest")
WriteManifest(w) == WriteFile(w, "manifest", "manifest", writer[w].build, "marker")
WriteMarker(w) == WriteFile(w, "marker", "complete", writer[w].build, "rename")

\* A rename replaces an empty directory and fails on any other.
Rename(w) ==
    /\ At(w, "rename")
    /\ IF staging[Gen(w)] # Nil /\ disk[Gen(w)] \in {Nil, EmptyDir}
       THEN /\ disk' = [disk EXCEPT ![Gen(w)] = staging[Gen(w)]]
            /\ staging' = [staging EXCEPT ![Gen(w)] = Nil]
            /\ writer' = [HeldAfter(Gen(w), "final") EXCEPT ![w].step = "written"]
       ELSE /\ Goto(w, "failed")
            /\ UNCHANGED <<disk, staging>>
    /\ UNCHANGED <<history, frontier, dataset, starts>>

Ended == {"written", "replayed", "failed"}

\* The process dies between two steps, or has ended; its next run starts over.
Quit(w) ==
    /\ ~At(w, "idle")
    /\ writer' = [writer EXCEPT ![w] = Idle]
    /\ UNCHANGED <<history, frontier, dataset, disk, staging, starts>>

EffectiveCutoffOfPrediction(label, asOf) == label.prediction

EffectiveCutoff(label, asOf) == Min({label.prediction, asOf})

DatasetRows(H, asOf) ==
    [l \in Labels |->
        Materialize(H, {l.customer}, l.time, EffectiveCutoff(l, asOf))]

BuildDataset(asOf) ==
    /\ dataset[asOf] = Nil
    /\ Normal(history)
    /\ dataset' = [dataset EXCEPT ![asOf] = DatasetRows(history, asOf)]
    /\ frontier' = Max({frontier, asOf})
    /\ UNCHANGED <<history, disk, staging, writer, starts>>

Next ==
    \/ \E r \in Offered : Ingest(r)
    \/ \E w \in Writers, g \in Gens, k \in Knowledge :
          StartFull(w, g, k) \/ \E b \in Gens : StartIncremental(w, g, k, b)
    \/ \E w \in Writers :
          \/ Inspect(w) \/ OpenStaging(w) \/ EmptyHeld(w) \/ RemoveStaging(w)
          \/ MakeDir(w)
          \/ WriteRows(w) \/ WriteManifest(w) \/ WriteMarker(w)
          \/ Rename(w) \/ Quit(w)
    \/ \E a \in AsOf : BuildDataset(a)

Spec == Init /\ [][Next]_vars

----------------------------------------------------------------------------
(* What the code promises.                                                 *)

\* The Spark build, the shared library and the parity gate's projector give
\* the same rows for every history they accept, whatever cutoff is asked for
\* (spark_runtime._computed_rows, computation.materialize,
\* expected.project_feature_rows).
ImplementationsAgree ==
    Normal(history) =>
        \A k \in Knowledge :
            LET rows == Materialize(history, Customers, Cutoff, k)
            IN  /\ ComputedRows(history, Customers, Cutoff, k) = rows
                /\ ExpectedRows(history, Customers, Cutoff, k) = rows

Builds ==
    {writer[w].build : w \in {v \in Writers : ~At(v, "idle")}}
        \cup {Loaded(disk[g]) : g \in {h \in Gens : Readable(disk[h])}}

\* A generation a writer holds or a reader accepts has the rows a full
\* computation over its own source and cutoff gives, even when most of them
\* were carried over from a chain of predecessors
\* (spark_runtime.incremental_rebuild, read_generation).
IncrementalEqualsFull ==
    \A b \in Builds : b.rows = Materialize(b.source, Customers, Cutoff, b.known)

\* A training dataset extracted again later, after corrections and
\* retractions, is the dataset extracted then (dataset.build_training_dataset).
DatasetsAreReproducible ==
    Normal(history) =>
        \A a \in AsOf : dataset[a] # Nil => dataset[a] = DatasetRows(history, a)
=============================================================================
