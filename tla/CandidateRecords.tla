-------------------------- MODULE CandidateRecords --------------------------
(***************************************************************************)
(* The order of one generation's online records (online.py).  A plan takes *)
(* its records_digest over the records sorted by (partition_key,           *)
(* sort_key); reconcile() takes it over the rows candidate_records()       *)
(* returns, page by page, sorted by (customer_id, feature_name).  Outside  *)
(* reconcile() no transaction holds the pages of one traversal together.   *)
(***************************************************************************)
EXTENDS Naturals, Sequences, FiniteSets, SequencesExt

CONSTANTS
  Customer,  \* customer ids: sequences of character codes
  Feature,   \* feature names: likewise
  Planned,   \* the <<customer, feature>> the plan has a record of
  GenSuffix, \* "#GEN#" and the generation id, the tail of a partition_key
  DefSuffix, \* "#DEF#" and the definition digest, the tail of a sort_key
  PageSize   \* page_size: 7 in reconcile(), 100 by default

ASSUME RecordsAssumption ==
  /\ Customer \union Feature \subseteq Seq(Nat)
  /\ Planned \subseteq Customer \X Feature /\ IsFiniteSet(Planned)
  /\ PageSize \in Nat \ {0}

VARIABLES
  records,  \* the keys of the generation's rows so far
  walk      \* candidate_records: [pc, cursor, result, found]; found is a
            \* history variable: the rows there were when the walk began

vars == <<records, walk>>

----------------------------------------------------------------------------
(* Strings compare by their first difference; a prefix comes first.        *)
Before(s, t) ==
  \E n \in 0..Len(s) :
    /\ n < Len(t) /\ \A i \in 1..n : s[i] = t[i]
    /\ n < Len(s) => s[n + 1] < t[n + 1]

PairBefore(p, q) == Before(p[1], q[1]) \/ (p[1] = q[1] /\ Before(p[2], q[2]))

(* The members of S in the order Less.                                     *)
SortedBy(Less(_, _), S) ==
  CHOOSE s \in SetToSeqs(S) : \A i, j \in DOMAIN s : i < j => Less(s[i], s[j])

(* Equal heads ("ENTITY#", "FEATURE#") do not bear on the order.           *)
PartitionKey(customer) == customer \o GenSuffix
SortKey(feature) == feature \o DefSuffix

(* build_materialization_plan: the order records_digest is taken in.       *)
PlanOrder ==
  SortedBy(LAMBDA p, q :
    PairBefore(<<PartitionKey(p[1]), SortKey(p[2])>>, <<PartitionKey(q[1]), SortKey(q[2])>>), Planned)

(* The SELECT of candidate_page, before its LIMIT.                         *)
RowsAfter(cursor) ==
  SortedBy(PairBefore, {r \in records : cursor = <<>> \/ PairBefore(cursor, r)})

(* Mutant: the cursor is the row that was read ahead.                      *)
CursorReadAhead(rows) == IF Len(rows) > PageSize THEN rows[PageSize + 1] ELSE <<>>

(* The last row of a page that is not the last page; <<>> is None.         *)
NextCursor(rows) == IF Len(rows) > PageSize THEN rows[PageSize] ELSE <<>>

----------------------------------------------------------------------------
Init ==
  /\ records = {}
  /\ walk = [pc |-> "idle", cursor |-> <<>>, result |-> <<>>, found |-> {}]

(* write_record: rows are added in any order and never deleted.            *)
WriteRecord(r) ==
  /\ r \notin records
  /\ records' = records \union {r}
  /\ UNCHANGED walk

BeginWalk ==
  /\ walk.pc \in {"idle", "done"}
  /\ walk' = [pc |-> "paging", cursor |-> <<>>, result |-> <<>>, found |-> records]
  /\ UNCHANGED records

(* candidate_page, and candidate_records' use of it.                       *)
TakePage ==
  LET rows   == RowsAfter(walk.cursor)
      page   == SubSeq(rows, 1, IF Len(rows) > PageSize THEN PageSize ELSE Len(rows))
      cursor == NextCursor(rows)
  IN  /\ walk.pc = "paging"
      /\ walk' = [walk EXCEPT !.cursor = cursor,
                              !.result = @ \o page,
                              !.pc = IF cursor = <<>> THEN "done" ELSE "paging"]
      /\ UNCHANGED records

Next == BeginWalk \/ TakePage \/ \E r \in Planned : WriteRecord(r)

Spec == Init /\ [][Next]_vars

----------------------------------------------------------------------------
(* Properties.                                                             *)

(* However writers interleave with the pages, a finished traversal has     *)
(* every row that was there when it began, each row at most once and in    *)
(* key order, and no row that was never written (candidate_records).       *)
WalkComplete ==
  walk.pc = "done" =>
    /\ walk.found \subseteq ToSet(walk.result)
    /\ ToSet(walk.result) \subseteq records
    /\ \A i, j \in DOMAIN walk.result : i < j => PairBefore(walk.result[i], walk.result[j])

(* online-materialization-specification.md says that records_digest binds  *)
(* the sorted list of record digests and that a partial, extra or corrupt  *)
(* set stays ineligible: a complete traversal of the complete, intact      *)
(* candidate then yields the list the plan's digest was taken over.        *)
CompleteCandidateMatchesPlan ==
  walk.pc = "done" /\ walk.found = Planned => walk.result = PlanOrder

=============================================================================
