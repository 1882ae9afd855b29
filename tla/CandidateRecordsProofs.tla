----------------------- MODULE CandidateRecordsProofs -----------------------
(***************************************************************************)
(* A traversal of one generation's records misses none of them, for any    *)
(* plan and any page size.  The order of the records is that of strings,   *)
(* by their first difference; that every set of records has an arrangement *)
(* in it is proved by ranks, without an induction.                         *)
(***************************************************************************)
EXTENDS CandidateRecords, FiniteSetTheorems, FunctionTheorems, SequenceTheorems, WellFoundedInduction, TLAPS

(***************************************************************************)
(* The order.                                                              *)
(***************************************************************************)
Pair == Seq(Nat) \X Seq(Nat)

LEMMA LeastNumber ==
  ASSUME NEW T \in SUBSET Nat, T # {}
  PROVE  \E x \in T : \A y \in T : x <= y
<1>1. PICK x \in T : \A y \in T : ~ (<<y, x>> \in OpToRel(<, Nat))
  BY WFMin, NatLessThanWellFounded
<1>2. \A y \in T : ~ (y < x)
  BY <1>1 DEF OpToRel
<1> QED BY <1>2

LEMMA BeforeIrreflexive ==
  ASSUME NEW s \in Seq(Nat)
  PROVE  ~ Before(s, s)
BY DEF Before

LEMMA BeforeTransitive ==
  ASSUME NEW s \in Seq(Nat), NEW t \in Seq(Nat), NEW u \in Seq(Nat),
         Before(s, t), Before(t, u)
  PROVE  Before(s, u)
<1>1. PICK m \in 0..Len(s) : /\ m < Len(t) /\ \A i \in 1..m : s[i] = t[i]
                             /\ m < Len(s) => s[m + 1] < t[m + 1]
  BY DEF Before
<1>2. PICK n \in 0..Len(t) : /\ n < Len(u) /\ \A i \in 1..n : t[i] = u[i]
                             /\ n < Len(t) => t[n + 1] < u[n + 1]
  BY DEF Before
<1>3. /\ \A i \in 1..Len(s) : s[i] \in Nat
      /\ \A i \in 1..Len(t) : t[i] \in Nat
      /\ \A i \in 1..Len(u) : u[i] \in Nat
      /\ Len(s) \in Nat /\ Len(t) \in Nat /\ Len(u) \in Nat
  OBVIOUS
<1>4. CASE m <= n
  <2>1. m < Len(u) /\ \A i \in 1..m : s[i] = u[i]
    BY <1>1, <1>2, <1>3, <1>4
  <2>2. ASSUME m < Len(s)
        PROVE  s[m + 1] < u[m + 1]
    <3>1. m + 1 \in 1..Len(s) /\ m + 1 \in 1..Len(t) /\ m + 1 \in 1..Len(u)
      BY <1>1, <1>3, <2>1, <2>2
    <3>2. s[m + 1] \in Nat /\ t[m + 1] \in Nat /\ u[m + 1] \in Nat
      BY <1>3, <3>1
    <3>3. s[m + 1] < t[m + 1]
      BY <1>1, <2>2
    <3>4. CASE m = n
      <4>1. t[m + 1] < u[m + 1]
        BY <1>1, <1>2, <3>4
      <4> QED BY <3>2, <3>3, <4>1
    <3>5. CASE m < n
      <4>1. t[m + 1] = u[m + 1]
        BY <1>2, <1>3, <3>5
      <4> QED BY <3>3, <4>1
    <3> QED BY <1>3, <1>4, <3>4, <3>5
  <2> QED BY <2>1, <2>2 DEF Before
<1>5. CASE n < m
  <2>1. n \in 0..Len(s) /\ n < Len(u) /\ \A i \in 1..n : s[i] = u[i]
    BY <1>1, <1>2, <1>3, <1>5
  <2>2. s[n + 1] = t[n + 1] /\ t[n + 1] < u[n + 1]
    BY <1>1, <1>2, <1>3, <1>5
  <2> QED BY <2>1, <2>2 DEF Before
<1> QED BY <1>3, <1>4, <1>5

(* Different sequences differ at a first place, or one is a prefix.        *)
LEMMA FirstDifference ==
  ASSUME NEW S, NEW s \in Seq(S), NEW t \in Seq(S), s # t
  PROVE  \E n \in 0..Len(s) :
           /\ n <= Len(t) /\ \A i \in 1..n : s[i] = t[i]
           /\ \/ n = Len(s) /\ n < Len(t)
              \/ n = Len(t) /\ n < Len(s)
              \/ n < Len(s) /\ n < Len(t) /\ s[n + 1] # t[n + 1]
<1> DEFINE Differ == {n \in Nat : n = Len(s) \/ n = Len(t) \/ s[n + 1] # t[n + 1]}
<1>1. PICK n \in Differ : \A m \in Differ : n <= m
  <2>1. Differ \in SUBSET Nat /\ Len(s) \in Differ
    OBVIOUS
  <2> HIDE DEF Differ
  <2> QED BY <2>1, LeastNumber
<1>2. n \in 0..Len(s) /\ n <= Len(t) /\ Len(t) \in Nat
  BY <1>1
<1>3. \A i \in 1..n : s[i] = t[i]
  <2> SUFFICES ASSUME NEW i \in 1..n, s[i] # t[i]
               PROVE  FALSE
    OBVIOUS
  <2>1. PICK j \in Nat : i = j + 1
    BY <1>2
  <2>2. j \in Differ
    BY <2>1
  <2> HIDE DEF Differ
  <2> QED BY <1>1, <1>2, <2>1, <2>2
<1>4. n # Len(s) \/ n # Len(t)
  BY <1>3, SeqEqual
<1>5. n = Len(s) \/ n = Len(t) \/ s[n + 1] # t[n + 1]
  BY <1>1
<1> HIDE DEF Differ
<1>6. \/ n = Len(s) /\ n < Len(t)
      \/ n = Len(t) /\ n < Len(s)
      \/ n < Len(s) /\ n < Len(t) /\ s[n + 1] # t[n + 1]
  BY <1>2, <1>4, <1>5
<1> QED BY <1>2, <1>3, <1>6

LEMMA BeforeTotal ==
  ASSUME NEW s \in Seq(Nat), NEW t \in Seq(Nat), s # t
  PROVE  Before(s, t) \/ Before(t, s)
<1>1. PICK n \in 0..Len(s) :
        /\ n <= Len(t) /\ \A i \in 1..n : s[i] = t[i]
        /\ \/ n = Len(s) /\ n < Len(t)
           \/ n = Len(t) /\ n < Len(s)
           \/ n < Len(s) /\ n < Len(t) /\ s[n + 1] # t[n + 1]
  BY FirstDifference
<1>2. CASE n = Len(s) /\ n < Len(t)
  BY <1>1, <1>2 DEF Before
<1>3. CASE n = Len(t) /\ n < Len(s)
  BY <1>1, <1>3 DEF Before
<1>4. CASE n < Len(s) /\ n < Len(t) /\ s[n + 1] # t[n + 1]
  <2>1. s[n + 1] \in Nat /\ t[n + 1] \in Nat
    BY <1>4
  <2>2. CASE s[n + 1] < t[n + 1]
    BY <1>1, <1>4, <2>2 DEF Before
  <2>3. CASE t[n + 1] < s[n + 1]
    BY <1>1, <1>4, <2>3 DEF Before
  <2> QED BY <1>4, <2>1, <2>2, <2>3
<1> QED BY <1>1, <1>2, <1>3, <1>4

LEMMA PairTransitive ==
  ASSUME NEW p \in Pair, NEW q \in Pair, NEW r \in Pair, PairBefore(p, q), PairBefore(q, r)
  PROVE  PairBefore(p, r)
BY BeforeTransitive DEF Pair, PairBefore

LEMMA PairIrreflexive ==
  ASSUME NEW p \in Pair
  PROVE  ~ PairBefore(p, p)
BY BeforeIrreflexive DEF Pair, PairBefore

LEMMA PairTotal ==
  ASSUME NEW p \in Pair, NEW q \in Pair, p # q
  PROVE  PairBefore(p, q) \/ PairBefore(q, p)
BY BeforeTotal DEF Pair, PairBefore

(***************************************************************************)
(* The arrangement.                                                        *)
(***************************************************************************)
Arranges(s, S) ==
  /\ s \in Seq(S) /\ ToSet(s) = S
  /\ \A i, j \in 1..Len(s) : i < j => PairBefore(s[i], s[j])

(* The place of a record is one more than the records before it: different *)
(* records have different places, so every place is taken.                 *)
LEMMA ArrangementExists ==
  ASSUME NEW S \in SUBSET Pair, IsFiniteSet(S)
  PROVE  \E s \in SetToSeqs(S) : \A i, j \in DOMAIN s : i < j => PairBefore(s[i], s[j])
<1> DEFINE n        == Cardinality(S)
           Below(x) == {y \in S : PairBefore(y, x)}
           rank     == [x \in S |-> Cardinality(Below(x)) + 1]
<1>1. n \in Nat
  BY FS_CardinalityType
<1>2. ASSUME NEW x \in S
      PROVE  IsFiniteSet(Below(x)) /\ Cardinality(Below(x)) \in Nat /\ Cardinality(Below(x)) < n
  <2>1. Below(x) \in SUBSET S /\ x \notin Below(x)
    BY PairIrreflexive
  <2>2. /\ IsFiniteSet(Below(x)) /\ Cardinality(Below(x)) <= n
        /\ n = Cardinality(Below(x)) => S = Below(x)
    BY <2>1, FS_Subset
  <2>3. Cardinality(Below(x)) \in Nat
    BY <2>2, FS_CardinalityType
  <2> QED BY <1>1, <2>1, <2>2, <2>3
<1>3. ASSUME NEW x \in S, NEW y \in S, PairBefore(x, y)
      PROVE  rank[x] < rank[y]
  <2>1. Below(x) \in SUBSET Below(y) /\ x \in Below(y) /\ x \notin Below(x)
    BY <1>3, PairTransitive, PairIrreflexive
  <2>2. /\ Cardinality(Below(x)) <= Cardinality(Below(y))
        /\ Cardinality(Below(y)) = Cardinality(Below(x)) => Below(y) = Below(x)
    BY <1>2, <2>1, FS_Subset
  <2>3. Cardinality(Below(x)) < Cardinality(Below(y))
    <3>1. Cardinality(Below(x)) # Cardinality(Below(y))
      BY <2>1, <2>2
    <3>2. Cardinality(Below(x)) \in Nat /\ Cardinality(Below(y)) \in Nat
      BY <1>2
    <3> HIDE DEF Below
    <3> QED BY <2>2, <3>1, <3>2
  <2>4. rank[x] = Cardinality(Below(x)) + 1 /\ rank[y] = Cardinality(Below(y)) + 1
    OBVIOUS
  <2> HIDE DEF Below, rank
  <2> QED BY <1>2, <2>3, <2>4
<1>4. rank \in [S -> 1..n]
  <2> SUFFICES ASSUME NEW x \in S
               PROVE  Cardinality(Below(x)) + 1 \in 1..n
    OBVIOUS
  <2> HIDE DEF Below, n
  <2> QED BY <1>1, <1>2
<1> HIDE DEF Below, rank
<1>5. \A x, y \in S : rank[x] = rank[y] => x = y
  <2> SUFFICES ASSUME NEW x \in S, NEW y \in S, x # y
               PROVE  rank[x] # rank[y]
    OBVIOUS
  <2>1. rank[x] \in Nat /\ rank[y] \in Nat
    BY <1>4, <1>1
  <2> QED BY <1>3, <2>1, PairTotal
<1>6. \A i \in 1..n : \E x \in S : rank[x] = i
  <2>1. rank \in Injection(S, 1..n)
    BY <1>4, <1>5 DEF Injection, IsInjective
  <2>2. IsFiniteSet(1..n) /\ Cardinality(1..n) = n
    BY <1>1, FS_Interval
  <2>3. rank \in Surjection(S, 1..n)
    BY <2>1, <2>2, FS_Injection
  <2> QED BY <2>3 DEF Surjection
<1> DEFINE s == [i \in 1..n |-> CHOOSE x \in S : rank[x] = i]
<1>7. \A i \in 1..n : s[i] \in S /\ rank[s[i]] = i
  BY <1>6
<1>8. s \in [1..n -> S] /\ DOMAIN s = 1..n
  BY <1>7
<1> HIDE DEF s
<1>9. s \in SetToSeqs(S)
  BY <1>7, <1>8 DEF SetToSeqs
<1>10. ASSUME NEW i \in 1..n, NEW j \in 1..n, i < j
       PROVE  PairBefore(s[i], s[j])
  <2>1. s[i] # s[j] /\ ~ PairBefore(s[j], s[i])
    <3> HIDE DEF n
    <3> QED BY <1>1, <1>3, <1>7, <1>10
  <2> QED BY <1>7, <2>1, PairTotal
<1> QED BY <1>8, <1>9, <1>10

LEMMA OrderedArranges ==
  ASSUME NEW S \in SUBSET Pair, IsFiniteSet(S), NEW s \in SetToSeqs(S),
         \A i, j \in DOMAIN s : i < j => PairBefore(s[i], s[j])
  PROVE  Arranges(s, S)
<1> DEFINE n == Cardinality(S)
<1>1. n \in Nat
  BY FS_CardinalityType
<1>2. s \in [1..n -> S] /\ \A i, j \in 1..n : i # j => s[i] # s[j]
  BY DEF SetToSeqs
<1>3. s \in Seq(S) /\ Len(s) = n
  BY <1>1, <1>2
<1>4. \A x \in S : \E i \in 1..n : s[i] = x
  <2>1. s \in Injection(1..n, S)
    BY <1>2 DEF Injection, IsInjective
  <2>2. IsFiniteSet(1..n) /\ Cardinality(1..n) = n
    BY <1>1, FS_Interval
  <2>3. s \in Surjection(1..n, S)
    BY <2>1, <2>2, FS_Injection
  <2> QED BY <2>3 DEF Surjection
<1>5. ToSet(s) = S
  BY <1>2, <1>4 DEF ToSet
<1> QED BY <1>2, <1>3, <1>5 DEF Arranges

LEMMA SortedArranges ==
  ASSUME NEW S \in SUBSET Pair, IsFiniteSet(S)
  PROVE  Arranges(SortedBy(PairBefore, S), S)
<1>1. PICK s : /\ s = SortedBy(PairBefore, S) /\ s \in SetToSeqs(S)
               /\ \A i, j \in DOMAIN s : i < j => PairBefore(s[i], s[j])
  BY ArrangementExists DEF SortedBy
<1> QED BY <1>1, OrderedArranges

(***************************************************************************)
(* The traversal.                                                          *)
(***************************************************************************)

(* What a walk has taken: rows that are stored, in order, ...              *)
Taken(result) ==
  /\ result \in Seq(records)
  /\ \A i, j \in 1..Len(result) : i < j => PairBefore(result[i], result[j])

(* ... and between pages all rows there were up to the cursor, the last.   *)
WalkInv ==
  /\ walk.pc \in {"idle", "paging", "done"}
  /\ walk.found \subseteq records
  /\ walk.pc # "idle" => Taken(walk.result)
  /\ walk.pc = "paging" =>
       IF walk.cursor = <<>> THEN walk.result = <<>>
       ELSE /\ walk.result # <<>> /\ walk.cursor = walk.result[Len(walk.result)]
            /\ \A r \in walk.found : PairBefore(walk.cursor, r) \/ r \in ToSet(walk.result)
  /\ walk.pc = "done" => walk.found \subseteq ToSet(walk.result)

(* The fields of a walk, which every action sets together.                 *)
IsWalk(w) == w = [pc |-> w.pc, cursor |-> w.cursor, result |-> w.result, found |-> w.found]

IInv == records \subseteq Planned /\ IsWalk(walk) /\ WalkInv

LEMMA RecordsArePairs ==
  ASSUME records \subseteq Planned
  PROVE  /\ records \in SUBSET Pair /\ IsFiniteSet(records)
         /\ \A r \in Pair : r # <<>>
<1>1. Planned \subseteq Pair
  BY RecordsAssumption DEF Pair
<1>2. IsFiniteSet(records)
  BY RecordsAssumption, FS_Subset
<1>3. ASSUME NEW r \in Pair
      PROVE  r # <<>>
  <2>1. r = <<r[1], r[2]>>
    BY DEF Pair
  <2>2. Len(r) = 2
    BY <2>1
  <2> QED BY <2>2
<1> QED BY <1>1, <1>2, <1>3

LEMMA InitIInv ==
  ASSUME Init
  PROVE  IInv
BY DEF Init, IInv, IsWalk, WalkInv

LEMMA WriteStep ==
  ASSUME IInv, NEW r \in Planned, WriteRecord(r)
  PROVE  IInv'
<1>1. records' \subseteq Planned /\ records \subseteq records' /\ walk' = walk
  BY DEF WriteRecord, IInv
<1>2. ASSUME NEW s, Taken(s)
      PROVE  Taken(s)'
  BY <1>1, <1>2 DEF Taken
<1>3. PICK s : s = walk.result
  OBVIOUS
<1>4. walk.pc # "idle" => Taken(s)'
  BY <1>2, <1>3 DEF IInv, WalkInv
<1>5. walk'.pc # "idle" => Taken(walk.result)'
  BY <1>1, <1>3, <1>4 DEF Taken
<1>6. WalkInv'
  BY <1>1, <1>5 DEF IInv, WalkInv
<1> QED BY <1>1, <1>6 DEF IInv, IsWalk

LEMMA BeginStep ==
  ASSUME IInv, BeginWalk
  PROVE  IInv'
<1>1. walk' = [pc |-> "paging", cursor |-> <<>>, result |-> <<>>, found |-> records] /\ records' = records
  BY DEF BeginWalk
<1>2. Taken(<<>>)'
  BY DEF Taken
<1> QED BY <1>1, <1>2 DEF IInv, IsWalk, WalkInv

(* A page continues what was taken, and what is left comes after it.       *)
LEMMA PageContinues ==
  ASSUME NEW rows \in Seq(records), NEW result, Taken(result), NEW m \in 0..Len(rows),
         \A i, j \in 1..Len(rows) : i < j => PairBefore(rows[i], rows[j]),
         \A i \in 1..Len(result), j \in 1..Len(rows) : PairBefore(result[i], rows[j])
  PROVE  /\ Taken(result \o SubSeq(rows, 1, m))
         /\ \A r \in ToSet(result) : r \in ToSet(result \o SubSeq(rows, 1, m))
         /\ \A k \in 1..m : rows[k] \in ToSet(result \o SubSeq(rows, 1, m))
         /\ m # 0 => (result \o SubSeq(rows, 1, m))[Len(result \o SubSeq(rows, 1, m))] = rows[m]
         /\ m # 0 => result \o SubSeq(rows, 1, m) # <<>>
<1> DEFINE page == SubSeq(rows, 1, m)
           all  == result \o page
           n    == Len(result)
<1>1. page \in Seq(records) /\ Len(page) = m /\ \A j \in 1..m : page[j] = rows[j]
  OBVIOUS
<1>2. result \in Seq(records) /\ n \in Nat /\ m \in Nat
  BY DEF Taken
<1>3. /\ all \in Seq(records) /\ Len(all) = n + m
      /\ \A i \in 1..(n + m) : all[i] = IF i <= n THEN result[i] ELSE page[i - n]
  <2> HIDE DEF page
  <2> QED BY <1>1, <1>2, ConcatProperties
<1> HIDE DEF page, all, n
<1>4. \A i \in 1..n : all[i] = result[i] /\ i \in 1..(n + m)
  BY <1>2, <1>3
<1>5. ASSUME NEW j \in 1..m
      PROVE  all[n + j] = rows[j] /\ n + j \in 1..(n + m)
  <2>1. n + j \in 1..(n + m) /\ ~ (n + j <= n) /\ (n + j) - n = j
    BY <1>2
  <2>2. all[n + j] = page[(n + j) - n]
    BY <1>3, <2>1
  <2> QED BY <1>1, <2>1, <2>2
<1>6. DOMAIN all = 1..(n + m) /\ DOMAIN result = 1..n
  BY <1>2, <1>3 DEF n
<1>7. ASSUME NEW i \in 1..(n + m), NEW j \in 1..(n + m), i < j
      PROVE  PairBefore(all[i], all[j])
  <2>1. CASE j <= n
    BY <1>2, <1>4, <1>7, <2>1 DEF Taken, n
  <2>2. CASE i <= n /\ n < j
    <3>1. PICK k \in 1..m : j = n + k
      <4>1. j - n \in 1..m /\ j = n + (j - n)
        BY <1>2, <2>2
      <4> QED BY <4>1
    <3>2. i \in 1..n /\ k \in 1..Len(rows)
      BY <1>2, <2>2
    <3> QED BY <1>4, <1>5, <3>1, <3>2 DEF n
  <2>3. CASE n < i
    <3>1. PICK h \in 1..m : i = n + h
      <4>1. i - n \in 1..m /\ i = n + (i - n)
        BY <1>2, <2>3
      <4> QED BY <4>1
    <3>2. PICK k \in 1..m : j = n + k
      <4>1. j - n \in 1..m /\ j = n + (j - n)
        BY <1>2, <1>7, <2>3
      <4> QED BY <4>1
    <3>3. h \in 1..Len(rows) /\ k \in 1..Len(rows) /\ h < k
      BY <1>2, <1>7, <3>1, <3>2
    <3> QED BY <1>5, <3>1, <3>2, <3>3
  <2> QED BY <1>2, <1>7, <2>1, <2>2, <2>3
<1>8. Taken(all)
  BY <1>3, <1>7 DEF Taken
<1>9. \A r \in ToSet(result) : r \in ToSet(all)
  BY <1>4, <1>6 DEF ToSet
<1>10. \A k \in 1..m : rows[k] \in ToSet(all)
  BY <1>5, <1>6 DEF ToSet
<1>11. ASSUME m # 0
       PROVE  all[Len(all)] = rows[m] /\ all # <<>>
  BY <1>2, <1>3, <1>5, <1>11
<1> QED BY <1>8, <1>9, <1>10, <1>11 DEF all, page

LEMMA TakeStep ==
  ASSUME IInv, TakePage
  PROVE  IInv'
<1>1. PICK result, cursor, found :
        /\ result = walk.result /\ cursor = walk.cursor /\ found = walk.found
  OBVIOUS
<1> DEFINE S == {r \in records : cursor = <<>> \/ PairBefore(cursor, r)}
<1>2. PICK rows : rows = RowsAfter(cursor)
  OBVIOUS
<1>3. PICK m : m = IF Len(rows) > PageSize THEN PageSize ELSE Len(rows)
  OBVIOUS
<1>4. PICK all : all = result \o SubSeq(rows, 1, m)
  OBVIOUS
<1>5. /\ walk.pc = "paging" /\ records' = records
      /\ walk' = [pc |-> IF NextCursor(rows) = <<>> THEN "done" ELSE "paging",
                  cursor |-> NextCursor(rows), result |-> all, found |-> found]
  BY <1>1, <1>2, <1>3, <1>4 DEF TakePage, IInv, IsWalk
<1>6. /\ found \subseteq records /\ Taken(result)
      /\ IF cursor = <<>> THEN result = <<>>
         ELSE /\ result # <<>> /\ cursor = result[Len(result)]
              /\ \A r \in found : PairBefore(cursor, r) \/ r \in ToSet(result)
  BY <1>1, <1>5 DEF IInv, WalkInv
<1>7. records \in SUBSET Pair /\ IsFiniteSet(records) /\ \A r \in Pair : r # <<>>
  BY RecordsArePairs DEF IInv
<1>8. Arranges(rows, S)
  <2>1. S \in SUBSET Pair /\ IsFiniteSet(S)
    BY <1>7, FS_Subset
  <2> QED BY <1>2, <2>1, SortedArranges DEF RowsAfter
<1>9. /\ rows \in Seq(records) /\ ToSet(rows) = S /\ Len(rows) \in Nat
      /\ \A i, j \in 1..Len(rows) : i < j => PairBefore(rows[i], rows[j])
      /\ \A j \in 1..Len(rows) : rows[j] \in S
  BY <1>8 DEF Arranges
<1>10. m \in 0..Len(rows) /\ PageSize \in Nat \ {0}
  BY <1>3, <1>9, RecordsAssumption
<1>11. ASSUME NEW i \in 1..Len(result), NEW j \in 1..Len(rows)
       PROVE  PairBefore(result[i], rows[j])
  <2>1. cursor # <<>> /\ cursor = result[Len(result)] /\ PairBefore(cursor, rows[j])
    BY <1>6, <1>9
  <2>2. /\ Len(result) \in Nat /\ result[i] \in Pair /\ cursor \in Pair /\ rows[j] \in Pair
    BY <1>6, <1>7, <1>9, <2>1 DEF Taken
  <2>3. i = Len(result) \/ PairBefore(result[i], cursor)
    BY <1>6, <2>1, <2>2 DEF Taken
  <2> QED BY <2>1, <2>2, <2>3, PairTransitive
<1> HIDE DEF S
<1>12. /\ Taken(all)
       /\ \A r \in ToSet(result) : r \in ToSet(all)
       /\ \A k \in 1..m : rows[k] \in ToSet(all)
       /\ m # 0 => all # <<>> /\ all[Len(all)] = rows[m]
  BY <1>4, <1>6, <1>9, <1>10, <1>11, PageContinues
<1>13. \A r \in found : r \in ToSet(result) \/ \E k \in 1..Len(rows) : r = rows[k]
  <2> SUFFICES ASSUME NEW r \in found, r \notin ToSet(result)
               PROVE  r \in ToSet(rows)
    BY <1>9 DEF ToSet
  <2>1. r \in records /\ (cursor = <<>> \/ PairBefore(cursor, r))
    BY <1>6
  <2> QED BY <1>9, <2>1 DEF S
<1>14. Taken(all)'
  BY <1>5, <1>12 DEF Taken
<1>15. CASE Len(rows) > PageSize
  <2>1. m = PageSize /\ m # 0 /\ m \in 1..Len(rows) /\ NextCursor(rows) = rows[m]
    BY <1>3, <1>10, <1>15 DEF NextCursor
  <2>2. rows[m] # <<>>
    BY <1>7, <1>9, <2>1
  <2>3. walk' = [pc |-> "paging", cursor |-> rows[m], result |-> all, found |-> found]
    BY <1>5, <2>1, <2>2
  <2>4. \A r \in found : PairBefore(rows[m], r) \/ r \in ToSet(all)
    BY <1>9, <1>12, <1>13, <2>1
  <2> QED BY <1>5, <1>6, <1>12, <1>14, <2>1, <2>2, <2>3, <2>4 DEF IInv, IsWalk, WalkInv, Taken
<1>16. CASE Len(rows) <= PageSize
  <2>1. m = Len(rows) /\ NextCursor(rows) = <<>>
    BY <1>3, <1>9, <1>10, <1>16 DEF NextCursor
  <2>2. walk' = [pc |-> "done", cursor |-> <<>>, result |-> all, found |-> found]
    BY <1>5, <2>1
  <2>3. found \subseteq ToSet(all)
    BY <1>12, <1>13, <2>1
  <2> QED BY <1>5, <1>6, <1>14, <2>2, <2>3 DEF IInv, IsWalk, WalkInv, Taken
<1> QED BY <1>9, <1>10, <1>15, <1>16

LEMMA Invariance == Spec => []IInv
<1>1. Init => IInv
  BY InitIInv
<1>2. IInv /\ [Next]_vars => IInv'
  <2> SUFFICES ASSUME IInv, [Next]_vars
               PROVE  IInv'
    OBVIOUS
  <2>1. CASE \E r \in Planned : WriteRecord(r)
    BY <2>1, WriteStep
  <2>2. CASE BeginWalk
    BY <2>2, BeginStep
  <2>3. CASE TakePage
    BY <2>3, TakeStep
  <2>4. CASE UNCHANGED vars
    BY <2>4 DEF vars, IInv, IsWalk, WalkInv, Taken
  <2> QED BY <2>1, <2>2, <2>3, <2>4 DEF Next
<1> QED BY <1>1, <1>2, PTL DEF Spec

LEMMA WalkIsComplete ==
  ASSUME IInv
  PROVE  WalkComplete
<1> SUFFICES ASSUME walk.pc = "done"
             PROVE  WalkComplete
  BY DEF WalkComplete
<1>1. walk.found \subseteq ToSet(walk.result) /\ Taken(walk.result)
  BY DEF IInv, WalkInv
<1>2. DOMAIN walk.result = 1..Len(walk.result)
  BY <1>1 DEF Taken
<1>3. ToSet(walk.result) \subseteq records
  BY <1>1, <1>2 DEF Taken, ToSet
<1> QED BY <1>1, <1>2, <1>3 DEF WalkComplete, Taken

(* However writers interleave with the pages of candidate_records, a       *)
(* finished traversal has every row there was when it began, each once and *)
(* in key order, and no other: for any plan and any page_size.             *)
THEOREM WalkHolds == Spec => []WalkComplete
<1>1. IInv => WalkComplete
  BY WalkIsComplete
<1> QED BY <1>1, Invariance, PTL

(***************************************************************************)
(* The plan's order.                                                       *)
(***************************************************************************)

(* Where t goes on, s does too, with the same record or one before it.     *)
LEMMA NextOfArrangement ==
  ASSUME NEW S \in SUBSET Pair, NEW s, NEW t, Arranges(s, S), Arranges(t, S),
         NEW n \in Nat, n <= Len(s), n < Len(t), \A i \in 1..n : s[i] = t[i]
  PROVE  n < Len(s) /\ (s[n + 1] = t[n + 1] \/ PairBefore(s[n + 1], t[n + 1]))
<1>1. /\ Len(s) \in Nat /\ Len(t) \in Nat
      /\ \A i, j \in 1..Len(s) : i < j => PairBefore(s[i], s[j])
      /\ \A i, j \in 1..Len(t) : i < j => PairBefore(t[i], t[j])
      /\ n + 1 \in 1..Len(t) /\ t[n + 1] \in S
  BY DEF Arranges
<1>2. PICK k \in 1..Len(s) : t[n + 1] = s[k]
  <2>1. DOMAIN s = 1..Len(s) /\ t[n + 1] \in ToSet(s)
    BY <1>1 DEF Arranges
  <2> QED BY <2>1 DEF ToSet
<1>3. ~ (k <= n)
  <2> SUFFICES ASSUME k <= n
               PROVE  FALSE
    OBVIOUS
  <2>1. k \in 1..n /\ k \in 1..Len(t) /\ k < n + 1
    BY <1>1
  <2>2. PairBefore(t[k], t[n + 1]) /\ t[k] = t[n + 1]
    BY <1>1, <1>2, <2>1
  <2> QED BY <1>1, <2>2, PairIrreflexive
<1>4. n + 1 \in 1..Len(s) /\ (k = n + 1 \/ n + 1 < k)
  BY <1>1, <1>3
<1> QED BY <1>1, <1>2, <1>4

(* A set of records has one arrangement.                                   *)
LEMMA ArrangementUnique ==
  ASSUME NEW S \in SUBSET Pair, NEW s, NEW t, Arranges(s, S), Arranges(t, S)
  PROVE  s = t
<1> SUFFICES ASSUME s # t
             PROVE  FALSE
  OBVIOUS
<1>1. s \in Seq(S) /\ t \in Seq(S)
  BY DEF Arranges
<1>2. PICK n \in 0..Len(s) :
        /\ n <= Len(t) /\ \A i \in 1..n : s[i] = t[i]
        /\ \/ n = Len(s) /\ n < Len(t)
           \/ n = Len(t) /\ n < Len(s)
           \/ n < Len(s) /\ n < Len(t) /\ s[n + 1] # t[n + 1]
  BY <1>1, FirstDifference
<1>3. n \in Nat /\ n <= Len(s) /\ \A i \in 1..n : t[i] = s[i]
  BY <1>1, <1>2
<1>4. n < Len(t) => n < Len(s) /\ (s[n + 1] = t[n + 1] \/ PairBefore(s[n + 1], t[n + 1]))
  BY <1>2, <1>3, NextOfArrangement
<1>5. n < Len(s) => n < Len(t) /\ (t[n + 1] = s[n + 1] \/ PairBefore(t[n + 1], s[n + 1]))
  BY <1>2, <1>3, NextOfArrangement
<1>6. /\ n < Len(s) /\ n < Len(t)
      /\ PairBefore(s[n + 1], t[n + 1]) /\ PairBefore(t[n + 1], s[n + 1])
  BY <1>1, <1>2, <1>4, <1>5
<1>7. s[n + 1] \in Pair /\ t[n + 1] \in Pair
  BY <1>1, <1>3, <1>6
<1> QED BY <1>6, <1>7, PairTransitive, PairIrreflexive

(* Every character of an identity sorts after the "#" a key goes on with.  *)
SortsAfter(Id, suffix) ==
  /\ suffix \in Seq(Nat) /\ suffix # <<>>
  /\ \A s \in Id : \A i \in 1..Len(s) : suffix[1] < s[i]

LEMMA SuffixKeepsOrder ==
  ASSUME NEW Id \in SUBSET Seq(Nat), NEW suffix, SortsAfter(Id, suffix),
         NEW s \in Id, NEW t \in Id, Before(s, t)
  PROVE  Before(s \o suffix, t \o suffix)
<1>1. PICK n \in 0..Len(s) : /\ n < Len(t) /\ \A i \in 1..n : s[i] = t[i]
                             /\ n < Len(s) => s[n + 1] < t[n + 1]
  BY DEF Before
<1>2. /\ suffix \in Seq(Nat) /\ suffix # <<>> /\ Len(suffix) \in Nat /\ Len(suffix) >= 1
      /\ Len(s) \in Nat /\ Len(t) \in Nat
  BY DEF SortsAfter
<1>3. /\ Len(s \o suffix) = Len(s) + Len(suffix) /\ Len(t \o suffix) = Len(t) + Len(suffix)
      /\ \A i \in 1..Len(s) : (s \o suffix)[i] = s[i]
      /\ \A i \in 1..Len(t) : (t \o suffix)[i] = t[i]
  BY <1>2, ConcatProperties
<1>4. (s \o suffix)[Len(s) + 1] = suffix[1]
  BY <1>2, ConcatProperties
<1>5. n < Len(t \o suffix) /\ n \in 0..Len(s \o suffix) /\ n < Len(s \o suffix)
  BY <1>1, <1>2, <1>3
<1>6. \A i \in 1..n : (s \o suffix)[i] = (t \o suffix)[i]
  BY <1>1, <1>2, <1>3
<1>7. n + 1 \in 1..Len(t) /\ (t \o suffix)[n + 1] = t[n + 1]
  BY <1>1, <1>2, <1>3
<1>8. (s \o suffix)[n + 1] < (t \o suffix)[n + 1]
  <2>1. CASE n < Len(s)
    <3>1. (s \o suffix)[n + 1] = s[n + 1]
      BY <1>2, <1>3, <2>1
    <3> QED BY <1>1, <1>7, <2>1, <3>1
  <2>2. CASE n = Len(s)
    <3>1. (s \o suffix)[n + 1] = suffix[1]
      BY <1>4, <2>2
    <3>2. suffix[1] < t[n + 1]
      BY <1>7 DEF SortsAfter
    <3> QED BY <1>7, <3>1, <3>2
  <2> QED BY <1>1, <1>2, <2>1, <2>2
<1> QED BY <1>5, <1>6, <1>8 DEF Before

(* Then the order of the keys is the order of the identities.              *)
LEMMA KeysKeepOrder ==
  ASSUME SortsAfter(Customer, GenSuffix), SortsAfter(Feature, DefSuffix),
         NEW p \in Planned, NEW q \in Planned,
         PairBefore(<<PartitionKey(p[1]), SortKey(p[2])>>, <<PartitionKey(q[1]), SortKey(q[2])>>)
  PROVE  PairBefore(p, q)
<1>1. /\ Customer \in SUBSET Seq(Nat) /\ Feature \in SUBSET Seq(Nat)
      /\ p \in Customer \X Feature /\ q \in Customer \X Feature /\ p \in Pair /\ q \in Pair
      /\ GenSuffix \in Seq(Nat) /\ DefSuffix \in Seq(Nat)
  BY RecordsAssumption DEF Pair, SortsAfter
<1> DEFINE Key(r) == <<PartitionKey(r[1]), SortKey(r[2])>>
<1>2. Key(p) \in Pair /\ Key(q) \in Pair
  BY <1>1, ConcatProperties DEF Pair, PartitionKey, SortKey
<1>3. PairBefore(q, p) => PairBefore(Key(q), Key(p))
  <2>1. Before(q[1], p[1]) => Before(PartitionKey(q[1]), PartitionKey(p[1]))
    BY <1>1, SuffixKeepsOrder DEF PartitionKey
  <2>2. Before(q[2], p[2]) => Before(SortKey(q[2]), SortKey(p[2]))
    BY <1>1, SuffixKeepsOrder DEF SortKey
  <2> QED BY <2>1, <2>2 DEF PairBefore
<1>4. p # q
  BY <1>2, PairIrreflexive
<1>5. ~ PairBefore(q, p)
  BY <1>2, <1>3, PairTransitive, PairIrreflexive
<1> QED BY <1>1, <1>4, <1>5, PairTotal

LEMMA IdentitiesKeepOrder ==
  ASSUME SortsAfter(Customer, GenSuffix), SortsAfter(Feature, DefSuffix),
         NEW p \in Planned, NEW q \in Planned, PairBefore(p, q)
  PROVE  PairBefore(<<PartitionKey(p[1]), SortKey(p[2])>>, <<PartitionKey(q[1]), SortKey(q[2])>>)
<1>1. /\ Customer \in SUBSET Seq(Nat) /\ Feature \in SUBSET Seq(Nat)
      /\ p \in Customer \X Feature /\ q \in Customer \X Feature
  BY RecordsAssumption
<1>2. Before(p[1], q[1]) => Before(PartitionKey(p[1]), PartitionKey(q[1]))
  BY <1>1, SuffixKeepsOrder DEF PartitionKey
<1>3. Before(p[2], q[2]) => Before(SortKey(p[2]), SortKey(q[2]))
  BY <1>1, SuffixKeepsOrder DEF SortKey
<1> QED BY <1>2, <1>3 DEF PairBefore

LEMMA PlanArranges ==
  ASSUME SortsAfter(Customer, GenSuffix), SortsAfter(Feature, DefSuffix)
  PROVE  Arranges(PlanOrder, Planned)
<1> DEFINE KeyBefore(p, q) ==
      PairBefore(<<PartitionKey(p[1]), SortKey(p[2])>>, <<PartitionKey(q[1]), SortKey(q[2])>>)
<1>1. Planned \in SUBSET Pair /\ IsFiniteSet(Planned)
  BY RecordsAssumption DEF Pair
<1>2. \A s \in SetToSeqs(Planned) : \A i \in DOMAIN s : s[i] \in Planned
  BY DEF SetToSeqs
<1>3. \A p, q \in Planned : PairBefore(p, q) <=> KeyBefore(p, q)
  BY KeysKeepOrder, IdentitiesKeepOrder
<1> HIDE DEF KeyBefore
<1>4. PICK t \in SetToSeqs(Planned) : \A i, j \in DOMAIN t : i < j => KeyBefore(t[i], t[j])
  BY <1>1, <1>2, <1>3, ArrangementExists
<1>5. /\ PlanOrder \in SetToSeqs(Planned)
      /\ \A i, j \in DOMAIN PlanOrder : i < j => KeyBefore(PlanOrder[i], PlanOrder[j])
  BY <1>4 DEF PlanOrder, SortedBy, KeyBefore
<1>6. \A i, j \in DOMAIN PlanOrder : i < j => PairBefore(PlanOrder[i], PlanOrder[j])
  BY <1>2, <1>3, <1>5
<1> QED BY <1>1, <1>5, <1>6, OrderedArranges

(* The order that the run candidate_order refutes holds of identities      *)
(* without a space or another character up to "#": then the records of a   *)
(* complete candidate come in the order their plan's digest was taken in.  *)
THEOREM PlanMatched ==
  ASSUME SortsAfter(Customer, GenSuffix), SortsAfter(Feature, DefSuffix)
  PROVE  Spec => []CompleteCandidateMatchesPlan
<1>1. ASSUME IInv, walk.pc = "done", walk.found = Planned
      PROVE  walk.result = PlanOrder
  <2>1. /\ records = Planned /\ Taken(walk.result) /\ walk.found \subseteq ToSet(walk.result)
    BY <1>1 DEF IInv, WalkInv
  <2>2. ToSet(walk.result) = Planned
    BY <1>1, <2>1, WalkIsComplete DEF WalkComplete
  <2>3. Arranges(walk.result, Planned)
    BY <2>1, <2>2 DEF Taken, Arranges
  <2>4. Planned \in SUBSET Pair
    BY RecordsAssumption DEF Pair
  <2> QED BY <2>3, <2>4, PlanArranges, ArrangementUnique
<1>2. IInv => CompleteCandidateMatchesPlan
  BY <1>1 DEF CompleteCandidateMatchesPlan
<1> QED BY <1>2, Invariance, PTL

=============================================================================
