---------------------------- MODULE DiffSyncProofs ----------------------------
(***************************************************************************)
(* Proofs about DiffSync, for any finite set of ids, any page size and any *)
(* number of changes and failed calls.                                     *)
(*                                                                         *)
(* The fallback is the hard part: an offset means something else after     *)
(* every change of the server's objects.  What holds between two pages is  *)
(* that the objects that were there all along and stand before the offset  *)
(* have been received; objects that are created only move others back.     *)
(***************************************************************************)
EXTENDS DiffSync, FiniteSetTheorems, TLAPS

(* The rows received so far, and the offset: the objects before it are     *)
(* among the rows.                                                         *)
Paging ==
  /\ pc \in {"paging", "collected"} => ~hasDiff
  /\ pc = "paging" => \A i \in steady : Rank(i) < start => rows[i] # 0
  /\ FallbackComplete

(* While nothing is deleted, what the cursor knows is still there and was  *)
(* there all along.                                                        *)
Known ==
  /\ \A i \in Ids : known[i] # 0 \/ rows[i] # 0 => version[i] # 0 \/ i \in gone
  /\ steady \subseteq Existing
  /\ pc # "idle" /\ steady # {} => Held(known) \ gone \subseteq steady
  /\ dels \subseteq gone

(* A version is at most one more than the changes.                         *)
Counted == \A i \in Ids : version[i] <= edits + 1

IInv == TypeOK /\ CursorMatchesCopy /\ Paging /\ Known /\ Counted

-----------------------------------------------------------------------------
(* Places in a list of ids, in order.                                      *)

Place(S, i) == Cardinality({j \in S : j < i})

(* Two ids of a list have different places, all within its length.         *)
LEMMA PlaceFacts ==
  ASSUME NEW S \in SUBSET Nat, IsFiniteSet(S)
  PROVE  /\ \A i \in S : Place(S, i) \in Nat /\ Place(S, i) < Cardinality(S)
         /\ \A i, j \in S : i < j => Place(S, i) < Place(S, j)
         /\ \A i, j \in S : Place(S, i) = Place(S, j) => i = j
<1> DEFINE Before(i) == {j \in S : j < i}
<1>1. ASSUME NEW i \in S PROVE IsFiniteSet(Before(i)) /\ Place(S, i) \in Nat
  BY FS_Subset, FS_CardinalityType DEF Place
<1>2. ASSUME NEW i \in S PROVE Place(S, i) < Cardinality(S)
  <2>1. Before(i) \in SUBSET S /\ i \notin Before(i) /\ i \in Nat
    OBVIOUS
  <2>2. Place(S, i) <= Cardinality(S) /\ Place(S, i) # Cardinality(S)
    BY <2>1, FS_Subset DEF Place
  <2>3. Cardinality(S) \in Nat
    BY FS_CardinalityType
  <2>4. Place(S, i) \in Nat
    BY <1>1
  <2> QED
    BY <2>2, <2>3, <2>4
<1>3. ASSUME NEW i \in S, NEW j \in S, i < j PROVE Place(S, i) < Place(S, j)
  <2>1. i \in Nat /\ j \in Nat /\ \A k \in S : k \in Nat
    OBVIOUS
  <2>2. \A k \in S : k < i => k < j
    BY <1>3, <2>1
  <2>3. Before(i) \in SUBSET Before(j) /\ i \in Before(j) /\ i \notin Before(i)
    <3>1. Before(i) \subseteq Before(j)
      BY <2>2
    <3>2. i \in Before(j)
      BY <1>3
    <3>3. i \notin Before(i)
      BY <2>1
    <3> QED
      BY <3>1, <3>2, <3>3
  <2>4. Place(S, i) = Cardinality(Before(i)) /\ Place(S, j) = Cardinality(Before(j))
    BY DEF Place
  <2>5. IsFiniteSet(Before(j)) /\ Place(S, i) \in Nat /\ Place(S, j) \in Nat
    BY <1>1
  <2> HIDE DEF Before
  <2>6. Place(S, i) <= Place(S, j) /\ Place(S, i) # Place(S, j)
    BY <2>3, <2>4, <2>5, FS_Subset
  <2> QED
    BY <2>5, <2>6
<1>4. ASSUME NEW i \in S, NEW j \in S, Place(S, i) = Place(S, j) PROVE i = j
  <2>1. i \in Nat /\ j \in Nat /\ Place(S, i) \in Nat
    BY <1>1
  <2>2. ~(i < j) /\ ~(j < i)
    BY <1>3, <1>4, <2>1
  <2> QED
    BY <2>1, <2>2
<1> QED
  BY <1>1, <1>2, <1>3, <1>4

(* A window of places has no more ids than places.                         *)
LEMMA WindowSize ==
  ASSUME NEW S \in SUBSET Nat, IsFiniteSet(S), NEW lo \in Nat, NEW hi \in Nat, lo <= hi,
         NEW P \in SUBSET S,
         \A i \in P : lo <= Place(S, i) /\ Place(S, i) < hi
  PROVE  IsFiniteSet(P) /\ Cardinality(P) \in Nat /\ Cardinality(P) <= hi - lo
<1> DEFINE f == [i \in P |-> Place(S, i)]
<1>1. f \in Injection(P, lo..(hi - 1))
  BY PlaceFacts DEF Injection, IsInjective
<1>2. IsFiniteSet(lo..(hi - 1)) /\ Cardinality(lo..(hi - 1)) = hi - lo
  <2>1. lo \in Int /\ hi - 1 \in Int
    OBVIOUS
  <2>2. /\ IsFiniteSet(lo..(hi - 1))
        /\ Cardinality(lo..(hi - 1)) = IF lo > hi - 1 THEN 0 ELSE (hi - 1) - lo + 1
    BY <2>1, FS_Interval
  <2> QED
    BY <2>2
<1> HIDE DEF f
<1>3. IsFiniteSet(P) /\ Cardinality(P) <= hi - lo
  BY <1>1, <1>2, FS_Injection
<1> QED
  BY <1>3, FS_CardinalityType

(* Every place within the length is somebody's.                            *)
LEMMA PlaceTaken ==
  ASSUME NEW S \in SUBSET Nat, IsFiniteSet(S), NEW n \in Nat, n < Cardinality(S)
  PROVE  \E i \in S : Place(S, i) = n
<1> DEFINE f == [i \in S |-> Place(S, i)]
           N == Cardinality(S)
<1>1. N \in Nat
  BY FS_CardinalityType
<1>2. f \in Injection(S, 0..(N - 1))
  BY <1>1, PlaceFacts DEF Injection, IsInjective
<1>3. IsFiniteSet(0..(N - 1)) /\ Cardinality(0..(N - 1)) = N
  <2>1. 0 \in Int /\ N - 1 \in Int
    BY <1>1
  <2>2. Cardinality(0..(N - 1)) = IF 0 > N - 1 THEN 0 ELSE (N - 1) - 0 + 1
    BY <2>1, FS_Interval
  <2> HIDE DEF N
  <2> QED
    BY <1>1, <2>1, <2>2, FS_Interval
<1>4. n \in 0..(N - 1)
  BY <1>1
<1>5. f \in Surjection(S, 0..(N - 1))
  <2> HIDE DEF f
  <2> QED
    BY <1>2, <1>3, FS_Injection
<1> QED
  BY <1>4, <1>5 DEF Surjection

(* In a longer list an id's place is not an earlier one.                   *)
LEMMA PlaceMoves ==
  ASSUME NEW T \in SUBSET Nat, IsFiniteSet(T), NEW S \in SUBSET T, NEW i \in S
  PROVE  Place(S, i) <= Place(T, i)
<1>1. {j \in S : j < i} \in SUBSET {j \in T : j < i} /\ IsFiniteSet({j \in T : j < i})
  BY FS_Subset
<1> QED
  BY <1>1, FS_Subset DEF Place

(* The server's list is finite. *)
LEMMA ListFacts ==
  /\ Existing \in SUBSET Nat /\ IsFiniteSet(Existing)
  /\ Cardinality(Existing) \in Nat /\ Cardinality(Existing) <= Cardinality(Ids)
  /\ Cardinality(Ids) \in Nat /\ Limit \in Nat /\ Limit > 0
  /\ \A i : Rank(i) = Place(Existing, i)
<1>1. Existing \in SUBSET Ids /\ Ids \in SUBSET Nat /\ IsFiniteSet(Ids)
  BY DiffSyncAssumption DEF DiffSyncAssumption, Existing, Held
<1>2. IsFiniteSet(Existing) /\ Cardinality(Existing) <= Cardinality(Ids)
  BY <1>1, FS_Subset
<1> QED
  BY <1>1, <1>2, FS_CardinalityType, DiffSyncAssumption
     DEF DiffSyncAssumption, Rank, Place

(* A page has at most Limit objects and stays within the list; whoever     *)
(* stands before its end stood before its start or is on it; and the last  *)
(* page reaches the end.                                                   *)
LEMMA PageFacts ==
  ASSUME TypeOK
  PROVE  LET page == PageAt(start) IN
         /\ page \subseteq Existing
         /\ Advance(page) \in 0..Cardinality(Ids)
         /\ \A i \in Existing : Rank(i) < Advance(page) => Rank(i) < start \/ i \in page
         /\ LastPage(page) => \A i \in Existing : Rank(i) < start \/ i \in page
<1> DEFINE page == PageAt(start)
           n == Cardinality(Existing)
<1>1. start \in Nat /\ start <= Cardinality(Ids)
  BY ListFacts DEF TypeOK
<1>2. page \in SUBSET Existing
  BY DEF PageAt
<1>3. \A i \in Existing : Rank(i) \in Nat /\ Rank(i) < n
  BY ListFacts, PlaceFacts
<1>4. \A i \in page : start <= Rank(i) /\ Rank(i) < start + Limit /\ Rank(i) < n
  BY <1>2, <1>3 DEF PageAt
<1>5. Cardinality(page) \in Nat /\ Cardinality(page) <= Limit
  <2>1. /\ start + Limit \in Nat /\ start <= start + Limit
        /\ \A i \in page : start <= Place(Existing, i) /\ Place(Existing, i) < start + Limit
    BY <1>1, <1>4, ListFacts
  <2>2. Cardinality(page) \in Nat /\ Cardinality(page) <= (start + Limit) - start
    BY <1>1, <1>2, <2>1, ListFacts, WindowSize
  <2> QED
    BY <1>1, <2>2, ListFacts
<1>6. start + Cardinality(page) <= Cardinality(Ids)
  <2>1. CASE start <= n
    <3>1. \A i \in page : start <= Place(Existing, i) /\ Place(Existing, i) < n
      BY <1>4, ListFacts
    <3>2. Cardinality(page) <= n - start
      BY <1>1, <1>2, <2>1, <3>1, ListFacts, WindowSize
    <3> QED
      BY <1>1, <1>5, <3>2, ListFacts
  <2>2. CASE n < start
    <3>1. page = {}
      <4>1. ASSUME NEW i \in page PROVE FALSE
        <5>1. Rank(i) \in Nat /\ start <= Rank(i) /\ Rank(i) < n
          BY <1>2, <1>3, <1>4
        <5> QED
          BY <1>1, <2>2, <5>1, ListFacts
      <4> QED
        BY <4>1
    <3> QED
      BY <1>1, <3>1, FS_EmptySet
  <2> QED
    BY <1>1, <2>1, <2>2, ListFacts
<1>7. \A i \in Existing : Rank(i) < start + Limit => Rank(i) < start \/ i \in page
  BY <1>1, <1>3 DEF PageAt
<1>8. ASSUME LastPage(page), NEW i \in Existing PROVE Rank(i) < start \/ i \in page
  <2>1. CASE page = {}
    <3>1. ~(start < n)
      <4>1. ASSUME start < n PROVE FALSE
        <5>1. PICK j \in Existing : Place(Existing, j) = start
          BY <1>1, <4>1, ListFacts, PlaceTaken
        <5>2. j \in page
          BY <1>1, <5>1, ListFacts DEF PageAt
        <5> QED
          BY <2>1, <5>2
      <4> QED
        BY <4>1
    <3> QED
      BY <1>1, <1>3, <3>1, ListFacts
  <2>2. CASE Advance(page) >= n
    BY <1>1, <1>3, <1>5, <1>7, <2>2, ListFacts DEF Advance
  <2> QED
    BY <1>8, <2>1, <2>2 DEF LastPage
<1>9. Advance(page) \in 0..Cardinality(Ids)
  BY <1>1, <1>5, <1>6, ListFacts DEF Advance
<1>10. \A i \in Existing : Rank(i) < Advance(page) => Rank(i) < start \/ i \in page
  BY <1>1, <1>3, <1>5, <1>7, ListFacts DEF Advance
<1> HIDE DEF page
<1> QED
  BY <1>2, <1>8, <1>9, <1>10 DEF page

-----------------------------------------------------------------------------
(* The steps.                                                              *)

(* Every change is counted, and a page ends within the list.               *)
LEMMA TypeStep ==
  ASSUME TypeOK, Counted, [Next]_vars
  PROVE  TypeOK' /\ Counted'
<1> USE DiffSyncAssumption
    DEF DiffSyncAssumption, TypeOK, Counted, Versions, None, Held, Existing, serverVars
<1>0. 0 \in 0..Cardinality(Ids)
  BY ListFacts
<1>1. CASE Ask
  BY <1>1 DEF Ask
<1>2. CASE ServerDiff
  <2>1. PICK R \in SUBSET Existing : rows' = [i \in Ids |-> IF i \in R THEN version[i] ELSE 0]
    BY <1>2 DEF ServerDiff
  <2>2. rows' \in [Ids -> Versions]
    BY <2>1
  <2>3. /\ dels' \subseteq Ids /\ pc' = "answered"
        /\ UNCHANGED <<serverVars, known, copy, start, steady, faults>>
    BY <1>2 DEF ServerDiff
  <2> QED
    BY <2>2, <2>3
<1>3. CASE NoDiff
  BY <1>0, <1>3 DEF NoDiff
<1>4. CASE Page
  <2>1. start' \in 0..Cardinality(Ids)
    BY <1>4, PageFacts DEF Page
  <2>2. rows' \in [Ids -> Versions]
    BY <1>4 DEF Page
  <2>3. /\ pc' \in {"paging", "collected"}
        /\ UNCHANGED <<serverVars, known, copy, dels, steady, faults>>
    BY <1>4 DEF Page
  <2> QED
    BY <2>1, <2>2, <2>3
<1>5. CASE DecodeDiff \/ Rebuild
  <2>1. \E cursor \in [Ids -> Versions] : \E deleted : Return(cursor, deleted)
    <3>1. rows \in [Ids -> Versions] /\ Merge(known, rows, dels) \in [Ids -> Versions]
      BY DEF Merge
    <3> QED
      BY <1>5, <3>1 DEF DecodeDiff, Rebuild
  <2>2. \A deleted : Merge(copy, rows, deleted) \in [Ids -> Versions]
    BY DEF Merge
  <2> QED
    BY <1>0, <2>1, <2>2 DEF Return
<1>6. CASE CallFails
  BY <1>0, <1>6 DEF CallFails
<1>7. ASSUME NEW i \in Ids, Edit(i) PROVE TypeOK' /\ Counted'
  <2>1. /\ edits \in Nat /\ edits' = edits + 1 /\ edits' \in 0..MaxEdits
        /\ UNCHANGED <<hasDiff, pc, known, copy, rows, dels, start, faults>>
    BY <1>7 DEF Edit
  <2>2. version[i] \in Nat /\ version[i] <= edits + 1
    OBVIOUS
  <2>3. \E v \in Nat : v <= edits + 2 /\ version' = [version EXCEPT ![i] = v]
    BY <1>7, <2>1, <2>2 DEF Edit, Create, Change, Remove
  <2>4. gone' \subseteq Ids /\ steady' \subseteq Ids
    BY <1>7 DEF Edit, Create, Change, Remove
  <2>5. PICK v \in Nat : v <= edits + 2 /\ version' = [version EXCEPT ![i] = v]
    BY <2>3
  <2>6. v \in Versions /\ v <= edits' + 1
    BY <2>1, <2>5
  <2>7. version' \in [Ids -> Versions]
    BY <2>5, <2>6
  <2>8. \A j \in Ids : version'[j] <= edits' + 1
    <3>1. \A j \in Ids : version[j] \in Nat /\ version[j] <= edits + 1
      OBVIOUS
    <3>2. \A j \in Ids : version'[j] = v \/ version'[j] = version[j]
      BY <2>5
    <3> QED
      BY <2>1, <2>6, <3>1, <3>2
  <2> QED
    BY <2>1, <2>4, <2>7, <2>8
<1>8. CASE UNCHANGED vars
  BY <1>8 DEF vars
<1> QED
  BY <1>1, <1>2, <1>3, <1>4, <1>5, <1>6, <1>7, <1>8 DEF Next, Sync

(* The end of a call changes cursor and copy alike: in the fallback the    *)
(* copy that matched the old cursor becomes the rows.                      *)
LEMMA CursorStep ==
  ASSUME TypeOK, CursorMatchesCopy, [Next]_vars
  PROVE  CursorMatchesCopy'
<1> USE DEF CursorMatchesCopy
<1>1. CASE DecodeDiff
  BY <1>1 DEF DecodeDiff, Return
<1>2. CASE Rebuild
  <2>1. rows \in [Ids -> Versions] /\ known \in [Ids -> Versions]
    BY DEF TypeOK
  <2>2. Merge(known, rows, {i \in Held(known) : rows[i] = 0}) = rows
    BY <2>1 DEF Merge, Held
  <2> QED
    BY <1>2, <2>2 DEF Rebuild, Return
<1> QED
  BY <1>1, <1>2
     DEF Next, Sync, Ask, ServerDiff, NoDiff, Page, CallFails, Edit, vars, serverVars

(* What a change does to the objects there are. *)
LEMMA EditFacts ==
  ASSUME TypeOK, NEW i \in Ids, Edit(i)
  PROVE  /\ UNCHANGED <<hasDiff, pc, known, copy, rows, dels, start, faults>>
         /\ gone \subseteq gone'
         /\ \A j \in Ids : version[j] # 0 => version'[j] # 0 \/ j \in gone'
         /\ \/ steady' = {}
            \/ steady' = steady /\ gone' = gone /\ Existing \subseteq Existing'
<1>1. /\ UNCHANGED <<hasDiff, pc, known, copy, rows, dels, start, faults>>
      /\ gone \subseteq gone'
  BY DEF Edit, Create, Change, Remove
<1>2. version \in [Ids -> Versions] /\ version[i] + 1 # 0
  BY DEF TypeOK, Versions
<1>3. CASE Remove(i)
  BY <1>1, <1>2, <1>3 DEF Remove
<1>4. CASE Create(i) \/ Change(i)
  <2>1. /\ gone' = gone /\ steady' = steady
        /\ \A j \in Ids : version[j] # 0 => version'[j] # 0
    BY <1>2, <1>4 DEF Create, Change
  <2> QED
    BY <1>1, <2>1 DEF Existing, Held
<1> QED
  BY <1>3, <1>4 DEF Edit

(* Only a deletion takes an object from the consumer's sight. *)
LEMMA KnownStep ==
  ASSUME TypeOK, Known, [Next]_vars
  PROVE  Known'
<1> USE DEF Known, TypeOK, Existing, Held, serverVars
<1>1. CASE Ask
  BY <1>1 DEF Ask
<1>2. CASE ServerDiff
  <2>1. \A i \in Ids : rows'[i] = version[i] \/ rows'[i] = 0
    BY <1>2 DEF ServerDiff
  <2> QED
    BY <1>2, <2>1 DEF ServerDiff
<1>3. CASE NoDiff
  BY <1>3 DEF NoDiff, None
<1>4. CASE Page
  <2>1. \A i \in Ids : rows'[i] = version[i] \/ rows'[i] = rows[i]
    BY <1>4 DEF Page
  <2> QED
    BY <1>4, <2>1 DEF Page
<1>5. CASE DecodeDiff \/ Rebuild
  <2>1. \A i \in Ids : known'[i] # 0 => known[i] # 0 \/ rows[i] # 0
    BY <1>5 DEF DecodeDiff, Rebuild, Return, Merge
  <2>2. /\ rows' = None /\ dels' = {} /\ steady' = {} /\ UNCHANGED serverVars
    BY <1>5 DEF DecodeDiff, Rebuild, Return
  <2> QED
    BY <2>1, <2>2 DEF None
<1>6. CASE CallFails
  BY <1>6 DEF CallFails, None
<1>7. ASSUME NEW i \in Ids, Edit(i) PROVE Known'
  BY <1>7, EditFacts
<1>8. CASE UNCHANGED vars
  BY <1>8 DEF vars
<1> QED
  BY <1>1, <1>2, <1>3, <1>4, <1>5, <1>6, <1>7, <1>8 DEF Next, Sync

(* A page receives who stands between the offsets; a new object moves      *)
(* nobody forward.                                                         *)
LEMMA PagingStep ==
  ASSUME TypeOK, Known, Paging, [Next]_vars
  PROVE  Paging'
<1> USE DEF Paging, FallbackComplete, serverVars
<1>1. CASE Ask \/ ServerDiff
  BY <1>1 DEF Ask, ServerDiff
<1>2. CASE NoDiff
  <2>1. \A i : i \in Existing => ~(Rank(i) < 0)
    BY ListFacts, PlaceFacts
  <2>2. /\ version' = version /\ hasDiff' = hasDiff /\ steady' = steady /\ start' = 0
        /\ pc' = "paging" /\ ~hasDiff
    BY <1>2 DEF NoDiff
  <2>3. Existing' = Existing
    BY <2>2 DEF Existing, Held
  <2>4. \A i \in Existing : Rank(i)' = Rank(i)
    BY <2>3 DEF Rank
  <2> QED
    BY <2>1, <2>2, <2>4 DEF Known
<1>3. CASE Page
  <2> DEFINE page == PageAt(start)
  <2>1. /\ pc = "paging" /\ start' = Advance(page)
        /\ rows' = [i \in Ids |-> IF i \in page THEN version[i] ELSE rows[i]]
        /\ pc' = IF LastPage(page) THEN "collected" ELSE "paging"
        /\ version' = version /\ hasDiff' = hasDiff /\ steady' = steady
    BY <1>3 DEF Page
  <2>2. \A i \in steady : i \in Existing /\ i \in Ids /\ version[i] # 0
    BY DEF Known, Existing, Held
  <2>3. ASSUME NEW i \in steady, Rank(i) < start \/ i \in page PROVE rows'[i] # 0
    BY <2>1, <2>2, <2>3
  <2>4. \A i : Rank(i)' = Rank(i)
    BY <2>1 DEF Rank, Existing, Held
  <2>5. /\ \A i \in Existing : Rank(i) < Advance(page) => Rank(i) < start \/ i \in page
        /\ LastPage(page) => \A i \in Existing : Rank(i) < start \/ i \in page
    BY PageFacts
  <2> HIDE DEF page
  <2>6. pc' = "paging" => \A i \in steady' : Rank(i)' < start' => rows'[i] # 0
    BY <2>1, <2>2, <2>3, <2>4, <2>5
  <2>7. FallbackComplete'
    BY <2>1, <2>2, <2>3, <2>5 DEF Held
  <2> QED
    BY <2>1, <2>6, <2>7
<1>4. CASE DecodeDiff \/ Rebuild \/ CallFails
  BY <1>4 DEF DecodeDiff, Rebuild, Return, CallFails
<1>5. ASSUME NEW i \in Ids, Edit(i) PROVE Paging'
  <2>1. /\ UNCHANGED <<hasDiff, pc, rows, start>>
        /\ \/ steady' = {}
           \/ steady' = steady /\ Existing \subseteq Existing'
    BY <1>5, EditFacts
  <2>2. ASSUME steady' = steady, Existing \subseteq Existing', NEW j \in steady,
               Rank(j)' < start
        PROVE  Rank(j) < start
    <3>1. /\ Existing' \in SUBSET Nat /\ IsFiniteSet(Existing') /\ Existing \in SUBSET Nat
          /\ IsFiniteSet(Existing) /\ Rank(j) = Place(Existing, j)
          /\ Rank(j)' = Place(Existing', j) /\ start \in Nat /\ j \in Existing
      <4>1. Existing' \in SUBSET Ids /\ Ids \in SUBSET Nat /\ IsFiniteSet(Ids)
        BY DiffSyncAssumption DEF DiffSyncAssumption, Existing, Held
      <4>2. IsFiniteSet(Existing')
        BY <4>1, FS_Subset
      <4>3. Rank(j)' = Place(Existing', j)
        BY DEF Rank, Place
      <4>4. start \in Nat /\ j \in Existing
        BY ListFacts DEF TypeOK, Known
      <4> QED
        BY <4>1, <4>2, <4>3, <4>4, ListFacts
    <3>2. Place(Existing, j) <= Place(Existing', j)
      BY <2>2, <3>1, PlaceMoves
    <3>3. Place(Existing, j) \in Nat /\ Place(Existing', j) \in Nat
      BY <2>2, <3>1, PlaceFacts
    <3> QED
      BY <2>2, <3>1, <3>2, <3>3
  <2> QED
    BY <2>1, <2>2 DEF Held
<1>6. CASE UNCHANGED vars
  BY <1>6 DEF vars, Rank, Existing, Held
<1> QED
  BY <1>1, <1>2, <1>3, <1>4, <1>5, <1>6 DEF Next, Sync

(* What a call drops is gone, or somebody else's deletion hid it.          *)
LEMMA DropStep ==
  ASSUME TypeOK, CursorMatchesCopy, Paging, Known, [Next]_vars,
         NEW i \in Ids, copy[i] # 0, copy'[i] = 0
  PROVE  i \in gone \/ (~hasDiff /\ steady = {})
<1>1. CASE DecodeDiff
  <2>1. copy' = Merge(copy, rows, dels)
    BY <1>1 DEF DecodeDiff, Return
  <2>2. i \in dels
    BY <2>1 DEF Merge
  <2> QED
    BY <2>2 DEF Known
<1>2. CASE Rebuild
  <2>1. pc = "collected" /\ copy' = Merge(copy, rows, {j \in Held(known) : rows[j] = 0})
    BY <1>2 DEF Rebuild, Return
  <2>2. rows[i] = 0
    BY <2>1 DEF Merge, Held
  <2>3. i \in Held(known)
    BY DEF CursorMatchesCopy, Held
  <2>4. i \notin steady
    BY <2>1, <2>2 DEF Paging, FallbackComplete, Held
  <2> QED
    BY <2>1, <2>3, <2>4 DEF Known, Paging
<1> QED
  BY <1>1, <1>2
     DEF Next, Sync, Ask, ServerDiff, NoDiff, Page, CallFails, Edit, vars, serverVars

-----------------------------------------------------------------------------
(* IInv is an invariant. *)
LEMMA Inductive == Init /\ [][Next]_vars => []IInv
<1>1. Init => IInv
  <2> USE DiffSyncAssumption
      DEF DiffSyncAssumption, Init, None, Versions, Held, Existing
  <2>1. 0 \in 0..Cardinality(Ids)
    BY ListFacts
  <2>2. Init => TypeOK /\ Counted
    BY <2>1 DEF TypeOK, Counted
  <2>3. Init => CursorMatchesCopy /\ Paging /\ Known
    BY DEF CursorMatchesCopy, Paging, FallbackComplete, Known
  <2> QED
    BY <2>2, <2>3 DEF IInv
<1>2. IInv /\ [Next]_vars => IInv'
  BY TypeStep, CursorStep, PagingStep, KnownStep DEF IInv
<1> QED
  BY <1>1, <1>2, PTL

(* Every reachable state has the types. *)
THEOREM TypeCorrect == Spec => []TypeOK
<1>1. IInv => TypeOK
  BY DEF IInv
<1> QED
  BY <1>1, Inductive, PTL DEF Spec

(* NextCursor is what the consumer holds, after deltas, fallbacks and      *)
(* failed calls in any order.                                              *)
THEOREM CursorIsTheCopy == Spec => []CursorMatchesCopy
<1>1. IInv => CursorMatchesCopy
  BY DEF IInv
<1> QED
  BY <1>1, Inductive, PTL DEF Spec

(* However objects are created and changed between its pages, the fallback *)
(* misses none that was there all along, unless one was deleted.           *)
THEOREM FallbackMissesNothing == Spec => []FallbackComplete
<1>1. IInv => FallbackComplete
  BY DEF IInv, Paging
<1> QED
  BY <1>1, Inductive, PTL DEF Spec

(* A Diff result drops only what the server deleted, or, in the fallback,  *)
(* what a deletion during the paging hid.                                  *)
THEOREM OnlyDeletedIsDropped == Spec => DropsNeedDeletion
<1>1. IInv /\ [Next]_vars =>
        [\A i \in Ids : copy[i] # 0 /\ copy'[i] = 0 =>
           i \in gone \/ (~hasDiff /\ steady = {})]_vars
  BY DropStep DEF IInv
<1> QED
  BY <1>1, Inductive, PTL DEF Spec, DropsNeedDeletion

-----------------------------------------------------------------------------
(* Convergence, as far as it is safety.                                    *)

(* What the running call has received is what the server has: so it is for *)
(* every call during which no other client changes anything.               *)
Current ==
  /\ pc \in {"answered", "paging", "collected"} =>
       \A i \in Ids : rows[i] # 0 => rows[i] = version[i]
  /\ pc = "answered" =>
       /\ dels = Held(known) \cap gone
       /\ \/ \E i \in Changed : rows[i] # 0
          \/ \A i \in Changed : rows[i] # 0
  /\ pc = "paging" => \A i \in Existing : Rank(i) < start => rows[i] # 0
  /\ pc = "collected" => \A i \in Existing : rows[i] # 0

(* The steps until the next result.                                        *)
Steps ==
  CASE pc = "idle"   -> Cardinality(Ids) + 4
    [] pc = "asked"  -> Cardinality(Ids) + 3
    [] pc = "paging" -> Cardinality(Ids) - start + 2
    [] OTHER         -> 1

(* The objects of which the consumer has another version, or none.         *)
Wrong == {i \in Ids : copy[i] # version[i]}

(* The steps until the copy is exact, at most.                             *)
ToDo == IF Wrong = {} THEN 0 ELSE (Cardinality(Ids) + 4) * Cardinality(Wrong) + Steps

(* A call ends, its result is no step back for any object if nothing       *)
(* changed meanwhile, and such calls make the copy exact and leave it so.  *)
CatchesUp ==
  /\ [](/\ Steps \in 1..(Cardinality(Ids) + 4)
        /\ ToDo \in 0..((Cardinality(Ids) + 4) * (Cardinality(Ids) + 1)))
  /\ [][/\ Sync /\ pc # "idle" => pc' = "idle" \/ Steps' < Steps
        /\ pc' = "idle" => Current'
        /\ Sync /\ Current =>
             /\ Current'
             /\ Wrong' \subseteq Wrong
             /\ Wrong # {} => ToDo' < ToDo
        /\ CallFails => Wrong' = Wrong]_vars

(* An object that was deleted does not come back. *)
GoneForGood == \A i \in gone : version[i] = 0

LEMMA GoneStep ==
  ASSUME TypeOK, GoneForGood, [Next]_vars
  PROVE  GoneForGood'
<1> USE DEF GoneForGood, TypeOK
<1>1. CASE Sync \/ CallFails \/ UNCHANGED vars
  <2>1. UNCHANGED serverVars
    BY <1>1 DEF Sync, Ask, ServerDiff, NoDiff, Page, DecodeDiff, Rebuild, Return, CallFails, vars
  <2> QED
    BY <2>1 DEF serverVars
<1>2. ASSUME NEW i \in Ids, Edit(i) PROVE GoneForGood'
  BY <1>2 DEF Edit, Create, Change, Remove
<1> QED
  BY <1>1, <1>2 DEF Next

(* Two numbers, the first one weighed by more than the second can be. *)
LEMMA RankDrops ==
  ASSUME NEW n \in Nat, NEW w \in Nat, NEW v \in Nat, NEW s \in 1..n, NEW t \in 1..n,
         v < w \/ (v = w /\ t < s)
  PROVE  n * v + t < n * w + s
<1>1. CASE v = w /\ t < s
  BY <1>1
<1>2. CASE v < w
  <2>1. PICK d \in Nat : w = v + d + 1
    <3>1. w - v - 1 \in Nat /\ w = v + (w - v - 1) + 1
      BY <1>2
    <3> QED
      BY <3>1
  <2>2. n * w = n * v + n * d + n
    BY <2>1
  <2>3. n * v \in Nat /\ n * d \in Nat
    BY <2>1
  <2> QED
    BY <2>2, <2>3
<1> QED
  BY <1>1, <1>2

(* A set of ids is as big as a number, and smaller than one it is part of. *)
LEMMA SmallerSet ==
  ASSUME NEW A \in SUBSET Ids, NEW B \in SUBSET A
  PROVE  /\ Cardinality(A) \in 0..Cardinality(Ids) /\ Cardinality(B) \in 0..Cardinality(Ids)
         /\ B # A => Cardinality(B) < Cardinality(A)
         /\ B # {} => Cardinality(B) > 0
<1>1. IsFiniteSet(Ids) /\ IsFiniteSet(A) /\ IsFiniteSet(B) /\ B \in SUBSET Ids
  BY DiffSyncAssumption, FS_Subset DEF DiffSyncAssumption
<1>2. /\ Cardinality(Ids) \in Nat /\ Cardinality(A) \in Nat /\ Cardinality(B) \in Nat
      /\ Cardinality(A) <= Cardinality(Ids) /\ Cardinality(B) <= Cardinality(Ids)
      /\ Cardinality(B) <= Cardinality(A)
      /\ Cardinality(A) = Cardinality(B) => A = B
      /\ Cardinality(B) = 0 <=> B = {}
  BY <1>1, FS_Subset, FS_CardinalityType, FS_EmptySet
<1> QED
  BY <1>2

LEMMA StepsRange ==
  ASSUME TypeOK
  PROVE  /\ Steps \in 1..(Cardinality(Ids) + 4)
         /\ ToDo \in 0..((Cardinality(Ids) + 4) * (Cardinality(Ids) + 1))
<1> DEFINE N == Cardinality(Ids)
           W == Cardinality(Wrong)
<1>1. N \in Nat /\ start \in 0..N
  BY ListFacts DEF TypeOK
<1>2. Steps \in 1..(N + 4)
  BY <1>1 DEF Steps
<1>3. W \in 0..N
  BY SmallerSet DEF Wrong
<1>4. ToDo = IF Wrong = {} THEN 0 ELSE (N + 4) * W + Steps
  BY DEF ToDo
<1> HIDE DEF N, W
<1>5. PICK d \in Nat : N = W + d
  <2>1. N - W \in Nat /\ N = W + (N - W)
    BY <1>1, <1>3
  <2> QED
    BY <2>1
<1>6. (N + 4) * (N + 1) = (N + 4) * W + (N + 4) * d + (N + 4)
  BY <1>1, <1>3, <1>5
<1>7. (N + 4) * W \in Nat /\ (N + 4) * d \in Nat
  BY <1>1, <1>3, <1>5
<1>8. ToDo \in 0..((N + 4) * (N + 1))
  BY <1>1, <1>2, <1>4, <1>6, <1>7
<1> QED
  BY <1>2, <1>8 DEF N

(* A call that is under way comes nearer to its end, also while the        *)
(* server's objects change: each page but the last moves the offset.       *)
LEMMA CallEnds ==
  ASSUME TypeOK, TypeOK', Sync, pc # "idle"
  PROVE  pc' = "idle" \/ Steps' < Steps
<1>1. Cardinality(Ids) \in Nat /\ start \in 0..Cardinality(Ids) /\ start' \in 0..Cardinality(Ids)
  BY ListFacts DEF TypeOK
<1>2. CASE Ask
  BY <1>2 DEF Ask
<1>3. CASE ServerDiff
  BY <1>1, <1>3 DEF ServerDiff, Steps
<1>4. CASE NoDiff
  BY <1>1, <1>4 DEF NoDiff, Steps
<1>5. CASE Page
  <2> DEFINE page == PageAt(start)
  <2>1. /\ pc = "paging" /\ start' = Advance(page)
        /\ pc' = IF LastPage(page) THEN "collected" ELSE "paging"
    BY <1>5 DEF Page
  <2>2. page \in SUBSET Ids
    BY DEF PageAt, Existing, Held
  <2> HIDE DEF page
  <2>3. CASE LastPage(page)
    BY <1>1, <2>1, <2>3 DEF Steps
  <2>4. CASE ~LastPage(page)
    <3>1. page # {}
      BY <2>4 DEF LastPage
    <3>2. Cardinality(page) \in Nat /\ Cardinality(page) > 0
      BY <1>1, <2>2, <3>1, SmallerSet
    <3>3. start' > start
      BY <1>1, <2>1, <3>2 DEF Advance
    <3> QED
      BY <1>1, <2>1, <2>4, <3>3 DEF Steps
  <2> QED
    BY <2>3, <2>4
<1>6. CASE DecodeDiff \/ Rebuild
  BY <1>6 DEF DecodeDiff, Rebuild, Return
<1> QED
  BY <1>2, <1>3, <1>4, <1>5, <1>6 DEF Sync

(* What a call received stays current while it goes on. *)
LEMMA CurrentStep ==
  ASSUME TypeOK, Current, Sync
  PROVE  Current'
<1> USE DEF TypeOK, serverVars
<1>1. CASE Ask
  BY <1>1 DEF Ask, Current
<1>2. CASE ServerDiff
  <2>1. PICK R \in SUBSET Existing :
          /\ \/ R \subseteq Changed /\ Cardinality(R) = Limit
             \/ R \in {Changed, Existing}
          /\ rows' = [i \in Ids |-> IF i \in R THEN version[i] ELSE 0]
    BY <1>2 DEF ServerDiff
  <2>2. /\ version' = version /\ known' = known /\ gone' = gone /\ pc' = "answered"
        /\ dels' = Held(known) \cap gone
    BY <1>2 DEF ServerDiff
  <2>3. R \subseteq Ids /\ Changed \subseteq Existing /\ \A i \in R : version[i] # 0
    BY DEF Existing, Held, Changed
  <2>4. \A i \in R : rows'[i] # 0
    BY <2>1, <2>3
  <2>5. (\E i \in Changed : rows'[i] # 0) \/ (\A i \in Changed : rows'[i] # 0)
    <3>1. CASE R \subseteq Changed /\ Cardinality(R) = Limit
      <4>1. R # {}
        BY <3>1, FS_EmptySet, ListFacts
      <4> QED
        BY <2>4, <3>1, <4>1
    <3>2. CASE R \in {Changed, Existing}
      BY <2>3, <2>4, <3>2
    <3> QED
      BY <2>1, <3>1, <3>2
  <2>6. Changed' = Changed
    BY <2>2 DEF Changed, Existing, Held
  <2>7. \A i \in Ids : rows'[i] # 0 => rows'[i] = version'[i]
    BY <2>1, <2>2
  <2>8. dels' = Held(known') \cap gone'
    BY <2>2
  <2> QED
    BY <2>2, <2>5, <2>6, <2>7, <2>8 DEF Current, Held
<1>3. CASE NoDiff
  <2>1. \A i \in Existing : ~(Rank(i) < 0)
    BY ListFacts, PlaceFacts
  <2>2. /\ version' = version /\ start' = 0 /\ pc' = "paging" /\ rows' = None
    BY <1>3 DEF NoDiff
  <2>3. Existing' = Existing /\ \A i : Rank(i)' = Rank(i)
    BY <2>2 DEF Existing, Held, Rank
  <2> QED
    BY <2>1, <2>2, <2>3 DEF Current, None
<1>4. CASE Page
  <2> DEFINE page == PageAt(start)
  <2>1. /\ pc = "paging" /\ start' = Advance(page)
        /\ rows' = [i \in Ids |-> IF i \in page THEN version[i] ELSE rows[i]]
        /\ pc' = IF LastPage(page) THEN "collected" ELSE "paging"
        /\ version' = version
    BY <1>4 DEF Page
  <2>2. /\ \A i \in Existing : Rank(i) < Advance(page) => Rank(i) < start \/ i \in page
        /\ LastPage(page) => \A i \in Existing : Rank(i) < start \/ i \in page
    BY PageFacts
  <2>3. \A i \in Existing : i \in Ids /\ version[i] # 0
    BY DEF Existing, Held
  <2>4. Existing' = Existing /\ \A i : Rank(i)' = Rank(i)
    BY <2>1 DEF Existing, Held, Rank
  <2> HIDE DEF page
  <2>5. /\ \A i \in Ids : rows[i] # 0 => rows[i] = version[i]
        /\ \A i \in Existing : Rank(i) < start => rows[i] # 0
    BY <2>1 DEF Current
  <2>6. \A i \in Ids : rows'[i] # 0 => rows'[i] = version'[i]
    BY <2>1, <2>5
  <2>7. ASSUME NEW i \in Existing, Rank(i) < start \/ i \in page PROVE rows'[i] # 0
    BY <2>1, <2>3, <2>5, <2>7
  <2>8. pc' = "paging" => \A i \in Existing' : Rank(i)' < start' => rows'[i] # 0
    BY <2>1, <2>2, <2>4, <2>7
  <2>9. pc' = "collected" => \A i \in Existing' : rows'[i] # 0
    BY <2>1, <2>2, <2>4, <2>7
  <2> QED
    BY <2>1, <2>6, <2>8, <2>9 DEF Current
<1>5. CASE DecodeDiff \/ Rebuild
  BY <1>5 DEF DecodeDiff, Rebuild, Return, Current
<1> QED
  BY <1>1, <1>2, <1>3, <1>4, <1>5 DEF Sync

(* A delta that is current takes no object back and, unless the copy is    *)
(* exact, brings one up to date; a fallback that is current brings all.    *)
LEMMA ResultHelps ==
  ASSUME IInv, GoneForGood, Current, DecodeDiff \/ Rebuild
  PROVE  Wrong' \subseteq Wrong /\ (Wrong # {} => Wrong' # Wrong)
<1> USE DEF IInv, TypeOK
<1>1. /\ version' = version /\ known = copy
      /\ \A i \in Ids : known[i] # 0 => version[i] # 0 \/ i \in gone
      /\ \A i \in gone : version[i] = 0
  BY DEF DecodeDiff, Rebuild, Return, serverVars, CursorMatchesCopy, Known, GoneForGood
<1>2. CASE DecodeDiff
  <2>1. pc = "answered" /\ copy' = Merge(copy, rows, dels)
    BY <1>2 DEF DecodeDiff, Return
  <2>2. /\ dels = Held(known) \cap gone
        /\ \A i \in Ids : rows[i] # 0 => rows[i] = version[i]
        /\ (\E i \in Changed : rows[i] # 0) \/ (\A i \in Changed : rows[i] # 0)
    BY <2>1 DEF Current
  <2>3. \A i \in Ids : i \in dels => version[i] = 0
    BY <1>1, <2>2
  <2>4. ASSUME NEW i \in Ids
        PROVE  /\ i \in dels => copy'[i] = version[i]
               /\ rows[i] # 0 => copy'[i] = version[i]
               /\ copy'[i] = version[i] \/ copy'[i] = copy[i]
    <3>1. copy'[i] = CASE i \in dels -> 0
                      [] i \notin dels /\ rows[i] # 0 -> rows[i]
                      [] OTHER -> copy[i]
      BY <2>1 DEF Merge
    <3> QED
      BY <2>2, <2>3, <3>1
  <2>5. Wrong' \subseteq Wrong
    BY <1>1, <2>4 DEF Wrong
  <2>6. ASSUME Wrong # {} PROVE \E i \in Wrong : i \in dels \/ rows[i] # 0
    <3>1. PICK j \in Ids : copy[j] # version[j]
      BY <2>6 DEF Wrong
    <3>2. CASE \E i \in Changed : rows[i] # 0
      BY <1>1, <3>2 DEF Changed, Existing, Held, Wrong
    <3>3. CASE \A i \in Changed : rows[i] # 0
      <4>1. CASE version[j] # 0
        BY <1>1, <3>1, <3>3, <4>1 DEF Changed, Existing, Held, Wrong
      <4>2. CASE version[j] = 0
        BY <1>1, <2>2, <3>1, <4>2 DEF Held, Wrong
      <4> QED
        BY <4>1, <4>2
    <3> QED
      BY <2>2, <3>2, <3>3
  <2>7. ASSUME Wrong # {} PROVE Wrong' # Wrong
    <3>1. PICK i \in Wrong : i \in dels \/ rows[i] # 0
      BY <2>6, <2>7
    <3>2. i \in Ids /\ i \notin Wrong'
      BY <1>1, <2>4, <3>1 DEF Wrong
    <3> QED
      BY <3>1, <3>2
  <2> QED
    BY <2>5, <2>7
<1>3. CASE Rebuild
  <2> DEFINE lost == {i \in Held(known) : rows[i] = 0}
  <2>1. pc = "collected" /\ copy' = Merge(copy, rows, lost)
    BY <1>3 DEF Rebuild, Return
  <2>2. \A i \in Ids : rows[i] = version[i]
    BY <2>1 DEF Current, Existing, Held
  <2>3. ASSUME NEW i \in Ids PROVE copy'[i] = version[i]
    <3>1. copy'[i] = CASE i \in lost -> 0
                      [] i \notin lost /\ rows[i] # 0 -> rows[i]
                      [] OTHER -> copy[i]
      BY <2>1 DEF Merge
    <3>2. i \in lost <=> known[i] # 0 /\ rows[i] = 0
      BY DEF Held
    <3> QED
      BY <1>1, <2>2, <3>1, <3>2
  <2>4. Wrong' = {}
    BY <1>1, <2>3 DEF Wrong
  <2> QED
    BY <2>4
<1> QED
  BY <1>2, <1>3

(* The safety core of Converges, for any objects, page size and history of *)
(* changes and failures: when other clients and faults rest, the running   *)
(* call ends, and calls from then on make the copy exact, one object at a  *)
(* time at least, in at most (n + 4) * (n + 1) steps, n being the number   *)
(* of ids.                                                                 *)
THEOREM CallsCatchUp == Spec => CatchesUp
<1>1. Init => GoneForGood
  BY DEF Init, GoneForGood
<1>2. IInv => /\ Steps \in 1..(Cardinality(Ids) + 4)
              /\ ToDo \in 0..((Cardinality(Ids) + 4) * (Cardinality(Ids) + 1))
  BY StepsRange DEF IInv
<1>3. IInv /\ GoneForGood /\ [Next]_vars => GoneForGood'
  BY GoneStep DEF IInv
<1>4. IInv /\ IInv' /\ GoneForGood /\ [Next]_vars =>
        [/\ Sync /\ pc # "idle" => pc' = "idle" \/ Steps' < Steps
         /\ pc' = "idle" => Current'
         /\ Sync /\ Current =>
              /\ Current'
              /\ Wrong' \subseteq Wrong
              /\ Wrong # {} => ToDo' < ToDo
         /\ CallFails => Wrong' = Wrong]_vars
  <2> SUFFICES ASSUME IInv, IInv', GoneForGood
               PROVE  /\ Sync /\ pc # "idle" => pc' = "idle" \/ Steps' < Steps
                      /\ pc' = "idle" => Current'
                      /\ Sync /\ Current =>
                           /\ Current'
                           /\ Wrong' \subseteq Wrong
                           /\ Wrong # {} => ToDo' < ToDo
                      /\ CallFails => Wrong' = Wrong
    OBVIOUS
  <2>1. TypeOK /\ TypeOK'
    BY DEF IInv
  <2>2. Sync /\ pc # "idle" => pc' = "idle" \/ Steps' < Steps
    BY <2>1, CallEnds
  <2>3. pc' = "idle" => Current'
    BY DEF Current
  <2>4. CallFails => Wrong' = Wrong
    BY DEF CallFails, serverVars, Wrong
  <2>5. ASSUME Sync, Current
        PROVE  /\ Wrong' \subseteq Wrong
               /\ Wrong # {} => Wrong' # Wrong \/ (Wrong' = Wrong /\ Steps' < Steps)
    <3>1. CASE DecodeDiff \/ Rebuild
      BY <2>5, <3>1, ResultHelps
    <3>2. CASE Ask
      <4>1. pc = "idle" /\ pc' = "asked" /\ Wrong' = Wrong
        BY <3>2 DEF Ask, serverVars, Wrong
      <4>2. Steps = Cardinality(Ids) + 4 /\ Steps' = Cardinality(Ids) + 3
        BY <4>1 DEF Steps
      <4> QED
        BY <4>1, <4>2, ListFacts
    <3>3. CASE ServerDiff \/ NoDiff \/ Page
      <4>1. Wrong' = Wrong /\ pc # "idle" /\ pc' # "idle"
        BY <3>3 DEF ServerDiff, NoDiff, Page, serverVars, Wrong
      <4> QED
        BY <2>2, <2>5, <4>1
    <3> QED
      BY <2>5, <3>1, <3>2, <3>3 DEF Sync
  <2>6. ASSUME Sync, Current, Wrong # {} PROVE ToDo' < ToDo
    <3> DEFINE n == Cardinality(Ids) + 4
    <3>1. n \in Nat /\ Steps \in 1..n /\ Steps' \in 1..n
      <4>1. start' \in 0..Cardinality(Ids) /\ Cardinality(Ids) \in Nat
        BY <2>1, ListFacts DEF TypeOK
      <4>2. Steps' \in 1..n
        BY <4>1 DEF Steps
      <4> QED
        BY <2>1, <4>1, <4>2, StepsRange
    <3>2. /\ Cardinality(Wrong) \in Nat /\ Cardinality(Wrong') \in Nat
          /\ Cardinality(Wrong) > 0
          /\ Wrong' # Wrong => Cardinality(Wrong') < Cardinality(Wrong)
      <4>1. Wrong \in SUBSET Ids /\ Wrong' \in SUBSET Wrong
        BY <2>5, <2>6 DEF Wrong
      <4> QED
        BY <2>6, <4>1, SmallerSet, ListFacts
    <3>3. ToDo = n * Cardinality(Wrong) + Steps
      BY <2>6 DEF ToDo
    <3>4. ToDo' = IF Wrong' = {} THEN 0 ELSE n * Cardinality(Wrong') + Steps'
      BY DEF ToDo
    <3> HIDE DEF n
    <3>5. n * Cardinality(Wrong') + Steps' < n * Cardinality(Wrong) + Steps
      BY <2>5, <2>6, <3>1, <3>2, RankDrops
    <3>6. n * Cardinality(Wrong) \in Nat
      BY <3>1, <3>2
    <3> QED
      BY <3>1, <3>3, <3>4, <3>5, <3>6
  <2> QED
    BY <2>1, <2>2, <2>3, <2>4, <2>5, <2>6, CurrentStep
<1> QED
  BY <1>1, <1>2, <1>3, <1>4, Inductive, PTL DEF Spec, CatchesUp

=============================================================================
