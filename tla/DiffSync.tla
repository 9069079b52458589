------------------------------ MODULE DiffSync ------------------------------
(***************************************************************************)
(* Delta sync of one kind of entity: restService.Diff with decodeDiff      *)
(* (src/fileee/service.go, query.go), and the fallback of                  *)
(* documentTypeService.Diff, which pages through Query when the resource   *)
(* has no diff endpoint (documenttypes.go).  The server changes its        *)
(* objects at any time, also between the pages of one call.                *)
(*                                                                         *)
(* Consumer and server are external.  The consumer does what docs/API.md   *)
(* section 3.1 asks for: it keeps a copy, upserts the rows, removes the    *)
(* deleted ids and passes NextCursor to the next call.                     *)
(***************************************************************************)
EXTENDS Naturals, FiniteSets

CONSTANTS
  Ids,         \* ids in the order in which the server lists them
  Initial,     \* the objects there are at first
  Limit,       \* defaultPageLimit
  MaxEdits,    \* bound on the server's changes
  MaxFaults    \* bound on the calls that fail

ASSUME DiffSyncAssumption ==
  /\ Ids \subseteq Nat /\ IsFiniteSet(Ids)
  /\ Initial \subseteq Ids
  /\ Limit \in Nat \ {0}
  /\ MaxEdits \in Nat /\ MaxFaults \in Nat

VARIABLES
  version,     \* version[i]: the server's version of object i, 0 if none
  gone,        \* objects the server deleted: ids are never used again
  edits,       \* number of changes so far
  hasDiff,     \* the resource has a diff endpoint
  pc,          \* where the consumer's call is
  known,       \* the cursor's Known, 0 for ids that are not in it
  copy,        \* the versions the consumer holds
  rows,        \* rows[i]: version of i among the rows received, 0 if none
  dels,        \* idsToDelete of the diff response
  start,       \* offset of the next page
  steady,      \* history: ids present since the call began, while no object
               \* was deleted during the call
  faults       \* number of calls that failed

serverVars == <<version, gone, edits, hasDiff>>
vars == <<serverVars, pc, known, copy, rows, dels, start, steady, faults>>

Versions == 0..(MaxEdits + 1)
None == [i \in Ids |-> 0]
Held(f) == {i \in Ids : f[i] # 0}
Existing == Held(version)

TypeOK ==
  /\ version \in [Ids -> Versions]
  /\ gone \subseteq Ids
  /\ edits \in 0..MaxEdits
  /\ hasDiff \in BOOLEAN
  /\ pc \in {"idle", "asked", "answered", "paging", "collected"}
  /\ known \in [Ids -> Versions]
  /\ copy \in [Ids -> Versions]
  /\ rows \in [Ids -> Versions]
  /\ dels \subseteq Ids
  /\ start \in 0..Cardinality(Ids)
  /\ steady \subseteq Ids
  /\ faults \in 0..MaxFaults

Init ==
  /\ version = [i \in Ids |-> IF i \in Initial THEN 1 ELSE 0]
  /\ gone = {}
  /\ edits = 0
  /\ hasDiff \in BOOLEAN
  /\ pc = "idle"
  /\ known = None
  /\ copy = None
  /\ rows = None
  /\ dels = {}
  /\ start = 0
  /\ steady = {}
  /\ faults = 0

-----------------------------------------------------------------------------
(* One call of Diff.                                                       *)

(* The consumer calls Diff: the cursor goes out as localResults.           *)
Ask ==
  /\ pc = "idle"
  /\ pc' = "asked"
  /\ steady' = Existing
  /\ UNCHANGED <<serverVars, known, copy, rows, dels, start, faults>>

(* Objects that are new to the cursor or have another version there.       *)
Changed == {i \in Existing : version[i] # known[i]}

(* The diff endpoint: one page of the changed objects, or a snapshot if    *)
(* all objects fit into one page; and the known ids that are gone.         *)
ServerDiff ==
  /\ pc = "asked"
  /\ hasDiff
  /\ \E R \in SUBSET Existing :
       /\ Cardinality(R) <= Limit
       /\ \/ R \subseteq Changed /\ Cardinality(R) = Limit
          \/ R \in {Changed, Existing}
       /\ rows' = [i \in Ids |-> IF i \in R THEN version[i] ELSE 0]
  /\ dels' = Held(known) \cap gone
  /\ pc' = "answered"
  /\ UNCHANGED <<serverVars, known, copy, start, steady, faults>>

(* A 404 or 405 from the diff endpoint: queryFallbackDiff starts paging.   *)
NoDiff ==
  /\ pc = "asked"
  /\ ~hasDiff
  /\ rows' = None
  /\ start' = 0
  /\ pc' = "paging"
  /\ UNCHANGED <<serverVars, known, copy, dels, steady, faults>>

Rank(i) == Cardinality({j \in Existing : j < i})
PageAt(s) == {i \in Existing : s <= Rank(i) /\ Rank(i) < s + Limit}

(* The offset advanced by the limit, not by the rows received.             *)
Faulty_Advance(page) == start + Limit

Advance(page) == start + Cardinality(page)

(* The loop left one row early.                                            *)
Faulty_LastPage(page) == start + Cardinality(page) + 1 >= Cardinality(Existing)

(* Nothing received, or as much as the page's TotalRows.                   *)
LastPage(page) == page = {} \/ Advance(page) >= Cardinality(Existing)

(* One round of queryAllPages: a page of the objects there are now; a row  *)
(* received twice counts with its later version.                           *)
Page ==
  /\ pc = "paging"
  /\ LET page == PageAt(start) IN
       /\ rows' = [i \in Ids |-> IF i \in page THEN version[i] ELSE rows[i]]
       /\ start' = Advance(page)
       /\ pc' = IF LastPage(page) THEN "collected" ELSE "paging"
  /\ UNCHANGED <<serverVars, known, copy, dels, steady, faults>>

(* Rows first, then deletions: decodeDiff on the cursor, and the consumer  *)
(* on its copy.                                                            *)
Merge(f, new, deleted) ==
  [i \in Ids |-> CASE i \in deleted -> 0
                   [] i \notin deleted /\ new[i] # 0 -> new[i]
                   [] OTHER -> f[i]]

Return(cursor, deleted) ==
  /\ known' = cursor
  /\ copy' = Merge(copy, rows, deleted)
  /\ rows' = None
  /\ dels' = {}
  /\ start' = 0
  /\ steady' = {}
  /\ pc' = "idle"
  /\ UNCHANGED <<serverVars, faults>>

(* idsToDelete handed to the consumer but left in the cursor.              *)
Faulty_DecodeDiff ==
  /\ pc = "answered"
  /\ Return(Merge(known, rows, {}), dels)

DecodeDiff ==
  /\ pc = "answered"
  /\ Return(Merge(known, rows, dels), dels)

(* No deletions reported by the fallback.                                  *)
Faulty_Rebuild ==
  /\ pc = "collected"
  /\ Return(rows, {})

(* The end of queryFallbackDiff: a new cursor from the rows; what was      *)
(* known and is not among them counts as deleted.                          *)
Rebuild ==
  /\ pc = "collected"
  /\ Return(rows, {i \in Held(known) : rows[i] = 0})

(* Session, network, status or decoding errors end the call without a      *)
(* result: the consumer keeps its cursor.                                  *)
CallFails ==
  /\ pc # "idle"
  /\ faults < MaxFaults
  /\ faults' = faults + 1
  /\ pc' = "idle"
  /\ rows' = None /\ dels' = {} /\ start' = 0 /\ steady' = {}
  /\ UNCHANGED <<serverVars, known, copy>>

-----------------------------------------------------------------------------
(* Other clients change the server's objects.                              *)

Create(i) ==
  /\ version[i] = 0 /\ i \notin gone
  /\ version' = [version EXCEPT ![i] = 1]
  /\ UNCHANGED <<gone, steady>>

Change(i) ==
  /\ version[i] # 0
  /\ version' = [version EXCEPT ![i] = @ + 1]
  /\ UNCHANGED <<gone, steady>>

Remove(i) ==
  /\ version[i] # 0
  /\ version' = [version EXCEPT ![i] = 0]
  /\ gone' = gone \cup {i}
  /\ steady' = {}

Edit(i) ==
  /\ edits < MaxEdits
  /\ edits' = edits + 1
  /\ Create(i) \/ Change(i) \/ Remove(i)
  /\ UNCHANGED <<hasDiff, pc, known, copy, rows, dels, start, faults>>

Sync == Ask \/ ServerDiff \/ NoDiff \/ Page \/ DecodeDiff \/ Rebuild

Next == Sync \/ CallFails \/ \E i \in Ids : Edit(i)

(* The consumer polls and its calls end.                                   *)
Spec == Init /\ [][Next]_vars /\ WF_vars(Sync)

-----------------------------------------------------------------------------
(* Properties.                                                             *)

(* NextCursor stands for exactly what the consumer was handed, so that the *)
(* server's next delta is relative to the consumer's copy.                 *)
CursorMatchesCopy == known = copy

(* Pages shift while objects are created and changed, yet the fallback     *)
(* finds every object that was there all along; only a deletion during the *)
(* call may hide one.                                                      *)
FallbackComplete == pc = "collected" => steady \subseteq Held(rows)

(* The consumer is told to drop an object only if the server deleted it;   *)
(* in the fallback also if another object was deleted during the call.     *)
DropsNeedDeletion ==
  [][\A i \in Ids :
       copy[i] # 0 /\ copy'[i] = 0 =>
         i \in gone \/ (~hasDiff /\ steady = {})]_vars

(* When the server's objects come to rest the consumer ends with an exact  *)
(* copy, also after failed calls, truncated pages and false deletions.     *)
Converges == <>[](copy = version)

=============================================================================
