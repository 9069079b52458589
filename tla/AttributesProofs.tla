--------------------------- MODULE AttributesProofs ---------------------------
(***************************************************************************)
(* Proofs about Attributes, for any number of edits and for documents with *)
(* any number of attributes: Init begins with at most two of them, so that *)
(* TLC can enumerate the documents; nothing here needs that.               *)
(*                                                                         *)
(* The properties compare what the caller holds with what the server has.  *)
(* Between a Get and an Update the two drift apart field by field; IInv    *)
(* says that they differ nowhere but in the fields the caller set, and     *)
(* that no Update leaves a form of an attribute the library cannot read    *)
(* back as it wrote it.                                                    *)
(***************************************************************************)
EXTENDS Attributes, TLAPS

(* The attributes of a document as the server may send them.               *)
Documents == {d \in [Keys -> UNION {Wire(k) \cup {Missing} : k \in Keys}] :
                \A k \in Keys : d[k] \in Wire(k) \cup {Missing}}

AnyInit ==
  /\ attrs \in Documents
  /\ merges \in BOOLEAN
  /\ copy = UnmarshalJSON(attrs)
  /\ edited = {}
  /\ edits = 0

(* The caller and the server, from any document.                           *)
AnySpec == AnyInit /\ [][Next]_vars

(* What the server may hold for a key: what it sent, nothing, or a simple  *)
(* value as MarshalJSON writes it.                                         *)
Canonical == {Wrapper("plain", v, "none") : v \in 1..4}

Stored(k) ==
  Wire(k) \cup {Missing} \cup (IF k \in Simple THEN Canonical ELSE {})

(* What a simple field may hold: a time of day only in a date.             *)
Fields(k) == (0..4) \cup (IF k = "invoiceDate" THEN {Hours + 1, Hours + 2} ELSE {})

Typed ==
  /\ attrs = [k \in Keys |-> attrs[k]]
  /\ \A k \in Keys : attrs[k] \in Stored(k)
  /\ copy = [typed |-> copy.typed, RawExtra |-> copy.RawExtra]
  /\ copy.typed = [k \in Simple \cup Groups |-> copy.typed[k]]
  /\ \A k \in Simple : copy.typed[k] \in Fields(k)
  /\ merges \in BOOLEAN
  /\ edited \subseteq Simple \cup Groups
  /\ edits \in 0..MaxEdits

(* The copy is the server's attributes but for the fields that were set.   *)
InStep ==
  LET read == UnmarshalJSON(attrs) IN
  /\ copy.RawExtra = read.RawExtra
  /\ \A k \in (Simple \cup Groups) \ edited : copy.typed[k] = read.typed[k]

IInv == Typed /\ InStep
-----------------------------------------------------------------------------
(* Attributes and fields.                                                  *)

(* The forms of a simple attribute, and the values each of them may have. *)
LEMMA SimpleForms ==
  ASSUME NEW k \in Simple, NEW w \in Stored(k)
  PROVE  /\ w.repr \in {"plain", "quoted", "fraction", "datetime", "mixed",
                        "null", "junk", "odd", "missing"}
         /\ w.repr \in {"plain", "quoted", "fraction"} => w.value \in 0..4
         /\ w.repr = "datetime" =>
              k = "invoiceDate" /\ w.value \in {Hours + 1, Hours + 2}
         /\ w.repr = "mixed" => w.value \in {1, 2}
         /\ w.repr = "missing" => w = Missing
<1>1. k \notin Groups
  BY DEF Simple, Groups
<1>2. ASSUME NEW r \in Reprs(k), NEW v \in Written(k, r)
      PROVE  /\ r \in {"plain", "quoted", "fraction", "datetime", "mixed",
                        "null", "junk", "odd"}
             /\ r \in {"plain", "quoted", "fraction"} => v \in 0..4
             /\ r = "datetime" => k = "invoiceDate" /\ v \in {Hours + 1, Hours + 2}
             /\ r = "mixed" => v \in {1, 2}
  BY <1>2 DEF Reprs, Written, Simple, Hours
<1>3. CASE w \in Wire(k)
  <2>1. PICK r \in Reprs(k) : \E v \in Written(k, r) : w = Wrapper(r, v, "SYSTEM")
    BY <1>1, <1>3 DEF Wire
  <2>2. PICK v \in Written(k, r) : w = Wrapper(r, v, "SYSTEM")
    BY <2>1
  <2> QED
    BY <1>2, <2>2 DEF Wrapper
<1>4. CASE w = Missing
  BY <1>4 DEF Missing, Wrapper
<1>5. CASE w \in Canonical
  BY <1>5 DEF Canonical, Wrapper
<1> QED
  BY <1>3, <1>4, <1>5 DEF Stored

(* A group's fields are read alike, flat or as a wrapper; what has no data *)
(* is a group of zeros.                                                    *)
LEMMA GroupForms ==
  ASSUME NEW k \in Keys \ Simple, NEW w \in Stored(k)
  PROVE  /\ FieldValue(w.data.currency) = w.data.currency.value
         /\ FieldValue(w.data.value) = w.data.value.value
<1>1. FieldValue(NoField) = NoField.value
  BY DEF FieldValue, NoField, unwrapNestedValue
<1>2. ASSUME NEW f \in Field PROVE FieldValue(f) = f.value
  BY DEF Field, FieldValue, unwrapNestedValue
<1>3. ASSUME NEW d \in GroupData
      PROVE  /\ FieldValue(d.currency) = d.currency.value
             /\ FieldValue(d.value) = d.value.value
  <2>1. d.currency \in Field \cup {NoField}
    BY DEF GroupData
  <2>2. d.value = NoField \/ d.value = [nested |-> TRUE, repr |-> "plain", value |-> 1]
    BY DEF GroupData
  <2>3. FieldValue(d.value) = d.value.value
    BY <2>2, <1>1 DEF FieldValue, unwrapNestedValue
  <2> QED
    BY <2>1, <2>3, <1>1, <1>2
<1>4. CASE w.data = NoData
  BY <1>1, <1>4 DEF NoData
<1>5. CASE w.data # NoData
  <2>1. k \in Groups \/ k = "autoProcessingStatus"
    BY DEF Keys
  <2>2. w # Missing
    BY <1>5 DEF Missing, Wrapper
  <2>3. w \in Wire(k)
    BY <2>2 DEF Stored
  <2>4. \A r, v : w # Wrapper(r, v, "SYSTEM")
    BY <1>5 DEF Wrapper
  <2>5. PICK d \in GroupData : w = Group(d, "SYSTEM")
    BY <2>3, <2>4 DEF Wire
  <2> QED
    BY <1>3, <2>5 DEF Group
<1> QED
  BY <1>4, <1>5

(* What a simple attribute is decoded to fits its field. *)
LEMMA DecodedFits ==
  ASSUME NEW k \in Simple, NEW w \in Stored(k)
  PROVE  /\ Decoded(w) \in Fields(k)
         /\ w.repr # "mixed" => Day(Decoded(w)) = Meaning(w)
         /\ w.repr \in {"odd", "missing"} => Decoded(w) = 0
BY SimpleForms DEF Decoded, Fields, Holed, Hours, Day, Meaning

(* What MarshalJSON writes for a simple field is the day, as a plain value *)
(* that no other form can be taken for.                                    *)
LEMMA EncodedFits ==
  ASSUME NEW k \in Simple, NEW v \in Fields(k), v # 0
  PROVE  /\ Encoded(k, v) \in Canonical
         /\ Encoded(k, v) # Missing
         /\ Encoded(k, v).repr = "plain"
         /\ Encoded(k, v).value = Day(v)
         /\ Day(Day(v)) = Day(v)
<1>1. Encoded(k, v) = Wrapper("plain", Day(v), "none") /\ Day(v) \in 1..4
  BY DEF Encoded, Fields, Format, Hours, Day
<1> QED
  BY <1>1 DEF Canonical, Wrapper, Missing, Day, Hours

-----------------------------------------------------------------------------
(* Documents.                                                              *)

(* What UnmarshalJSON returns for a document the server holds. *)
LEMMA Unmarshalled ==
  ASSUME NEW data, \A k \in Keys : data[k] \in Stored(k)
  PROVE  LET d == UnmarshalJSON(data) IN
         /\ d = [typed |-> d.typed, RawExtra |-> d.RawExtra]
         /\ d.typed = [k \in Simple \cup Groups |-> d.typed[k]]
         /\ \A k \in Simple :
              /\ d.typed[k] = Decoded(data[k])
              /\ d.typed[k] \in Fields(k)
              /\ d.RawExtra[k] = IF data[k].repr = "odd" THEN data[k] ELSE Missing
         /\ \A k \in Groups : d.typed[k] = DecodedGroup(data[k])
         /\ \A k \in Keys \ Simple : d.RawExtra[k] = data[k]
<1>1. Simple \subseteq Keys /\ Groups \subseteq Keys /\ Simple \cap Groups = {}
  BY DEF Keys, Simple, Groups
<1>2. \A k \in Simple : Decoded(data[k]) \in Fields(k)
  BY <1>1, DecodedFits
<1> QED
  BY <1>1, <1>2 DEF UnmarshalJSON

(* What the server holds after the PUT of a document that is in step with  *)
(* what it had, but for the fields in edited: a simple field that is not   *)
(* zero arrives, any other attribute stays as it is, or goes if it has no  *)
(* value for the library.                                                  *)
LEMMA PutBack ==
  ASSUME Typed, InStep, NEW k \in Keys,
         NEW body, body = MarshalJSON(copy),
         NEW new, new = IF merges /\ body[k] = Missing THEN attrs[k] ELSE body[k]
  PROVE  /\ k \notin Simple => new = attrs[k]
         /\ k \in Simple /\ copy.typed[k] # 0 => new = Encoded(k, copy.typed[k])
         /\ k \in Simple /\ copy.typed[k] = 0 =>
              \/ new = attrs[k] /\ (merges \/ attrs[k].repr = "odd")
              \/ new = Missing /\ attrs[k].repr # "odd"
<1>1. body[k] = IF k \in Simple /\ copy.typed[k] # 0
                THEN Encoded(k, copy.typed[k]) ELSE copy.RawExtra[k]
  BY DEF MarshalJSON
<1> DEFINE read == UnmarshalJSON(attrs)
<1>a. /\ k \notin Simple => read.RawExtra[k] = attrs[k]
      /\ k \in Simple =>
           read.RawExtra[k] = IF attrs[k].repr = "odd" THEN attrs[k] ELSE Missing
  <2>1. \A j \in Keys : attrs[j] \in Stored(j)
    BY DEF Typed
  <2> QED
    BY <2>1, Unmarshalled
<1>b. copy.RawExtra = read.RawExtra
  BY DEF InStep
<1> HIDE DEF read
<1>2. CASE k \notin Simple
  BY <1>1, <1>2, <1>a, <1>b
<1>3. CASE k \in Simple
  <2>1. copy.RawExtra[k] = IF attrs[k].repr = "odd" THEN attrs[k] ELSE Missing
    BY <1>3, <1>a, <1>b
  <2>2. copy.typed[k] # 0 => Encoded(k, copy.typed[k]) # Missing
    BY <1>3, EncodedFits DEF Typed
  <2> QED
    BY <1>1, <1>3, <2>1, <2>2
<1> QED
  BY <1>2, <1>3

-----------------------------------------------------------------------------
(* The invariant.                                                          *)

(* Documents with two attributes are documents. *)
LEMMA InitIsAny == Init => AnyInit
<1> SUFFICES ASSUME Init PROVE attrs \in Documents
  BY DEF Init, AnyInit
<1>1. PICK k \in Keys, l \in Keys :
        \E w \in Wire(k) \cup {Missing}, x \in Wire(l) :
          attrs = [j \in Keys |-> IF j = k THEN w ELSE IF j = l THEN x ELSE Missing]
  BY DEF Init
<1>2. PICK w \in Wire(k) \cup {Missing}, x \in Wire(l) :
        attrs = [j \in Keys |-> IF j = k THEN w ELSE IF j = l THEN x ELSE Missing]
  BY <1>1
<1>3. \A j \in Keys : attrs[j] \in Wire(j) \cup {Missing}
  BY <1>2
<1> QED
  BY <1>2, <1>3 DEF Documents

(* A document just read is in step with the server. *)
LEMMA JustRead ==
  ASSUME NEW data, \A k \in Keys : data[k] \in Stored(k)
  PROVE  LET d == UnmarshalJSON(data) IN
         /\ d = [typed |-> d.typed, RawExtra |-> d.RawExtra]
         /\ d.typed = [k \in Simple \cup Groups |-> d.typed[k]]
         /\ \A k \in Simple : d.typed[k] \in Fields(k)
BY Unmarshalled

LEMMA InvInit == AnyInit => IInv
<1> SUFFICES ASSUME AnyInit PROVE IInv
  OBVIOUS
<1>1. \A k \in Keys : attrs[k] \in Stored(k)
  BY DEF AnyInit, Documents, Stored
<1>2. attrs = [k \in Keys |-> attrs[k]]
  BY DEF AnyInit, Documents
<1>3. /\ copy = [typed |-> copy.typed, RawExtra |-> copy.RawExtra]
      /\ copy.typed = [k \in Simple \cup Groups |-> copy.typed[k]]
      /\ \A k \in Simple : copy.typed[k] \in Fields(k)
  BY <1>1, JustRead DEF AnyInit
<1>4. Typed
  BY <1>1, <1>2, <1>3, AttributesAssumption DEF AnyInit, Typed
<1>5. InStep
  BY DEF AnyInit, InStep
<1> QED
  BY <1>4, <1>5 DEF IInv

(* Every step keeps the copy in step with the server, but for the fields   *)
(* the caller set.                                                         *)
LEMMA InvStep == IInv /\ [Next]_vars => IInv'
<1> SUFFICES ASSUME IInv, [Next]_vars PROVE IInv'
  OBVIOUS
<1>1. CASE Get
  BY <1>1, JustRead DEF Get, IInv, Typed, InStep
<1>2. ASSUME NEW k \in Simple \cup Groups, NEW v \in Settable(k), Edit(k, v)
      PROVE  IInv'
  <2>1. k \in Simple => v \in Fields(k)
    BY DEF Settable, Fields, Simple, Groups, Hours
  <2>2. /\ copy'.RawExtra = copy.RawExtra
        /\ copy' = [typed |-> copy'.typed, RawExtra |-> copy'.RawExtra]
        /\ copy'.typed = [copy.typed EXCEPT ![k] = v]
    BY <1>2 DEF Edit, IInv, Typed
  <2>3. /\ \A j \in Simple : copy'.typed[j] \in Fields(j)
        /\ copy'.typed = [j \in Simple \cup Groups |-> copy'.typed[j]]
    BY <2>1, <2>2 DEF IInv, Typed
  <2>4. /\ edited' \subseteq Simple \cup Groups /\ edits' \in 0..MaxEdits
        /\ attrs' = attrs /\ merges' = merges
    BY <1>2, AttributesAssumption DEF Edit, IInv, Typed
  <2>5. Typed'
    BY <2>2, <2>3, <2>4 DEF IInv, Typed
  <2>6. InStep'
    BY <1>2, <2>2 DEF Edit, IInv, Typed, InStep
  <2> QED
    BY <2>5, <2>6 DEF IInv
<1>3. CASE Update
  <2>1. ASSUME NEW k \in Keys PROVE attrs'[k] \in Stored(k)
    <3> DEFINE body == MarshalJSON(copy)
    <3>1. attrs'[k] = IF merges /\ body[k] = Missing THEN attrs[k] ELSE body[k]
      BY <1>3 DEF Update
    <3>2. k \in Simple /\ copy.typed[k] # 0 => Encoded(k, copy.typed[k]) \in Canonical
      BY EncodedFits DEF IInv, Typed
    <3>3. attrs[k] \in Stored(k) /\ Missing \in Stored(k)
      BY DEF IInv, Typed, Stored
    <3>4. k \in Simple => Canonical \subseteq Stored(k)
      BY DEF Stored
    <3> HIDE DEF body
    <3> QED
      BY <3>1, <3>2, <3>3, <3>4, PutBack DEF body, IInv
  <2>2. attrs' = [k \in Keys |-> attrs'[k]]
    BY <1>3 DEF Update
  <2>3. /\ copy' = UnmarshalJSON(attrs') /\ edited' = {}
        /\ merges' = merges /\ edits' = edits
    BY <1>3 DEF Update
  <2> QED
    BY <2>1, <2>2, <2>3, JustRead DEF IInv, Typed, InStep
<1>4. CASE UNCHANGED vars
  BY <1>4 DEF vars, IInv, Typed, InStep
<1> QED
  BY <1>1, <1>2, <1>3, <1>4 DEF Next

(* The copy and the server, for any document and any number of edits. *)
THEOREM Invariant == AnySpec => []IInv
BY InvInit, InvStep, PTL DEF AnySpec

(* What TLC enumerates is part of it: every theorem below holds of Spec.   *)
THEOREM AnyDocument == Spec => AnySpec
BY InitIsAny, PTL DEF Spec, AnySpec

-----------------------------------------------------------------------------
(* The properties of the run.                                              *)

(* However often a document is read, edited and put back, the server holds *)
(* only forms it sent itself or MarshalJSON writes, the fields only values *)
(* they can hold.                                                          *)
THEOREM TypeCorrect == AnySpec => []TypeOK
<1>1. ASSUME NEW k \in Simple
      PROVE  Canonical \subseteq
               {Encoded(k, v) : v \in Values \cup {Holed(1), Holed(2)}}
  <2>1. ASSUME NEW v \in 1..4 PROVE Wrapper("plain", v, "none") = Encoded(k, v)
    BY DEF Encoded, Format, Hours
  <2>2. 1..4 \subseteq Values \cup {Holed(1), Holed(2)}
    BY DEF Values, Holed, Hours
  <2> QED
    BY <2>1, <2>2 DEF Canonical
<1>2. \A k \in Simple : Fields(k) \subseteq Values \cup {Holed(1), Holed(2)}
  BY DEF Fields, Values, Holed, Hours
<1>3. IInv => TypeOK
  BY <1>1, <1>2 DEF IInv, Typed, TypeOK, Stored
<1> QED
  BY <1>3, Invariant, PTL

(* What the caller reads is what the server means (UnmarshalJSON,          *)
(* decodeMoneyGroup and unwrapNestedValue), for every document, and after  *)
(* any edits and updates as well as on the first Get.                      *)
THEOREM CopyIsRead == AnySpec => []CopyMeansServer
<1>1. ASSUME IInv, edited = {} PROVE CopyMeansServer
  <2>1. \A k \in Keys : attrs[k] \in Stored(k)
    BY <1>1 DEF IInv, Typed
  <2>2. \A k \in Simple \cup Groups : copy.typed[k] = UnmarshalJSON(attrs).typed[k]
    BY <1>1 DEF IInv, InStep
  <2>3. ASSUME NEW k \in Simple, attrs[k].repr # "mixed"
        PROVE  Day(copy.typed[k]) = Meaning(attrs[k])
    <3>1. copy.typed[k] = Decoded(attrs[k])
      BY <2>1, <2>2, Unmarshalled
    <3>2. attrs[k] \in Stored(k)
      BY <2>1 DEF Keys
    <3> QED
      BY <2>3, <3>1, <3>2, DecodedFits
  <2>4. ASSUME NEW k \in Groups, NEW f \in {"currency", "value"}
        PROVE  copy.typed[k][f] = attrs[k].data[f].value
    <3>1. copy.typed[k] = DecodedGroup(attrs[k])
      BY <2>1, <2>2, Unmarshalled
    <3>2. k \in Keys \ Simple
      BY DEF Keys, Groups, Simple
    <3> QED
      BY <2>1, <3>1, <3>2, GroupForms DEF DecodedGroup
  <2> QED
    BY <2>3, <2>4 DEF CopyMeansServer
<1>2. IInv => CopyMeansServer
  BY <1>1 DEF CopyMeansServer
<1> QED
  BY <1>2, Invariant, PTL

(* Update sends the whole document and keeps what the caller did not edit. *)
THEOREM UpdateIsSelective == AnySpec => UpdateKeepsTheRest
<1> DEFINE Kept(k) ==
      \/ attrs'[k] = attrs[k]
      \/ /\ k \in Simple /\ attrs[k].repr # "odd"
         /\ Meaning(attrs'[k]) = Meaning(attrs[k]) \/ attrs[k].repr \in {"junk", "mixed"}
<1>1. ASSUME IInv, Update, NEW k \in Keys, k \notin edited \/ k \notin Simple
      PROVE  Kept(k)
  <2> DEFINE body == MarshalJSON(copy)
  <2>1. attrs'[k] = IF merges /\ body[k] = Missing THEN attrs[k] ELSE body[k]
    BY <1>1 DEF Update
  <2> HIDE DEF body
  <2>2. CASE k \notin Simple
    BY <1>1, <2>1, <2>2, PutBack DEF IInv, body
  <2>3. CASE k \in Simple
    <3> DEFINE v == copy.typed[k]
    <3>1. attrs[k] \in Stored(k) /\ \A j \in Keys : attrs[j] \in Stored(j)
      BY <1>1 DEF IInv, Typed
    <3>2. v = Decoded(attrs[k])
      BY <1>1, <2>3, <3>1, Unmarshalled DEF IInv, InStep
    <3>3. v \in Fields(k) /\ (attrs[k].repr = "odd" => v = 0)
      BY <2>3, <3>1, <3>2, DecodedFits
    <3>4. CASE v # 0
      <4>1. attrs'[k] = Encoded(k, v)
        BY <1>1, <2>1, <2>3, <3>4, PutBack DEF IInv, body
      <4>2. Meaning(attrs'[k]) = Day(v)
        BY <2>3, <3>3, <3>4, <4>1, EncodedFits DEF Meaning
      <4> QED
        BY <2>3, <3>1, <3>2, <3>3, <3>4, <4>2, DecodedFits
    <3>5. CASE v = 0
      <4>1. attrs'[k] = attrs[k] \/ (attrs'[k] = Missing /\ attrs[k].repr # "odd")
        BY <1>1, <2>1, <2>3, <3>5, PutBack DEF IInv, body
      <4>2. Meaning(Missing) = 0 /\ Day(0) = 0
        BY DEF Meaning, Missing, Wrapper, Day, Hours
      <4> QED
        BY <2>3, <3>1, <3>2, <3>5, <4>1, <4>2, DecodedFits
    <3> QED
      BY <3>4, <3>5
  <2> QED
    BY <2>2, <2>3
<1>2. IInv /\ [Next]_vars =>
        [\A k \in Keys : k \notin edited \/ k \notin Simple => Kept(k)]_vars
  BY <1>1 DEF Next, Get, Edit, vars
<1> QED
  BY <1>2, Invariant, PTL DEF AnySpec, UpdateKeepsTheRest

(* What the caller set is what the server has afterwards (setSimpleTime    *)
(* and its kin).                                                           *)
THEOREM UpdateIsComplete == AnySpec => EditsArrive
<1> DEFINE Arrives(k) ==
      LET v == copy.typed[k] IN
      IF v # 0
      THEN attrs'[k].repr = "plain" /\ attrs'[k].value = Day(v)
      ELSE merges \/ attrs'[k] = Missing \/ attrs[k].repr = "odd"
<1>1. ASSUME IInv, Update, NEW k \in edited \cap Simple PROVE Arrives(k)
  <2> DEFINE body == MarshalJSON(copy)
  <2>1. attrs'[k] = IF merges /\ body[k] = Missing THEN attrs[k] ELSE body[k]
    BY <1>1 DEF Update, Keys
  <2>2. copy.typed[k] \in Fields(k) /\ k \in Keys /\ k \in Simple
    BY <1>1 DEF IInv, Typed, Keys
  <2> HIDE DEF body
  <2> QED
    BY <1>1, <2>1, <2>2, PutBack, EncodedFits DEF IInv, body
<1>2. IInv /\ [Next]_vars => [Update => \A k \in edited \cap Simple : Arrives(k)]_vars
  BY <1>1
<1> QED
  BY <1>2, Invariant, PTL DEF AnySpec, EditsArrive

-----------------------------------------------------------------------------
(* Beyond the run.                                                         *)

(* A document that is loaded and put back settles: the first round trip    *)
(* may rewrite an attribute (a date loses its time, a number its quotes, a *)
(* value without meaning goes), a second one changes nothing.              *)
THEOREM RoundTripSettles ==
  ASSUME NEW data, \A k \in Keys : data[k] \in Stored(k)
  PROVE  LET after == MarshalJSON(UnmarshalJSON(data)) IN
         MarshalJSON(UnmarshalJSON(after)) = after
<1> DEFINE RoundTrip(d) == MarshalJSON(UnmarshalJSON(d))
           after == RoundTrip(data)
<1>1. ASSUME NEW d, \A j \in Keys : d[j] \in Stored(j), NEW k \in Keys
      PROVE  /\ k \notin Simple => RoundTrip(d)[k] = d[k]
             /\ k \in Simple =>
                  RoundTrip(d)[k] =
                    IF Decoded(d[k]) # 0 THEN Encoded(k, Decoded(d[k]))
                    ELSE IF d[k].repr = "odd" THEN d[k] ELSE Missing
  <2> DEFINE u == UnmarshalJSON(d)
  <2>1. /\ k \notin Simple => u.RawExtra[k] = d[k]
        /\ k \in Simple =>
             /\ u.typed[k] = Decoded(d[k])
             /\ u.RawExtra[k] = IF d[k].repr = "odd" THEN d[k] ELSE Missing
    BY <1>1, Unmarshalled
  <2> HIDE DEF u
  <2>2. MarshalJSON(u)[k] = IF k \in Simple /\ u.typed[k] # 0
                            THEN Encoded(k, u.typed[k]) ELSE u.RawExtra[k]
    BY DEF MarshalJSON
  <2> QED
    BY <2>1, <2>2 DEF u
<1>2. ASSUME NEW k \in Keys
      PROVE  after[k] \in Stored(k)
  <2>1. k \in Simple /\ Decoded(data[k]) # 0 =>
          Encoded(k, Decoded(data[k])) \in Canonical
    BY DecodedFits, EncodedFits
  <2> HIDE DEF RoundTrip
  <2> QED
    BY <1>1, <2>1 DEF Stored
<1>3. ASSUME NEW k \in Keys PROVE RoundTrip(after)[k] = after[k]
  <2> HIDE DEF RoundTrip, after
  <2>1. CASE k \notin Simple
    BY <1>1, <1>2, <2>1
  <2>2. ASSUME k \in Simple, Decoded(data[k]) # 0
        PROVE  RoundTrip(after)[k] = after[k]
    <3> DEFINE v == Decoded(data[k])
    <3>1. v \in Fields(k)
      BY <2>2, DecodedFits
    <3>2. after[k] = Encoded(k, v)
      BY <1>1, <2>2 DEF after
    <3>3. Decoded(after[k]) = Day(v) /\ Day(v) # 0 /\ Encoded(k, Day(v)) = Encoded(k, v)
      BY <2>2, <3>1, <3>2 DEF Encoded, Decoded, Wrapper, Fields, Format, Hours, Day
    <3> QED
      BY <1>1, <1>2, <2>2, <3>2, <3>3
  <2>3. ASSUME k \in Simple, Decoded(data[k]) = 0
        PROVE  RoundTrip(after)[k] = after[k]
    <3>1. after[k] = IF data[k].repr = "odd" THEN data[k] ELSE Missing
      BY <1>1, <2>3 DEF after
    <3>2. Decoded(after[k]) = 0 /\ Missing.repr # "odd"
      BY <2>3, <3>1 DEF Decoded, Missing, Wrapper
    <3> QED
      BY <1>1, <1>2, <2>3, <3>1, <3>2
  <2> QED
    BY <2>1, <2>2, <2>3
<1>4. after = [k \in Keys |-> after[k]] /\ RoundTrip(after) = [k \in Keys |-> RoundTrip(after)[k]]
  BY DEF MarshalJSON
<1> QED
  BY <1>3, <1>4

=============================================================================
