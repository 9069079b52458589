----------------------------- MODULE Attributes -----------------------------
(***************************************************************************)
(* The attributes of a document on their way from the server into typed    *)
(* fields, through a caller's edits, and back: UnmarshalJSON and           *)
(* MarshalJSON of DocumentAttributes around Get and Update.                *)
(*                                                                         *)
(* The server's attributes come in forms the library decodes, in forms it  *)
(* decodes in part and in forms it does not expect.  Values are small      *)
(* numbers, 0 being the value MarshalJSON does not send (an empty string   *)
(* or list, the number 0, a nil pointer).  A date is its day, or, with the *)
(* time of day of an RFC 3339 value, the day plus Hours.                   *)
(*                                                                         *)
(* Update succeeds on the state that was read (a version conflict changes  *)
(* nothing, see module Writes).  The body is the whole document; whether   *)
(* an attribute it does not hold is removed or stays is up to the server.  *)
(***************************************************************************)
EXTENDS Naturals

CONSTANTS
  MaxEdits      \* bound on the edits of the caller

ASSUME AttributesAssumption == MaxEdits \in Nat

VARIABLES
  attrs,        \* attributes.data at the server
  merges,       \* the server keeps attributes a PUT does not hold
  copy,         \* the caller's DocumentAttributes
  edited,       \* the fields the caller set since copy was decoded
  edits         \* number of edits

vars == <<attrs, merges, copy, edited, edits>>

-----------------------------------------------------------------------------
(* Wire format.                                                            *)

(* One key per kind of attribute; autoProcessingStatus is one the library  *)
(* has no field for.                                                       *)
Simple == {"senderId", "tagIds", "invoiceDate", "read", "maxPageNr"}
Groups == {"amount"}
Keys == Simple \cup Groups \cup {"autoProcessingStatus"}

Hours == 10
Values == {0, 1, 2, Hours + 1, Hours + 2}

(* How a value is written: as expected, or a number in quotes, with a      *)
(* fraction, a date with a time, a list with an element that is no string. *)
(* "null" is also a wrapper without a value, "junk" one of another type,   *)
(* "odd" what is no wrapper at all.                                        *)
Reprs(k) ==
  {"plain", "null", "junk", "odd"} \cup
    CASE k = "tagIds" -> {"mixed"}
      [] k = "invoiceDate" -> {"datetime"}
      [] k = "maxPageNr" -> {"quoted", "fraction"}
      [] OTHER -> {}

(* Of a boolean attribute 1 is false and 2 is true.                        *)
Written(k, r) ==
  CASE r \in {"null", "junk", "odd"} -> {0}
    [] r \in {"mixed", "fraction"} -> {1, 2}
    [] r = "datetime" -> {Hours + 1, Hours + 2}
    [] k = "read" -> {1, 2}
    [] OTHER -> {0, 1, 2}

(* A field of a group is a value, or a wrapper around one.                 *)
Field ==
  {[nested |-> n, repr |-> r, value |-> IF r = "plain" THEN 1 ELSE 0] :
     n \in BOOLEAN, r \in {"plain", "null", "junk"}}
NoField == [nested |-> FALSE, repr |-> "missing", value |-> 0]
(* The fields of a group are read alike: one takes all forms.              *)
GroupData ==
  [currency : Field \cup {NoField},
   value : {NoField, [nested |-> TRUE, repr |-> "plain", value |-> 1]}]
NoData == [currency |-> NoField, value |-> NoField]

Wrapper(r, v, source) == [repr |-> r, value |-> v, data |-> NoData, source |-> source]
Group(d, source) == [repr |-> "group", value |-> 0, data |-> d, source |-> source]
Missing == Wrapper("missing", 0, "none")

Wire(k) ==
  IF k \in Groups
  THEN {Group(d, "SYSTEM") : d \in GroupData} \cup
         {Wrapper(r, 0, "SYSTEM") : r \in {"null", "odd"}}
  ELSE UNION {{Wrapper(r, v, "SYSTEM") : v \in Written(k, r)} : r \in Reprs(k)}

-----------------------------------------------------------------------------
(* Decoding.                                                               *)

(* A list with a hole where an element is no string.                       *)
Holed(v) == v + 2

(* decodeStringValue, decodeBoolValue, decodeIntValue, decodeTimeValue and *)
(* decodeStringSliceValue: what they cannot decode is zero.                *)
Decoded(w) ==
  CASE w.repr \in {"plain", "quoted", "fraction", "datetime"} -> w.value
    [] w.repr = "mixed" -> Holed(w.value)
    [] OTHER -> 0

(* The field as if it were no wrapper.                                     *)
Faulty_unwrapNestedValue(f) == f

(* The value inside, if f is a wrapper that has one.                       *)
unwrapNestedValue(f) == [f EXCEPT !.nested = FALSE]

(* A wrapper where a plain value is expected decodes to zero.              *)
FieldValue(f) ==
  LET u == unwrapNestedValue(f) IN
  IF ~u.nested /\ u.repr = "plain" THEN u.value ELSE 0

(* decodeMoneyGroup; a nil pointer is a group of zeros.                    *)
DecodedGroup(w) ==
  [currency |-> FieldValue(w.data.currency), value |-> FieldValue(w.data.value)]

(* UnmarshalJSON: simple attributes become fields, groups become fields    *)
(* and stay, unknown keys and what is no wrapper stay.                     *)
UnmarshalJSON(data) ==
  [typed |-> [k \in Simple \cup Groups |->
                IF k \in Groups THEN DecodedGroup(data[k]) ELSE Decoded(data[k])],
   RawExtra |-> [k \in Keys |->
                   IF k \in Simple /\ data[k].repr # "odd" THEN Missing ELSE data[k]]]

-----------------------------------------------------------------------------
(* Encoding.                                                               *)

(* In a zone west of the one the date was decoded in.                      *)
Faulty_Format(v) == IF v > Hours THEN v - Hours ELSE v - 1

(* value.Format("2006-01-02"): the day, in the zone the value came with.   *)
Format(v) == IF v > Hours THEN v - Hours ELSE v

(* setSimpleString, setSimpleBool, setSimpleInt, setSimpleTime and         *)
(* setListStrings: no source, no modification date.                        *)
Encoded(k, v) ==
  Wrapper("plain", IF k = "invoiceDate" THEN Format(v) ELSE v, "none")

(* What RawExtra holds wins over the fields.                               *)
Faulty_MarshalJSON(d) ==
  [k \in Keys |->
     IF d.RawExtra[k] = Missing /\ k \in Simple /\ d.typed[k] # 0
     THEN Encoded(k, d.typed[k]) ELSE d.RawExtra[k]]

(* Groups are built from the fields.                                       *)
Faulty_MarshalGroups(d) ==
  LET flat(v) == [nested |-> FALSE, repr |-> "plain", value |-> v]
      money(m) == [currency |-> flat(m.currency), value |-> flat(m.value)] IN
  [k \in Keys |->
     CASE k \in Simple /\ d.typed[k] # 0 -> Encoded(k, d.typed[k])
       [] k \in Groups /\ d.typed[k].value # 0 -> Group(money(d.typed[k]), "none")
       [] OTHER -> d.RawExtra[k]]

(* RawExtra, and over it the simple fields that are not zero.              *)
MarshalJSON(d) ==
  [k \in Keys |->
     IF k \in Simple /\ d.typed[k] # 0 THEN Encoded(k, d.typed[k]) ELSE d.RawExtra[k]]

-----------------------------------------------------------------------------
(* Get, edit, Update.                                                      *)

TypeOK ==
  /\ \A k \in Keys : attrs[k] \in Wire(k) \cup {Missing} \cup
       {Encoded(k, v) : v \in Values \cup {Holed(1), Holed(2)}}
  /\ merges \in BOOLEAN
  /\ \A k \in Simple : copy.typed[k] \in Values \cup {Holed(1), Holed(2)}
  /\ edited \subseteq Simple \cup Groups
  /\ edits \in 0..MaxEdits

(* A document just loaded, with at most two attributes: enough for one to  *)
(* disturb another.                                                        *)
Init ==
  /\ \E k, l \in Keys : \E w \in Wire(k) \cup {Missing}, x \in Wire(l) :
       attrs = [j \in Keys |-> IF j = k THEN w ELSE IF j = l THEN x ELSE Missing]
  /\ merges \in BOOLEAN
  /\ copy = UnmarshalJSON(attrs)
  /\ edited = {}
  /\ edits = 0

(* The caller loads the document again.                                    *)
Get ==
  /\ copy' = UnmarshalJSON(attrs)
  /\ edited' = {}
  /\ UNCHANGED <<attrs, merges, edits>>

(* What a caller may put into a field.                                     *)
Settable(k) ==
  CASE k \in Groups -> [currency : {1}, value : {0, 1}]
    [] k = "invoiceDate" -> {0, 1, Hours + 2}
    [] OTHER -> {0, 2}

Edit(k, v) ==
  /\ edits < MaxEdits
  /\ copy.typed[k] # v
  /\ edits' = edits + 1
  /\ edited' = edited \cup {k}
  /\ copy' = [copy EXCEPT !.typed[k] = v]
  /\ UNCHANGED <<attrs, merges>>

(* The PUT is carried out; the caller goes on with the document the server *)
(* returns.                                                                *)
Update ==
  LET body == MarshalJSON(copy) IN
  /\ attrs' = [k \in Keys |->
       IF merges /\ body[k] = Missing THEN attrs[k] ELSE body[k]]
  /\ copy' = UnmarshalJSON(attrs')
  /\ edited' = {}
  /\ UNCHANGED <<merges, edits>>

Next ==
  \/ Get
  \/ \E k \in Simple \cup Groups : \E v \in Settable(k) : Edit(k, v)
  \/ Update

Spec == Init /\ [][Next]_vars

-----------------------------------------------------------------------------
(* Properties.                                                             *)

Day(v) == v % Hours

(* What a written simple value stands for, 0 for nothing; the attributes   *)
(* that are numbers have no use for a fraction.                            *)
Meaning(w) ==
  IF w.repr \in {"plain", "quoted", "fraction", "datetime"} THEN Day(w.value) ELSE 0

(* What the caller reads is what the server means: whether a number comes  *)
(* in quotes, a date with a time, a field of a group flat or as a wrapper. *)
CopyMeansServer ==
  edited = {} =>
    /\ \A k \in Simple :
         attrs[k].repr # "mixed" => Day(copy.typed[k]) = Meaning(attrs[k])
    /\ \A k \in Groups : \A f \in {"currency", "value"} :
         copy.typed[k][f] = attrs[k].data[f].value

(* An Update never changes an attribute the caller did not edit: a simple  *)
(* value keeps its meaning if the library can decode it, groups (edited or *)
(* not), unknown keys and what is no wrapper come back verbatim.           *)
UpdateKeepsTheRest ==
  [][\A k \in Keys : k \notin edited \/ k \notin Simple =>
       \/ attrs'[k] = attrs[k]
       \/ /\ k \in Simple /\ attrs[k].repr # "odd"
          /\ Meaning(attrs'[k]) = Meaning(attrs[k]) \/ attrs[k].repr \in {"junk", "mixed"}]_vars

(* What the caller put into a simple field is what the server has after    *)
(* the Update, on the day the caller meant; a field that was cleared is    *)
(* gone, unless the server merges or it was never a wrapper.               *)
EditsArrive ==
  [][Update => \A k \in edited \cap Simple :
       LET v == copy.typed[k] IN
       IF v # 0
       THEN attrs'[k].repr = "plain" /\ attrs'[k].value = Day(v)
       ELSE merges \/ attrs'[k] = Missing \/ attrs[k].repr = "odd"]_vars

=============================================================================
