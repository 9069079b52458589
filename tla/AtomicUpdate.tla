---------------------------- MODULE AtomicUpdate ----------------------------
(***************************************************************************)
(* What Update promises of the object it changes, with requests, retries   *)
(* and versions left out: a call is carried out at most once, in one step, *)
(* over the state its caller had read, at some time between its begin and  *)
(* the end of its last attempt; success means that it was.  Module Writes  *)
(* implements it.                                                          *)
(***************************************************************************)
CONSTANTS
  Calls,      \* the write operations
  Original,   \* the object's first state, no call
  Gone        \* what is left of a deleted object, no call

VARIABLES
  object,     \* the call that wrote the object's state, Original or Gone
  begun,      \* the calls that began
  open,       \* the updates that may still be carried out
  done,       \* the updates that were
  ok          \* those of them whose caller was told and did not go on

vars == <<object, begun, open, done, ok>>

Init ==
  /\ object = Original
  /\ begun = {} /\ open = {} /\ done = {} /\ ok = {}

(* An update of a state the object has had, or another operation.          *)
Begin(n) ==
  /\ n \notin begun
  /\ begun' = begun \cup {n}
  /\ \/ UNCHANGED open
     \/ \E x \in done \cup {Original} : open' = open \cup {[call |-> n, over |-> x]}
  /\ ok' \in SUBSET ok
  /\ UNCHANGED <<object, done>>

CarryOut(u) ==
  /\ object = u.over
  /\ object' = u.call
  /\ open' = {v \in open : v.call # u.call}
  /\ done' = done \cup {u.call}
  /\ ok' \in {ok, ok \cup {u.call}}
  /\ UNCHANGED begun

(* Refused, or no attempt is left.                                         *)
Withdraw ==
  /\ open' \in SUBSET open
  /\ UNCHANGED <<object, begun, done, ok>>

Delete ==
  /\ object' = Gone
  /\ UNCHANGED <<begun, open, done, ok>>

Next ==
  \/ \E n \in Calls : Begin(n)
  \/ \E u \in open : CarryOut(u)
  \/ Withdraw
  \/ Delete

Spec == Init /\ [][Next]_vars

=============================================================================
