----------------------------- MODULE ReauthGate -----------------------------
(***************************************************************************)
(* What the 403 branch of rateLimitedTransport.RoundTrip promises, with    *)
(* everything else of the transport left out: requests that were refused   *)
(* meet at a gate, at most one of them refreshes the session at a time,    *)
(* and only for the generation (epoch) its refused attempt belongs to; a   *)
(* request that comes to the gate after that generation was replaced       *)
(* passes without a refresh of its own.  Transport implements this module. *)
(***************************************************************************)
EXTENDS Naturals

CONSTANTS
  Requests,   \* the concurrent calls of RoundTrip that may refresh
  NoOne       \* the value of owner while the gate is free, no request

VARIABLES
  epoch,      \* number of refreshes that succeeded
  owner,      \* the request refreshing the session, or NoOne
  seen,       \* seen[r]: the epoch when r's current attempt began
  turn        \* turn[r]: where r stands with respect to the gate

vars == <<epoch, owner, seen, turn>>

Turns == {"trying", "refused", "refreshing", "renewed", "failed"}

TypeOK ==
  /\ epoch \in Nat
  /\ owner \in Requests \cup {NoOne}
  /\ seen \in [Requests -> Nat]
  /\ turn \in [Requests -> Turns]

Init ==
  /\ epoch = 0
  /\ owner = NoOne
  /\ seen = [r \in Requests |-> 0]
  /\ turn = [r \in Requests |-> "trying"]

-----------------------------------------------------------------------------

(* An attempt begins: the request remembers the epoch. *)
Attempt(r) ==
  /\ turn[r] \in {"trying", "renewed"}
  /\ seen' = [seen EXCEPT ![r] = epoch]
  /\ UNCHANGED <<epoch, owner, turn>>

(* The first 403 of the request; a later one never comes back here. *)
Refuse(r) ==
  /\ turn[r] = "trying"
  /\ turn' = [turn EXCEPT ![r] = "refused"]
  /\ UNCHANGED <<epoch, owner, seen>>

(* Somebody refreshed the session since the attempt began. *)
Share(r) ==
  /\ turn[r] = "refused"
  /\ owner = NoOne
  /\ epoch # seen[r]
  /\ turn' = [turn EXCEPT ![r] = "renewed"]
  /\ UNCHANGED <<epoch, owner, seen>>

Begin(r) ==
  /\ turn[r] = "refused"
  /\ owner = NoOne
  /\ epoch = seen[r]
  /\ owner' = r
  /\ turn' = [turn EXCEPT ![r] = "refreshing"]
  /\ UNCHANGED <<epoch, seen>>

Succeed(r) ==
  /\ turn[r] = "refreshing"
  /\ epoch' = epoch + 1
  /\ owner' = NoOne
  /\ turn' = [turn EXCEPT ![r] = "renewed"]
  /\ UNCHANGED seen

Fail(r) ==
  /\ turn[r] = "refreshing"
  /\ owner' = NoOne
  /\ turn' = [turn EXCEPT ![r] = "failed"]
  /\ UNCHANGED <<epoch, seen>>

Next ==
  \E r \in Requests :
    Attempt(r) \/ Refuse(r) \/ Share(r) \/ Begin(r) \/ Succeed(r) \/ Fail(r)

Spec == Init /\ [][Next]_vars

-----------------------------------------------------------------------------

(* The gate's promise: whoever refreshes holds the gate alone, and no      *)
(* refresh succeeded since the attempt that was refused began.             *)
RefreshesCurrentEpoch ==
  \A r \in Requests :
    turn[r] = "refreshing" => owner = r /\ seen[r] = epoch

=============================================================================
