--------------------------- MODULE Conversations ---------------------------
(***************************************************************************)
(* One conversation and one box under the retries of RoundTrip: messages   *)
(* (chat, or a document shared or unshared), a participant who is invited, *)
(* accepts and is removed, a document put into the box or taken out.  What *)
(* SendMessage, docMessage, RemoveParticipant and an AcceptInvitation      *)
(* after PendingInvitations post is made from what a request before it     *)
(* read.                                                                   *)
(*                                                                         *)
(* An attempt RoundTrip gave up may have been carried out and may still be *)
(* carried out at any later time.  The server is external: whether it      *)
(* drops a message whose id it knows is not documented, so it may or may   *)
(* not.  A 403, for a session that expired, carries out nothing; RoundTrip *)
(* renews the session and sends the attempt once more.                     *)
(***************************************************************************)
EXTENDS Naturals, Sequences, SequencesExt

CONSTANTS
  Clients,      \* callers, one call at a time each
  MaxOps,       \* bound on the calls
  MaxFaults,    \* bound on the attempts given up and the calls cancelled
  MaxAttempts   \* ExponentialBackoff.MaxAttempts

ASSUME ConversationsAssumption ==
  /\ MaxOps \in Nat
  /\ MaxFaults \in Nat
  /\ MaxAttempts \in Nat

VARIABLES
  begun,        \* number of calls begun; the n-th is call n
  acked,        \* the calls that returned without an error
  pc,           \* pc[c]: "idle", "read", "send" (a request is due) or "wait"
  call,         \* call[c]: the call c runs, or ran last
  attempt,      \* attempt[c]: the backoff counter of the posting request
  outcome,      \* outcome[c]: how c's last call ended
  faults,       \* number of attempts given up and calls cancelled
  net,          \* requests sent and not carried out
  participant,  \* the state of the participant
  gone,         \* gone[c]: history, the participant was absent during c's call
  log           \* what the server carried out, in order, messages with their id

callVars == <<begun, acked, pc, call, attempt, outcome>>
serverVars == <<participant, log>>
vars == <<callVars, faults, net, gone, serverVars>>

Calls == 1..MaxOps
(* "message" is SendMessage, ShareDocument or UnshareDocument, "box"        *)
(* AddDocument or RemoveDocument: they differ in the body alone.           *)
Kinds == {"message", "add", "remove", "accept", "box"}

(* The kinds that read before they post.                                   *)
Readers == {"message", "remove", "accept"}

NoId == <<>>
Ids == {NoId} \cup (Calls \X (0..MaxAttempts))

(* after: localState.lastMessageId.  prior and since are history: the      *)
(* calls acknowledged, and the length of the log, when the call began.     *)
Call ==
  [n : {0} \cup Calls, kind : Kinds, after : Ids, prior : SUBSET Calls, since : Nat]

Request ==
  [client : Clients, call : Call, attempt : 0..MaxAttempts, id : Ids]

TypeOK ==
  /\ begun \in 0..MaxOps
  /\ acked \subseteq Calls
  /\ pc \in [Clients -> {"idle", "read", "send", "wait"}]
  /\ call \in [Clients -> Call]
  /\ attempt \in [Clients -> 0..MaxAttempts]
  /\ outcome \in [Clients -> {"none", "ok", "missing", "notFound", "refused", "error"}]
  /\ faults \in 0..MaxFaults
  /\ net \subseteq Request
  /\ participant \in {"absent", "invited", "joined"}
  /\ gone \in [Clients -> BOOLEAN]
  /\ log \in Seq([call : Call, id : Ids])

Init ==
  /\ begun = 0
  /\ acked = {}
  /\ pc = [c \in Clients |-> "idle"]
  /\ call = [c \in Clients |->
       [n |-> 0, kind |-> "message", after |-> NoId, prior |-> {}, since |-> 0]]
  /\ attempt = [c \in Clients |-> 0]
  /\ outcome = [c \in Clients |-> "none"]
  /\ faults = 0
  /\ net = {}
  /\ participant = "absent"
  /\ gone = [c \in Clients |-> TRUE]
  /\ log = <<>>

-----------------------------------------------------------------------------
(* The callers.                                                            *)

Begin(c, kind) ==
  /\ pc[c] = "idle"
  /\ begun < MaxOps
  /\ begun' = begun + 1
  /\ call' = [call EXCEPT ![c] =
       [n |-> begun + 1, kind |-> kind, after |-> NoId,
        prior |-> acked, since |-> Len(log)]]
  /\ attempt' = [attempt EXCEPT ![c] = 0]
  /\ outcome' = [outcome EXCEPT ![c] = "none"]
  /\ pc' = [pc EXCEPT ![c] = IF kind \in Readers THEN "read" ELSE "send"]
  /\ gone' = [gone EXCEPT ![c] = participant = "absent"]
  /\ UNCHANGED <<acked, faults, net, serverVars>>

(* The call of c ends.                                                     *)
Return(c, how) ==
  /\ outcome' = [outcome EXCEPT ![c] = how]
  /\ acked' = IF how = "ok" THEN acked \cup {call[c].n} ELSE acked
  /\ pc' = [pc EXCEPT ![c] = "idle"]
  /\ UNCHANGED <<begun, call, attempt>>

IsPost(e) == e.call.kind = "message"

Posts == {k \in DOMAIN log : IsPost(log[k])}

(* The id of the oldest message.                                           *)
Faulty_lastMessageID == IF Posts = {} THEN NoId ELSE log[Min(Posts)].id

(* The id of the newest message of the conversation, none if it is empty.  *)
lastMessageID == IF Posts = {} THEN NoId ELSE log[Max(Posts)].id

(* SendMessage and docMessage: Get, then the body with lastMessageId.      *)
ReadMessages(c) ==
  /\ call[c].kind = "message"
  /\ call' = [call EXCEPT ![c].after = lastMessageID]
  /\ pc' = [pc EXCEPT ![c] = "send"]
  /\ UNCHANGED <<begun, acked, attempt, outcome>>

(* Only participants who accepted are found.                               *)
Faulty_Found(kind) ==
  participant = IF kind = "remove" THEN "joined" ELSE "invited"

(* RemoveParticipant looks for the participant in the conversation it      *)
(* read, a caller of PendingInvitations for the invitation's token.        *)
Found(kind) ==
  IF kind = "remove" THEN participant # "absent" ELSE participant = "invited"

(* Without the participant the call ends with ErrNotFound, without an      *)
(* invitation there is no token to accept.                                 *)
ReadParticipants(c) ==
  /\ call[c].kind \in {"remove", "accept"}
  /\ IF Found(call[c].kind)
     THEN /\ pc' = [pc EXCEPT ![c] = "send"]
          /\ UNCHANGED <<begun, acked, call, attempt, outcome>>
     ELSE Return(c, IF call[c].kind = "remove" THEN "notFound" ELSE "error")

(* The 404 of the Get, ErrNotFound too, but of the conversation: whoever   *)
(* was put out of it, or never was in it.  PendingInvitations lists.       *)
ReadMissing(c) ==
  /\ call[c].kind \in {"message", "remove"}
  /\ Return(c, "missing")

Read(c) ==
  /\ pc[c] = "read"
  /\ \/ ReadMessages(c) \/ ReadParticipants(c) \/ ReadMissing(c)
     \/ Return(c, "error")
  /\ UNCHANGED <<faults, net, gone, serverVars>>

(* A new id for every attempt.                                             *)
Faulty_ClientId(c) == <<call[c].n, attempt[c]>>

(* newObjectID is called once per message; nothing else has an id.         *)
ClientId(c) == IF call[c].kind = "message" THEN <<call[c].n, 0>> ELSE NoId

(* RoundTrip sends the same body with every attempt.                       *)
Send(c) ==
  /\ pc[c] = "send"
  /\ net' = net \cup
       {[client |-> c, call |-> call[c], attempt |-> attempt[c], id |-> ClientId(c)]}
  /\ pc' = [pc EXCEPT ![c] = "wait"]
  /\ UNCHANGED <<begun, acked, call, attempt, outcome, faults, gone, serverVars>>

Faulty_ShouldRetry(c) == attempt[c] <= MaxAttempts

ShouldRetry(c) == attempt[c] < MaxAttempts

(* A network error, a 429 or a 5xx; the caller gets the last one.          *)
GiveUp(c) ==
  /\ pc[c] = "wait"
  /\ faults < MaxFaults
  /\ faults' = faults + 1
  /\ IF ShouldRetry(c)
     THEN /\ attempt' = [attempt EXCEPT ![c] = @ + 1]
          /\ pc' = [pc EXCEPT ![c] = "send"]
          /\ UNCHANGED <<begun, acked, call, outcome>>
     ELSE Return(c, "error")
  /\ UNCHANGED <<net, gone, serverVars>>

(* The caller's context ends while a request waits for the limiter, for    *)
(* the session's renewal or for the answer: the call is over, attempts left*)
(* or not.                                                                 *)
Cancel(c) ==
  /\ pc[c] \in {"send", "wait"}
  /\ faults < MaxFaults
  /\ faults' = faults + 1
  /\ Return(c, "error")
  /\ UNCHANGED <<net, gone, serverVars>>

-----------------------------------------------------------------------------
(* The server, and what the callers make of its answers.                   *)

(* The caller still waits for the answer to m.                             *)
Awaited(m) ==
  /\ pc[m.client] = "wait"
  /\ call[m.client].n = m.call.n
  /\ attempt[m.client] = m.attempt

(* The answer to m reaches its caller, if that still waits, or is lost.    *)
Answer(m, how) ==
  \/ Awaited(m) /\ Return(m.client, how)
  \/ UNCHANGED callVars

(* The participant after m: an accept needs an open invitation.            *)
Moved(m) ==
  CASE m.call.kind = "add"    -> IF participant = "absent" THEN "invited" ELSE participant
    [] m.call.kind = "remove" -> "absent"
    [] m.call.kind = "accept" -> "joined"
    [] OTHER -> participant

(* m is carried out.  An answer whose body cannot be read is an error, but *)
(* closeAndCheck does not look at the body.                                *)
Apply(m) ==
  /\ m.call.kind = "accept" => participant = "invited"
  /\ participant' = Moved(m)
  /\ gone' = [c \in Clients |-> gone[c] \/ participant' = "absent"]
  /\ log' = Append(log, [call |-> m.call, id |-> m.id])
  /\ \/ Answer(m, "ok")
     \/ m.call.kind # "box" /\ Answer(m, "error")

(* A message the server knows is dropped; the caller gets its SentMessage. *)
Drop(m) ==
  /\ \E k \in DOMAIN log : m.id # NoId /\ log[k].id = m.id
  /\ Answer(m, "ok")
  /\ UNCHANGED <<gone, serverVars>>

(* The status of the answer is not looked at.                              *)
Faulty_Refuse(m) ==
  /\ Answer(m, "ok")
  /\ UNCHANGED <<gone, serverVars>>

(* A status other than 200 (200 and 204 for boxes) is an APIError, a 404   *)
(* one that is ErrNotFound.                                                *)
Refuse(m) ==
  /\ Answer(m, IF m.call.kind = "remove" /\ participant = "absent"
               THEN "notFound" ELSE "refused")
  /\ UNCHANGED <<gone, serverVars>>

Serve(m) ==
  /\ net' = net \ {m}
  /\ UNCHANGED faults
  /\ Apply(m) \/ Drop(m) \/ Refuse(m)

(* A 403 for an expired session: whoever awaits it renews the session and  *)
(* sends the same attempt again.  RoundTrip does so once, here it may be   *)
(* refused any number of times: that only leads back to the state before   *)
(* Send.  A renewal that fails, and the second 403, are as in Refuse.      *)
Forbidden(m) ==
  /\ Awaited(m)
  /\ net' = net \ {m}
  /\ pc' = [pc EXCEPT ![m.client] = "send"]
  /\ UNCHANGED <<begun, acked, call, attempt, outcome, faults, gone, serverVars>>

Next ==
  \/ \E c \in Clients :
       \/ \E kind \in Kinds : Begin(c, kind)
       \/ Read(c) \/ Send(c) \/ GiveUp(c) \/ Cancel(c)
  \/ \E m \in net : Serve(m) \/ Forbidden(m)

Spec == Init /\ [][Next]_vars

(* The clients do the same things: TLC may take one for another.           *)
Symmetry == Permutations(Clients)

-----------------------------------------------------------------------------
(* Properties.                                                             *)

(* j is carried out after i although its call was acknowledged before i's  *)
(* began.                                                                  *)
Late(i, j) == i < j /\ log[j].call.n \in log[i].call.prior

(* A message, share or unshare that overtakes nothing but comes after a    *)
(* later call's is the repeat of one that is there before that, and its id *)
(* says so: readers of the conversation, and a server that drops known     *)
(* ids, have the messages in the order the callers saw.                    *)
LateMessagesAreRepeats ==
  \A i, j \in DOMAIN log :
    IsPost(log[j]) /\ Late(i, j) => \E k \in 1..(i - 1) : log[k].id = log[j].id

(* An invitation, a removal, an accept or a change of the box that undoes  *)
(* a later call was carried out before that call too: without a repeated   *)
(* request, acknowledged calls take effect in their order.                 *)
EffectsInOrder ==
  \A i, j \in DOMAIN log :
    ~IsPost(log[j]) /\ Late(i, j) =>
      \E k \in 1..(i - 1) : log[k].call.n = log[j].call.n

(* localState.lastMessageId never hides a message that was there when the  *)
(* call began: none of those comes after the one it names.                 *)
NothingMissed ==
  \A e \in ToSet(log) : IsPost(e) =>
    LET old == {k \in 1..e.call.since : IsPost(log[k])} IN
    old # {} =>
      \E p \in DOMAIN log : log[p].id = e.call.after /\ \A k \in old : k <= p

(* RemoveParticipant returns ErrNotFound for a participant only if that    *)
(* was absent at some time during the call, be it by its own lost attempt. *)
NotFoundWasAbsent ==
  \A c \in Clients : outcome[c] = "notFound" => gone[c]

=============================================================================
