------------------------------- MODULE Writes -------------------------------
(***************************************************************************)
(* Write operations under the retries of RoundTrip: Update (documents,     *)
(* contacts, reminders: a PUT with the version the caller read), Delete    *)
(* and Upload (a POST under an id the client draws).  Several clients work *)
(* on one object and upload files that may be equal.                       *)
(*                                                                         *)
(* RoundTrip sends the same body again after a network error or a 5xx.     *)
(* The attempt it gave up may have been carried out, and may still be on   *)
(* its way: the server may carry it out at any later time.  The server     *)
(* (external) checks versions, and finds a file it already has (docs/API.md*)
(* section 4.1).  A 403, for a session that expired, carries out nothing;  *)
(* RoundTrip renews the session and sends the attempt once more.           *)
(***************************************************************************)
EXTENDS Naturals, Sequences, FiniteSets, TLC

CONSTANTS
  Clients,      \* callers, one operation at a time each
  Files,        \* contents that are uploaded
  MaxOps,       \* bound on the operations
  MaxAttempts   \* ExponentialBackoff.MaxAttempts

ASSUME WritesAssumption ==
  /\ MaxOps \in Nat
  /\ MaxAttempts \in Nat

VARIABLES
  begun,        \* number of operations begun; the n-th is operation n
  pc,           \* pc[c]: "idle", "send" (a request is due) or "wait"
  op,           \* op[c]: the operation c runs, or ran last
  attempt,      \* attempt[c]: the backoff counter
  held,         \* held[c]: the copy of the object c holds
  outcome,      \* outcome[c]: how c's last operation ended
  net,          \* requests sent and not carried out
  object,       \* the server's object
  docs,         \* the documents uploads created
  applied       \* history: the updates carried out, in order

callVars == <<begun, pc, op, attempt, outcome>>
vars == <<callVars, held, net, object, docs, applied>>

Ops == 1..MaxOps

(* A state of the object: its version, 0 if there is none, and the         *)
(* operation that wrote it, 0 for the original.                            *)
Copy == [version : Nat, by : {0} \cup Ops]
Absent == [version |-> 0, by |-> 0]

Kinds == {"update", "delete", "upload"}
DocIds == Ops \X (0..MaxAttempts)

(* base: the copy an update was made from; its version is in the body.     *)
Message ==
  [client : Clients, op : Ops, attempt : 0..MaxAttempts, kind : Kinds,
   base : Copy, id : DocIds, file : Files]

TypeOK ==
  /\ begun \in 0..MaxOps
  /\ pc \in [Clients -> {"idle", "send", "wait"}]
  /\ op \in [Clients -> [n : {0} \cup Ops, kind : Kinds, file : Files]]
  /\ attempt \in [Clients -> 0..MaxAttempts]
  /\ held \in [Clients -> Copy]
  /\ outcome \in [Clients ->
       {"none", "ok", "conflict", "notFound", "duplicate", "error"}]
  /\ net \subseteq Message
  /\ object \in Copy
  /\ docs \subseteq [id : DocIds, file : Files]
  /\ applied \in Seq([by : Ops, over : {0} \cup Ops])

Init ==
  /\ begun = 0
  /\ pc = [c \in Clients |-> "idle"]
  /\ op \in [Clients -> {[n |-> 0, kind |-> "update", file |-> f] : f \in Files}]
  /\ attempt = [c \in Clients |-> 0]
  /\ held = [c \in Clients |-> Absent]
  /\ outcome = [c \in Clients |-> "none"]
  /\ net = {}
  /\ object = [version |-> 1, by |-> 0]
  /\ docs = {}
  /\ applied = <<>>

-----------------------------------------------------------------------------
(* The callers.                                                            *)

(* Get: the caller replaces its copy, by none after ErrNotFound.           *)
Get(c) ==
  /\ pc[c] = "idle"
  /\ held[c] # object
  /\ held' = [held EXCEPT ![c] = object]
  /\ UNCHANGED <<callVars, net, object, docs, applied>>

(* A caller updates the copy it holds, deletes the object or uploads a     *)
(* file.                                                                   *)
Begin(c, kind) ==
  /\ pc[c] = "idle"
  /\ begun < MaxOps
  /\ kind = "update" => held[c].version # 0
  /\ begun' = begun + 1
  /\ \E f \in Files :
       op' = [op EXCEPT ![c] = [n |-> begun + 1, kind |-> kind, file |-> f]]
  /\ attempt' = [attempt EXCEPT ![c] = 0]
  /\ outcome' = [outcome EXCEPT ![c] = "none"]
  /\ pc' = [pc EXCEPT ![c] = "send"]
  /\ UNCHANGED <<held, net, object, docs, applied>>

(* The call of c ends.                                                     *)
Return(c, how) ==
  /\ outcome' = [outcome EXCEPT ![c] = how]
  /\ pc' = [pc EXCEPT ![c] = "idle"]
  /\ UNCHANGED <<begun, op, attempt>>

(* A new id for every attempt.                                             *)
Faulty_ClientId(c) == <<op[c].n, attempt[c]>>

(* newObjectID is called once per Upload.                                  *)
ClientId(c) == <<op[c].n, 0>>

(* cloneRequest: every attempt has the same body.                          *)
Send(c) ==
  /\ pc[c] = "send"
  /\ net' = net \cup
       {[client |-> c, op |-> op[c].n, attempt |-> attempt[c],
         kind |-> op[c].kind, base |-> held[c], id |-> ClientId(c), file |-> op[c].file]}
  /\ pc' = [pc EXCEPT ![c] = "wait"]
  /\ UNCHANGED <<begun, op, attempt, outcome, held, object, docs, applied>>

Faulty_ShouldRetry(c) == attempt[c] <= MaxAttempts

ShouldRetry(c) == attempt[c] < MaxAttempts

(* A network error, a timeout, a 429 or a 5xx ends the attempt.            *)
GiveUp(c) ==
  /\ pc[c] = "wait"
  /\ IF ShouldRetry(c)
     THEN /\ attempt' = [attempt EXCEPT ![c] = @ + 1]
          /\ pc' = [pc EXCEPT ![c] = "send"]
          /\ UNCHANGED <<begun, op, outcome>>
     ELSE Return(c, "error")
  /\ UNCHANGED <<held, net, object, docs, applied>>

(* The caller's context ends while its request waits for the limiter, for  *)
(* the session's renewal or for the answer: the call is over, attempts     *)
(* left or not.                                                            *)
Cancel(c) ==
  /\ pc[c] # "idle"
  /\ Return(c, "error")
  /\ UNCHANGED <<held, net, object, docs, applied>>

-----------------------------------------------------------------------------
(* The server, and the caller's handling of its answers.                   *)

(* The caller still waits for the answer to m.                             *)
Awaited(m) ==
  LET c == m.client IN
  pc[c] = "wait" /\ m.op = op[c].n /\ m.attempt = attempt[c]

(* The answer reaches the caller.                                          *)
Reply(m, how) ==
  /\ Awaited(m)
  /\ Return(m.client, how)

(* The answer reaches the caller, if that still waits, or is lost.         *)
Answer(m, how) == Reply(m, how) \/ UNCHANGED callVars

(* Optimistic locking: the body's Version is the object's.                 *)
Matches(m) == object.version # 0 /\ m.base.version = object.version

(* The PUT is carried out.  After the answer the caller holds the returned *)
(* object.                                                                 *)
Update(m) ==
  LET new == [version |-> object.version + 1, by |-> m.op] IN
  /\ m.kind = "update"
  /\ Matches(m)
  /\ object' = new
  /\ applied' = Append(applied, [by |-> m.op, over |-> m.base.by])
  /\ \/ Reply(m, "ok") /\ held' = [held EXCEPT ![m.client] = new]
     \/ UNCHANGED <<held, callVars>>
  /\ UNCHANGED docs

(* A conflict answered with the new version and the same content.          *)
Faulty_Conflict(m) ==
  /\ m.kind = "update"
  /\ object.version # 0 /\ ~Matches(m)
  /\ \/ /\ Awaited(m)
        /\ held' = [held EXCEPT ![m.client].version = object.version]
        /\ pc' = [pc EXCEPT ![m.client] = "send"]
        /\ UNCHANGED <<begun, op, attempt, outcome>>
     \/ UNCHANGED <<callVars, held>>
  /\ UNCHANGED <<object, docs, applied>>

(* A conflict is an APIError, whatever status the server chooses for it:   *)
(* the client does not resolve it.                                         *)
Conflict(m) ==
  /\ m.kind = "update"
  /\ object.version # 0 /\ ~Matches(m)
  /\ Answer(m, "conflict")
  /\ UNCHANGED <<held, object, docs, applied>>

(* A hard DELETE: there is no way back.                                    *)
Delete(m) ==
  /\ m.kind = "delete"
  /\ object.version # 0
  /\ object' = Absent
  /\ Answer(m, "ok")
  /\ UNCHANGED <<held, docs, applied>>

(* Any 404 is a success, as for an object that was to go.                  *)
Faulty_NotFound(m) ==
  /\ m.kind \in {"update", "delete"}
  /\ object.version = 0
  /\ Answer(m, "ok")
  /\ UNCHANGED <<held, object, docs, applied>>

(* A 404 is an error that is ErrNotFound.                                  *)
NotFound(m) ==
  /\ m.kind \in {"update", "delete"}
  /\ object.version = 0
  /\ Answer(m, "notFound")
  /\ UNCHANGED <<held, object, docs, applied>>

(* A file the server does not have becomes a document under the client's   *)
(* id.                                                                     *)
Store(m) ==
  /\ m.kind = "upload"
  /\ \A d \in docs : d.file # m.file
  /\ docs' = docs \cup {[id |-> m.id, file |-> m.file]}
  /\ Answer(m, "ok")
  /\ UNCHANGED <<held, object, applied>>

(* A file it has: the answer is the document there is; another id than the *)
(* client's means ErrDuplicateDocument.                                    *)
Known(m) ==
  /\ m.kind = "upload"
  /\ \E d \in docs :
       /\ d.file = m.file
       /\ Answer(m, IF d.id = ClientId(m.client) THEN "ok" ELSE "duplicate")
  /\ UNCHANGED <<held, object, docs, applied>>

Serve(m) ==
  /\ net' = net \ {m}
  /\ \/ Update(m) \/ Conflict(m) \/ Delete(m) \/ NotFound(m)
     \/ Store(m) \/ Known(m)

(* A 403: m is not carried out.  Whoever awaits it renews the session and  *)
(* sends the same attempt again, or ends with an error: the renewal's, or  *)
(* the second 403.  RoundTrip sends it again once, here it may be refused  *)
(* any number of times: that only leads back to the state before Send.     *)
Forbidden(m) ==
  /\ net' = net \ {m}
  /\ \/ /\ Awaited(m)
        /\ pc' = [pc EXCEPT ![m.client] = "send"]
        /\ UNCHANGED <<begun, op, attempt, outcome>>
     \/ Answer(m, "error")
  /\ UNCHANGED <<held, object, docs, applied>>

Next ==
  \/ \E c \in Clients :
       \/ Get(c) \/ Send(c) \/ GiveUp(c) \/ Cancel(c)
       \/ \E kind \in Kinds : Begin(c, kind)
  \/ \E m \in net : Serve(m) \/ Forbidden(m)

Spec == Init /\ [][Next]_vars

(* The clients do the same things: TLC may take one for another.           *)
Symmetry == Permutations(Clients)

-----------------------------------------------------------------------------
(* Properties.                                                             *)

(* No update is lost: whatever attempts are repeated or delayed, each      *)
(* update was made from the state it replaced.                             *)
NoLostUpdate ==
  \A k \in DOMAIN applied :
    applied[k].over = IF k = 1 THEN 0 ELSE applied[k - 1].by

(* An Update that returned the new object was carried out; one that        *)
(* returned a conflict was not, or its own earlier attempt was.            *)
AcknowledgedIsApplied ==
  \A c \in Clients :
    /\ pc[c] = "idle" /\ op[c].kind = "update"
    /\ outcome[c] = "ok" \/ (outcome[c] = "conflict" /\ attempt[c] = 0)
    => (outcome[c] = "ok" <=> \E k \in DOMAIN applied : applied[k].by = op[c].n)

(* ErrDuplicateDocument means somebody else's upload, or an earlier one:   *)
(* never the document an attempt of the same call created.                 *)
DuplicateIsForeign ==
  \A c \in Clients :
    outcome[c] = "duplicate" =>
      \A d \in docs : d.id[1] # op[c].n

(* What is seen of the object and its updates: the operation that wrote    *)
(* the state there is, and the updates that some attempt may still carry   *)
(* out.                                                                    *)
Done == {applied[k].by : k \in DOMAIN applied}

Open ==
  LET running == {c \in Clients : pc[c] # "idle" /\ op[c].kind = "update"}
      sent == {m \in net : m.kind = "update"} IN
  {u \in {[call |-> op[c].n, over |-> held[c].by] : c \in running} \cup
         {[call |-> m.op, over |-> m.base.by] : m \in sent} : u.call \notin Done}

Atomic == INSTANCE AtomicUpdate WITH
  Calls    <- Ops,
  Original <- 0,
  Gone     <- MaxOps + 1,
  object   <- IF object.version = 0 THEN MaxOps + 1 ELSE object.by,
  begun    <- 1..begun,
  open     <- Open,
  done     <- Done,
  ok       <- {op[c].n : c \in {d \in Clients : op[d].kind = "update" /\ outcome[d] = "ok"}}

(* Whatever attempts are repeated, lost or delayed, an Update is carried   *)
(* out at most once, in one step, over the state its caller had read, only *)
(* while the call runs or one of its attempts is on its way; and a caller  *)
(* that was told so was.                                                   *)
AtomicSpec == Atomic!Spec

=============================================================================
