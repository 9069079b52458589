----------------------------- MODULE WritesProofs -----------------------------
(***************************************************************************)
(* Proofs about Writes, for any set of clients, any number of operations   *)
(* and any backoff budget.                                                 *)
(*                                                                         *)
(* The properties speak of what was carried out and what the caller was    *)
(* told; a step of the server is decided by a request that may have been   *)
(* sent long ago.  IInv says what is true of every request still on its    *)
(* way and of every copy somebody holds.                                   *)
(***************************************************************************)
EXTENDS Writes, TLAPS

(* The operation n changed the object. *)
CarriedOut(n) == \E k \in DOMAIN applied : applied[k].by = n

(* No copy is ahead of the object, and one of its version is the object.   *)
(* After a Delete there is no object to compare with, and never again.     *)
Faithful(x) ==
  object.version # 0 =>
    /\ x.version <= object.version
    /\ x.version = object.version => x.by = object.by

Stale(x) == object.version # 0 => x.version < object.version

Copies ==
  /\ \A c \in Clients : Faithful(held[c])
  /\ \A m \in net : Faithful(m.base)

(* A number names one call; a call that runs has one.                      *)
Calls ==
  /\ \A c \in Clients :
       /\ op[c].n <= begun
       /\ pc[c] # "idle" => op[c].n # 0
  /\ \A c, d \in Clients : op[c].n = op[d].n /\ op[c].n # 0 => c = d

(* A request says what its call says, and there is one per attempt.        *)
Requests ==
  /\ \A m \in net :
       /\ m.op <= begun
       /\ m.id = <<m.op, 0>>
       /\ \A c \in Clients : m.op = op[c].n =>
            /\ m.kind = op[c].kind
            /\ m.file = op[c].file
            /\ m.attempt <= attempt[c]
            /\ pc[c] = "send" => m.attempt < attempt[c]
  /\ \A m, w \in net : m.op = w.op /\ m.attempt = w.attempt => m = w

(* An update is carried out once, however often it was sent.               *)
UpdatesOnce ==
  \A j, k \in DOMAIN applied : applied[j].by = applied[k].by => j = k

(* The object is the last update's, and what is left of a call that was    *)
(* carried out cannot match it any more.                                   *)
History ==
  /\ object.version # 0 =>
       object.by = IF applied = <<>> THEN 0 ELSE applied[Len(applied)].by
  /\ \A k \in DOMAIN applied : applied[k].by <= begun
  /\ \A m \in net : CarriedOut(m.op) => Stale(m.base)
  /\ \A c \in Clients : pc[c] # "idle" /\ CarriedOut(op[c].n) => Stale(held[c])

(* A first attempt that was carried out or answered has left the network.  *)
FirstAttempts ==
  \A c \in Clients :
    /\ outcome[c] # "none" => pc[c] = "idle"
    /\ attempt[c] = 0 /\ (CarriedOut(op[c].n) \/ outcome[c] \in {"ok", "conflict"}) =>
         /\ pc[c] # "send"
         /\ \A m \in net : m.op # op[c].n

(* A document is known by its file, and carries the id of the one call     *)
(* that made it.                                                           *)
Documents ==
  /\ \A d \in docs :
       /\ d.id[1] <= begun
       /\ d.id[2] = 0
       /\ \A c \in Clients : d.id[1] = op[c].n => d.file = op[c].file
  /\ \A d, e \in docs : d.file = e.file => d = e
  /\ \A c \in Clients :
       outcome[c] = "duplicate" => \E d \in docs : d.file = op[c].file

IInv ==
  /\ TypeOK /\ Calls /\ Requests /\ Copies
  /\ History /\ NoLostUpdate /\ UpdatesOnce
  /\ FirstAttempts /\ AcknowledgedIsApplied
  /\ Documents /\ DuplicateIsForeign

-----------------------------------------------------------------------------
(* What a step can be. *)
LEMMA StepCases ==
  ASSUME [Next]_vars
  PROVE  \/ \E c \in Clients :
              \/ Get(c) \/ Send(c) \/ GiveUp(c) \/ Cancel(c)
              \/ \E kind \in Kinds : Begin(c, kind)
         \/ \E m \in net : Serve(m) \/ Forbidden(m)
         \/ UNCHANGED vars
BY DEF Next

(* An answer changes nothing, or ends the one call that waits for it.      *)
Told(m, how) ==
  \A c \in Clients :
    \/ pc'[c] = pc[c] /\ outcome'[c] = outcome[c]
    \/ /\ pc[c] = "wait" /\ pc'[c] = "idle" /\ outcome'[c] = how
       /\ c = m.client /\ op[c].n = m.op /\ attempt[c] = m.attempt

(* What a call does that gives up an attempt or is cancelled.              *)
LEMMA CallerFacts ==
  ASSUME TypeOK, NEW c \in Clients, GiveUp(c) \/ Cancel(c)
  PROVE  /\ UNCHANGED <<begun, op, held, net, object, docs, applied>>
         /\ pc[c] # "idle"
         /\ pc' \in [Clients -> {"idle", "send", "wait"}]
         /\ outcome' \in [Clients ->
              {"none", "ok", "conflict", "notFound", "duplicate", "error"}]
         /\ attempt' \in [Clients -> 0..MaxAttempts]
         /\ \A d \in Clients :
              \/ d = c /\ attempt'[d] = attempt[d] + 1 /\ outcome'[d] = outcome[d]
              \/ /\ d = c /\ attempt'[d] = attempt[d]
                 /\ pc'[d] = "idle" /\ outcome'[d] = "error"
              \/ d # c /\ attempt'[d] = attempt[d] /\ pc'[d] = pc[d] /\ outcome'[d] = outcome[d]
<1> USE DEF TypeOK
<1>1. CASE GiveUp(c) /\ ShouldRetry(c)
  <2>1. attempt[c] + 1 \in 0..MaxAttempts
    BY <1>1, WritesAssumption DEF ShouldRetry, WritesAssumption
  <2> QED
    BY <1>1, <2>1 DEF GiveUp
<1>2. CASE (GiveUp(c) /\ ~ShouldRetry(c)) \/ Cancel(c)
  BY <1>2 DEF GiveUp, Cancel, Return
<1> QED
  BY <1>1, <1>2

(* A 403 changes nothing but the call that waits for the answer: that ends,*)
(* or sends the attempt again.                                             *)
LEMMA ForbiddenFacts ==
  ASSUME TypeOK, NEW m \in net, Forbidden(m)
  PROVE  /\ UNCHANGED <<begun, op, attempt, held, object, docs, applied>>
         /\ net' = net \ {m}
         /\ pc' \in [Clients -> {"idle", "send", "wait"}]
         /\ outcome' \in [Clients ->
              {"none", "ok", "conflict", "notFound", "duplicate", "error"}]
         /\ \A d \in Clients :
              \/ pc'[d] = pc[d] /\ outcome'[d] = outcome[d]
              \/ /\ pc[d] = "wait" /\ op[d].n = m.op /\ attempt[d] = m.attempt
                 /\ \/ pc'[d] = "send" /\ outcome'[d] = outcome[d]
                    \/ pc'[d] = "idle" /\ outcome'[d] = "error"
<1>1. m.client \in Clients
  BY DEF TypeOK, Message
<1> QED
  BY <1>1 DEF TypeOK, Forbidden, Answer, Reply, Return, Awaited, callVars

(* What serving m does to the calls. *)
LEMMA ServeFacts ==
  ASSUME TypeOK, NEW m \in net, Serve(m)
  PROVE  /\ begun' = begun /\ op' = op /\ attempt' = attempt /\ net' = net \ {m}
         /\ pc' \in [Clients -> {"idle", "send", "wait"}]
         /\ outcome' \in [Clients ->
              {"none", "ok", "conflict", "notFound", "duplicate", "error"}]
         /\ \A c \in Clients : pc'[c] = "idle" \/ pc'[c] = pc[c]
         /\ Update(m) => Told(m, "ok")
         /\ Conflict(m) => Told(m, "conflict")
         /\ Delete(m) => Told(m, "ok")
         /\ NotFound(m) => Told(m, "notFound")
         /\ Store(m) => Told(m, "ok")
         /\ Known(m) => \E d \in docs :
              /\ d.file = m.file
              /\ Told(m, IF d.id = ClientId(m.client) THEN "ok" ELSE "duplicate")
<1> DEFINE Hows == {"ok", "conflict", "notFound", "duplicate"}
           Calm(how) ==
             /\ begun' = begun /\ op' = op /\ attempt' = attempt
             /\ pc' \in [Clients -> {"idle", "send", "wait"}]
             /\ outcome' \in [Clients ->
                  {"none", "ok", "conflict", "notFound", "duplicate", "error"}]
             /\ Told(m, how)
<1>1. m.client \in Clients
  BY DEF TypeOK, Message
<1>2. ASSUME NEW how \in Hows, Answer(m, how) PROVE Calm(how)
  BY <1>1, <1>2 DEF TypeOK, Answer, Reply, Return, Awaited, Told, callVars
<1>3. net' = net \ {m}
  BY DEF Serve
<1>4. Update(m) => Answer(m, "ok")
  BY DEF Update, Answer
<1>5. Conflict(m) => Answer(m, "conflict")
  BY DEF Conflict
<1>6. Delete(m) => Answer(m, "ok")
  BY DEF Delete
<1>7. NotFound(m) => Answer(m, "notFound")
  BY DEF NotFound
<1>8. Store(m) => Answer(m, "ok")
  BY DEF Store
<1>9. Known(m) => \E d \in docs :
        /\ d.file = m.file
        /\ Answer(m, IF d.id = ClientId(m.client) THEN "ok" ELSE "duplicate")
  BY DEF Known
<1> HIDE DEF Calm
<1>10. \A how \in Hows : Answer(m, how) => Calm(how)
  BY <1>2
<1>11. \E how \in Hows : Calm(how)
  BY <1>4, <1>5, <1>6, <1>7, <1>8, <1>9, <1>10 DEF Serve
<1>12. \A how \in Hows : Calm(how) => Told(m, how)
  BY DEF Calm
<1>13. \A c \in Clients : pc'[c] = "idle" \/ pc'[c] = pc[c]
  BY <1>11, <1>12 DEF Told
<1>14. /\ begun' = begun /\ op' = op /\ attempt' = attempt
       /\ pc' \in [Clients -> {"idle", "send", "wait"}]
       /\ outcome' \in [Clients ->
            {"none", "ok", "conflict", "notFound", "duplicate", "error"}]
  BY <1>11 DEF Calm
<1> HIDE DEF Told
<1> QED
  BY <1>3, <1>4, <1>5, <1>6, <1>7, <1>8, <1>9, <1>10, <1>12, <1>13, <1>14

(* A call that runs has a number of its own, so what it sends is typed. *)
LEMMA TypeStep ==
  ASSUME TypeOK, Calls, [Next]_vars
  PROVE  TypeOK' /\ Calls'
<1> USE WritesAssumption DEF WritesAssumption, TypeOK, Calls, Copy, Kinds, DocIds, Ops, callVars
<1>1. ASSUME NEW c \in Clients, Get(c) PROVE TypeOK' /\ Calls'
  BY <1>1 DEF Get
<1>2. ASSUME NEW c \in Clients, NEW kind \in Kinds, Begin(c, kind)
      PROVE  TypeOK' /\ Calls'
  <2>1. TypeOK'
    BY <1>2 DEF Begin
  <2>2. Calls'
    BY <1>2 DEF Begin
  <2> QED
    BY <2>1, <2>2
<1>3. ASSUME NEW c \in Clients, Send(c) PROVE TypeOK' /\ Calls'
  BY <1>3 DEF Send, ClientId, Message
<1>4. ASSUME NEW c \in Clients, GiveUp(c) \/ Cancel(c) PROVE TypeOK' /\ Calls'
  <2>1. TypeOK'
    BY <1>4, CallerFacts
  <2>2. \A d \in Clients : pc'[d] # "idle" => pc[d] # "idle"
    BY <1>4, CallerFacts
  <2>3. begun' = begun /\ op' = op
    BY <1>4, CallerFacts
  <2>4. Calls'
    BY <2>2, <2>3
  <2> QED
    BY <2>1, <2>4
<1>5. ASSUME NEW m \in net, Serve(m) PROVE TypeOK' /\ Calls'
  <2>1. m \in Message /\ m.client \in Clients
    BY DEF Message
  <2>2. /\ begun' = begun /\ op' = op /\ attempt' = attempt /\ net' = net \ {m}
        /\ pc' \in [Clients -> {"idle", "send", "wait"}]
        /\ outcome' \in [Clients ->
             {"none", "ok", "conflict", "notFound", "duplicate", "error"}]
        /\ \A c \in Clients : pc'[c] = "idle" \/ pc'[c] = pc[c]
    BY <1>5, ServeFacts
  <2>3. /\ object' \in Copy /\ held' \in [Clients -> Copy]
        /\ applied' \in Seq([by : Ops, over : {0} \cup Ops])
    <3>1. CASE Update(m)
      <4>1. m.op \in Ops /\ m.base.by \in {0} \cup Ops
        BY DEF Message
      <4>2. [version |-> object.version + 1, by |-> m.op] \in Copy
        BY <4>1
      <4>3. [by |-> m.op, over |-> m.base.by] \in [by : Ops, over : {0} \cup Ops]
        BY <4>1
      <4>4. object' \in Copy /\ held' \in [Clients -> Copy]
        <5>1. held \in [Clients -> Copy]
          OBVIOUS
        <5> HIDE DEF TypeOK, Calls, Copy
        <5> QED
          BY <2>1, <3>1, <4>2, <5>1 DEF Update
      <4>5. applied' \in Seq([by : Ops, over : {0} \cup Ops])
        BY <3>1, <4>3 DEF Update
      <4> QED
        BY <4>4, <4>5
    <3>2. CASE ~Update(m)
      BY <1>5, <3>2 DEF Serve, Conflict, Delete, NotFound, Store, Known, Absent
    <3> QED
      BY <3>1, <3>2
  <2>5. docs' \subseteq [id : DocIds, file : Files]
    BY <1>5, <2>1 DEF Serve, Update, Conflict, Delete, NotFound, Store, Known, Message
  <2>6. TypeOK'
    BY <2>2, <2>3, <2>5
  <2>7. Calls'
    BY <2>1, <2>2
  <2> QED
    BY <2>6, <2>7
<1>6. ASSUME NEW m \in net, Forbidden(m) PROVE TypeOK' /\ Calls'
  <2>1. TypeOK'
    BY <1>6, ForbiddenFacts
  <2> QED
    BY <1>6, <2>1, ForbiddenFacts
<1>7. CASE UNCHANGED vars
  BY <1>7 DEF vars, callVars
<1> QED
  BY <1>1, <1>2, <1>3, <1>4, <1>5, <1>6, <1>7, StepCases

(* What is on its way is only added to by Send. *)
LEMMA RequestsStep ==
  ASSUME TypeOK, Calls, Requests, [Next]_vars
  PROVE  Requests'
<1> USE DEF Requests, callVars
<1>1. ASSUME NEW c \in Clients, Get(c) PROVE Requests'
  BY <1>1 DEF Get
<1>2. ASSUME NEW c \in Clients, NEW kind \in Kinds, Begin(c, kind) PROVE Requests'
  <2>1. begun' = begun + 1 /\ net' = net
    BY <1>2 DEF Begin, TypeOK
  <2>2. ASSUME NEW d \in Clients
        PROVE  \/ op'[d].n = begun + 1
               \/ op'[d] = op[d] /\ attempt'[d] = attempt[d] /\ pc'[d] = pc[d]
    BY <1>2 DEF Begin, TypeOK
  <2>3. begun \in Nat /\ \A m \in net : m.op \in Nat /\ m.op <= begun
    BY DEF TypeOK, Message, Ops
  <2> QED
    BY <2>1, <2>2, <2>3
<1>3. ASSUME NEW c \in Clients, Send(c) PROVE Requests'
  <2> DEFINE new == [client |-> c, op |-> op[c].n, attempt |-> attempt[c],
                     kind |-> op[c].kind, base |-> held[c], id |-> ClientId(c),
                     file |-> op[c].file]
  <2>1. /\ net' = net \cup {new} /\ begun' = begun /\ op' = op /\ attempt' = attempt
        /\ pc[c] = "send" /\ pc'[c] = "wait"
        /\ \A d \in Clients : d # c => pc'[d] = pc[d]
    BY <1>3 DEF Send, TypeOK
  <2>2. ASSUME NEW m \in net, m.op = op[c].n PROVE m.attempt # attempt[c]
    <3>1. m.attempt < attempt[c] /\ attempt[c] \in Nat /\ m.attempt \in Nat
      BY <2>1, <2>2 DEF TypeOK, Message
    <3> QED
      BY <3>1
  <2>3. \A m, w \in net' : m.op = w.op /\ m.attempt = w.attempt => m = w
    BY <2>1, <2>2
  <2>4. ASSUME NEW d \in Clients, op[c].n = op[d].n PROVE d = c
    BY <2>1, <2>4 DEF Calls
  <2>5. ASSUME NEW m \in net'
        PROVE  /\ m.op <= begun'
               /\ m.id = <<m.op, 0>>
               /\ \A d \in Clients : m.op = op'[d].n =>
                    /\ m.kind = op'[d].kind
                    /\ m.file = op'[d].file
                    /\ m.attempt <= attempt'[d]
                    /\ pc'[d] = "send" => m.attempt < attempt'[d]
    <3>1. CASE m = new
      <4>1. new.op = op[c].n /\ new.id = <<op[c].n, 0>> /\ new.kind = op[c].kind
            /\ new.file = op[c].file /\ new.attempt = attempt[c]
        BY DEF ClientId
      <4>2. op[c].n <= begun /\ attempt[c] <= attempt[c]
        BY DEF Calls, TypeOK
      <4> HIDE DEF new
      <4> QED
        BY <2>1, <2>4, <3>1, <4>1, <4>2
    <3>2. CASE m \in net
      BY <2>1, <3>2
    <3> QED
      BY <2>1, <3>1, <3>2
  <2> QED
    BY <2>3, <2>5
<1>4. ASSUME NEW c \in Clients, GiveUp(c) \/ Cancel(c) PROVE Requests'
  <2>1. begun' = begun /\ op' = op /\ net' = net
    BY <1>4, CallerFacts
  <2>2. ASSUME NEW d \in Clients
        PROVE  \/ attempt'[d] = attempt[d] + 1
               \/ attempt'[d] = attempt[d] /\ (pc'[d] = pc[d] \/ pc'[d] = "idle")
    BY <1>4, CallerFacts
  <2>3. /\ \A d \in Clients : attempt[d] \in Nat
        /\ \A m \in net : m.attempt \in Nat
    BY DEF TypeOK, Message
  <2> QED
    BY <2>1, <2>2, <2>3
<1>5. ASSUME NEW m \in net, Serve(m) PROVE Requests'
  <2>1. /\ begun' = begun /\ op' = op /\ attempt' = attempt /\ net' \subseteq net
        /\ \A d \in Clients : pc'[d] = "send" => pc[d] = "send"
    BY <1>5, ServeFacts
  <2> QED
    BY <2>1
<1>6. ASSUME NEW m \in net, Forbidden(m) PROVE Requests'
  <2>1. /\ begun' = begun /\ op' = op /\ attempt' = attempt /\ net' = net \ {m}
        /\ \A d \in Clients : pc'[d] = "send" =>
             pc[d] = "send" \/ (op[d].n = m.op /\ attempt[d] = m.attempt)
    BY <1>6, ForbiddenFacts
  <2>2. /\ \A d \in Clients : attempt[d] \in Nat
        /\ \A w \in net : w.attempt \in Nat
    BY DEF TypeOK, Message
  <2>3. ASSUME NEW w \in net', NEW d \in Clients, w.op = op[d].n, pc'[d] = "send"
        PROVE  w.attempt < attempt[d]
    <3>1. CASE pc[d] = "send"
      BY <2>1, <2>3, <3>1
    <3>2. CASE op[d].n = m.op /\ attempt[d] = m.attempt
      <4>1. w.attempt # m.attempt /\ w.attempt <= attempt[d]
        BY <2>1, <2>3, <3>2
      <4> QED
        BY <2>1, <2>2, <3>2, <4>1
    <3> QED
      BY <2>1, <2>3, <3>1, <3>2
  <2> QED
    BY <2>1, <2>3
<1>7. CASE UNCHANGED vars
  BY <1>7 DEF vars
<1> QED
  BY <1>1, <1>2, <1>3, <1>4, <1>5, <1>6, <1>7, StepCases

(* No request or copy is ahead of the object.                              *)
LEMMA CopiesStep ==
  ASSUME TypeOK, Copies, [Next]_vars
  PROVE  Copies'
<1> USE DEF Copies, Faithful, callVars
<1>1. /\ object.version \in Nat /\ \A m \in net : m.base.version \in Nat /\ m.client \in Clients
      /\ \A c \in Clients : held[c].version \in Nat
  BY DEF TypeOK, Copy, Message
<1>2. ASSUME NEW c \in Clients, Get(c) PROVE Copies'
  BY <1>1, <1>2 DEF Get, TypeOK
<1>3. ASSUME NEW c \in Clients, NEW kind \in Kinds, Begin(c, kind) PROVE Copies'
  BY <1>3 DEF Begin
<1>4. ASSUME NEW c \in Clients, Send(c) PROVE Copies'
  BY <1>4 DEF Send
<1>5. ASSUME NEW c \in Clients, GiveUp(c) \/ Cancel(c) PROVE Copies'
  BY <1>5, CallerFacts
<1>6. ASSUME NEW m \in net, Serve(m) PROVE Copies'
  <2>1. net' \subseteq net
    BY <1>6 DEF Serve
  <2>2. CASE Update(m)
    <3> DEFINE new == [version |-> object.version + 1, by |-> m.op]
    <3>1. object.version # 0 /\ object' = new
      BY <2>2 DEF Update, Matches
    <3>2. \A c \in Clients : held'[c] = held[c] \/ held'[c] = new
      BY <2>2, <1>1 DEF Update, TypeOK
    <3>3. new.version = object.version + 1
      OBVIOUS
    <3> HIDE DEF new
    <3> QED
      BY <1>1, <2>1, <3>1, <3>2, <3>3
  <2>3. CASE Delete(m)
    BY <2>1, <2>3 DEF Delete, Absent
  <2>4. CASE Conflict(m) \/ NotFound(m) \/ Store(m) \/ Known(m)
    BY <2>1, <2>4 DEF Conflict, NotFound, Store, Known
  <2> QED
    BY <1>6, <2>2, <2>3, <2>4 DEF Serve
<1>7. ASSUME NEW m \in net, Forbidden(m) PROVE Copies'
  BY <1>7, ForbiddenFacts
<1>8. CASE UNCHANGED vars
  BY <1>8 DEF vars
<1> QED
  BY <1>2, <1>3, <1>4, <1>5, <1>6, <1>7, <1>8, StepCases

(* What carrying out an update adds to the history.                        *)
LEMMA AppendFacts ==
  ASSUME TypeOK, NEW m \in net, Update(m)
  PROVE  /\ Len(applied) \in Nat /\ DOMAIN applied = 1..Len(applied)
         /\ applied = <<>> <=> Len(applied) = 0
         /\ DOMAIN applied' = 1..(Len(applied) + 1) /\ Len(applied') = Len(applied) + 1
         /\ \A k \in DOMAIN applied : applied'[k] = applied[k]
         /\ applied'[Len(applied) + 1].by = m.op
         /\ applied'[Len(applied) + 1].over = m.base.by
<1> DEFINE e == [by |-> m.op, over |-> m.base.by]
           S == [by : Ops, over : {0} \cup Ops]
<1>1. m.op \in Ops /\ m.base.by \in {0} \cup Ops
  BY DEF TypeOK, Message, Copy
<1>2. e \in S /\ e.by = m.op /\ e.over = m.base.by
  BY <1>1
<1>3. applied \in Seq(S)
  BY DEF TypeOK
<1>4. applied' = Append(applied, e)
  BY DEF Update
<1> HIDE DEF e, S
<1> QED
  BY <1>2, <1>3, <1>4

(* A request that matches is the object's present state, and after it none *)
(* of the same call matches.                                               *)
LEMMA HistoryStep ==
  ASSUME TypeOK, Calls, Requests, Copies, History, [Next]_vars
  PROVE  History'
<1> USE DEF History, CarriedOut, Stale, callVars
<1>1. ASSUME NEW c \in Clients, Get(c) PROVE History'
  BY <1>1 DEF Get, TypeOK
<1>2. ASSUME NEW c \in Clients, NEW kind \in Kinds, Begin(c, kind) PROVE History'
  <2>1. /\ applied' = applied /\ object' = object /\ net' = net /\ held' = held
        /\ begun' = begun + 1
    BY <1>2 DEF Begin
  <2>2. ASSUME NEW d \in Clients
        PROVE  op'[d].n = begun + 1 \/ (op'[d] = op[d] /\ pc'[d] = pc[d])
    BY <1>2 DEF Begin, TypeOK
  <2> DEFINE S == [by : Ops, over : {0} \cup Ops]
  <2>3. begun \in Nat /\ applied \in Seq(S) /\ \A e \in S : e.by \in Nat
    BY DEF TypeOK, Ops
  <2> HIDE DEF S
  <2>4. \A k \in DOMAIN applied : applied[k].by # begun + 1 /\ applied[k].by <= begun + 1
    <3>1. \A k \in DOMAIN applied : applied[k].by \in Nat
      BY <2>3
    <3> QED
      BY <2>3, <3>1
  <2> QED
    BY <2>1, <2>2, <2>4
<1>3. ASSUME NEW c \in Clients, Send(c) PROVE History'
  <2>1. /\ applied' = applied /\ object' = object /\ begun' = begun /\ op' = op
        /\ held' = held /\ pc[c] = "send"
        /\ \A d \in Clients : pc'[d] # "idle" => pc[d] # "idle"
    BY <1>3 DEF Send, TypeOK
  <2>2. \A m \in net' : m \in net \/ (m.op = op[c].n /\ m.base = held[c])
    BY <1>3 DEF Send
  <2> QED
    BY <2>1, <2>2
<1>4. ASSUME NEW c \in Clients, GiveUp(c) \/ Cancel(c) PROVE History'
  <2>1. \A d \in Clients : pc'[d] # "idle" => pc[d] # "idle"
    BY <1>4, CallerFacts
  <2>2. UNCHANGED <<begun, op, held, net, object, applied>>
    BY <1>4, CallerFacts
  <2> QED
    BY <2>1, <2>2
<1>5. ASSUME NEW m \in net, Serve(m) PROVE History'
  <2>1. /\ net' \subseteq net /\ begun' = begun /\ op' = op
        /\ \A c \in Clients : pc'[c] # "idle" => pc[c] # "idle"
    BY <1>5, ServeFacts
  <2>2. CASE Update(m)
    <3>1. /\ object.version # 0
          /\ object'.version = object.version + 1 /\ object'.by = m.op
      BY <2>2 DEF Update, Matches
    <3>2. \A c \in Clients : pc'[c] # "idle" => held'[c] = held[c]
      BY <2>2 DEF Update, Reply, Return, TypeOK, Message
    <3>3. /\ object.version \in Nat
          /\ \A w \in net : w.base.version \in Nat
          /\ \A c \in Clients : held[c].version \in Nat
      BY DEF TypeOK, Message, Copy
    <3>4. /\ \A w \in net : w.base.version <= object.version
          /\ \A c \in Clients : held[c].version <= object.version
      BY <3>1 DEF Copies, Faithful
    <3>5. m.op <= begun
      BY DEF Requests
    <3>6. \A k \in DOMAIN applied' : applied'[k].by <= begun
      BY <2>2, <3>5, AppendFacts
    <3>7. object'.by = IF applied' = <<>> THEN 0 ELSE applied'[Len(applied')].by
      <4>1. applied'[Len(applied')].by = m.op /\ applied' # <<>>
        BY <2>2, AppendFacts
      <4> QED
        BY <3>1, <4>1
    <3>8. /\ \A w \in net' : w.base.version < object'.version
          /\ \A c \in Clients : pc'[c] # "idle" => held'[c].version < object'.version
      BY <2>1, <3>1, <3>2, <3>3, <3>4
    <3> QED
      BY <2>1, <3>6, <3>7, <3>8
  <2>3. CASE Delete(m)
    BY <2>1, <2>3 DEF Delete, Absent
  <2>4. CASE Conflict(m) \/ NotFound(m) \/ Store(m) \/ Known(m)
    BY <2>1, <2>4 DEF Conflict, NotFound, Store, Known
  <2> QED
    BY <1>5, <2>2, <2>3, <2>4 DEF Serve
<1>6. ASSUME NEW m \in net, Forbidden(m) PROVE History'
  <2>1. \A d \in Clients : pc'[d] # "idle" => pc[d] # "idle"
    BY <1>6, ForbiddenFacts
  <2>2. UNCHANGED <<begun, op, held, object, applied>> /\ net' \subseteq net
    BY <1>6, ForbiddenFacts
  <2> QED
    BY <2>1, <2>2
<1>7. CASE UNCHANGED vars
  BY <1>7 DEF vars
<1> QED
  BY <1>1, <1>2, <1>3, <1>4, <1>5, <1>6, <1>7, StepCases

(* Only Update adds to the history. *)
LEMMA AppliedStep ==
  ASSUME [Next]_vars
  PROVE  applied' = applied \/ \E m \in net : Update(m)
BY StepCases
   DEF Get, Send, GiveUp, Cancel, Begin, Serve, Forbidden, Conflict, Delete, NotFound,
       Store, Known, vars

(* An update that matches was made from the last one, and was not carried  *)
(* out before.                                                             *)
LEMMA UpdateOnLast ==
  ASSUME TypeOK, Copies, History, NEW m \in net, Update(m)
  PROVE  /\ m.base.by = IF applied = <<>> THEN 0 ELSE applied[Len(applied)].by
         /\ ~CarriedOut(m.op)
<1>1. object.version # 0 /\ m.base.version = object.version
  BY DEF Update, Matches
<1>2. m.base.by = object.by
  BY <1>1 DEF Copies, Faithful
<1>3. object.version \in Nat
  BY DEF TypeOK, Copy
<1>4. ~Stale(m.base)
  BY <1>1, <1>3 DEF Stale
<1> QED
  BY <1>1, <1>2, <1>4 DEF History

(* So every update is made from the one before, and made once.             *)
LEMMA ChainStep ==
  ASSUME TypeOK, Copies, History, NoLostUpdate, UpdatesOnce, [Next]_vars
  PROVE  NoLostUpdate' /\ UpdatesOnce'
<1>1. CASE applied' = applied
  BY <1>1 DEF NoLostUpdate, UpdatesOnce
<1>2. ASSUME NEW m \in net, Update(m) PROVE NoLostUpdate' /\ UpdatesOnce'
  <2> DEFINE n == Len(applied)
  <2>1. /\ n \in Nat /\ DOMAIN applied = 1..n /\ (applied = <<>> <=> n = 0)
        /\ DOMAIN applied' = 1..(n + 1)
        /\ \A k \in 1..n : applied'[k] = applied[k]
        /\ applied'[n + 1].by = m.op /\ applied'[n + 1].over = m.base.by
    BY <1>2, AppendFacts
  <2>2. /\ m.base.by = IF n = 0 THEN 0 ELSE applied[n].by
        /\ \A k \in 1..n : applied[k].by # m.op
    BY <1>2, <2>1, UpdateOnLast DEF CarriedOut
  <2> HIDE DEF n
  <2>3. NoLostUpdate'
    <3>1. ASSUME NEW k \in 1..(n + 1)
          PROVE  applied'[k].over = IF k = 1 THEN 0 ELSE applied'[k - 1].by
      <4>1. CASE k = n + 1
        BY <2>1, <2>2, <4>1
      <4>2. CASE k \in 1..n
        <5>1. k = 1 \/ k - 1 \in 1..n
          BY <2>1, <4>2
        <5> QED
          BY <2>1, <4>2, <5>1 DEF NoLostUpdate
      <4> QED
        BY <2>1, <4>1, <4>2
    <3> QED
      BY <2>1, <3>1 DEF NoLostUpdate
  <2>4. UpdatesOnce'
    <3>1. ASSUME NEW j \in 1..(n + 1), NEW k \in 1..(n + 1), applied'[j].by = applied'[k].by
          PROVE  j = k
      <4>1. (j \in 1..n \/ j = n + 1) /\ (k \in 1..n \/ k = n + 1)
        BY <2>1
      <4> QED
        BY <2>1, <2>2, <3>1, <4>1 DEF UpdatesOnce
    <3> QED
      BY <2>1, <3>1 DEF UpdatesOnce
  <2> QED
    BY <2>3, <2>4
<1> QED
  BY <1>1, <1>2, AppliedStep

(* A request of a call that made one attempt is the only one.              *)
LEMMA OnlyRequest ==
  ASSUME TypeOK, Requests, NEW c \in Clients, attempt[c] = 0,
         NEW m \in net, m.op = op[c].n
  PROVE  pc[c] # "send" /\ \A w \in net : w.op = op[c].n => w = m
<1>1. \A w \in net : w.attempt \in Nat
  BY DEF TypeOK, Message
<1>2. \A w \in net : w.op = op[c].n => w.attempt = 0 /\ pc[c] # "send"
  BY <1>1 DEF Requests
<1> QED
  BY <1>2 DEF Requests

(* What ends a first attempt takes its request from the network.           *)
LEMMA FirstAttemptsStep ==
  ASSUME TypeOK, Calls, Requests, History, FirstAttempts, [Next]_vars
  PROVE  FirstAttempts'
<1> USE DEF FirstAttempts, CarriedOut, callVars
<1>1. ASSUME NEW c \in Clients, Get(c) PROVE FirstAttempts'
  BY <1>1 DEF Get
<1>2. ASSUME NEW c \in Clients, NEW kind \in Kinds, Begin(c, kind) PROVE FirstAttempts'
  <2>1. applied' = applied /\ net' = net
    BY <1>2 DEF Begin
  <2>2. ASSUME NEW d \in Clients
        PROVE  \/ op'[d].n = begun + 1 /\ outcome'[d] = "none"
               \/ /\ op'[d] = op[d] /\ pc'[d] = pc[d]
                  /\ outcome'[d] = outcome[d] /\ attempt'[d] = attempt[d]
    BY <1>2 DEF Begin, TypeOK
  <2>3. begun \in Nat
    BY DEF TypeOK
  <2>4. \A k \in DOMAIN applied : applied[k].by # begun + 1
    BY <2>3 DEF History
  <2> QED
    BY <2>1, <2>2, <2>4
<1>3. ASSUME NEW c \in Clients, Send(c) PROVE FirstAttempts'
  <2>1. /\ applied' = applied /\ op' = op /\ outcome' = outcome /\ attempt' = attempt
        /\ pc[c] = "send"
        /\ \A d \in Clients : d # c => pc'[d] = pc[d]
    BY <1>3 DEF Send, TypeOK
  <2>2. \A m \in net' : m \in net \/ m.op = op[c].n
    BY <1>3 DEF Send
  <2>3. \A d \in Clients : d # c => op[d].n # op[c].n
    BY <2>1 DEF Calls
  <2> QED
    BY <2>1, <2>2, <2>3
<1>4. ASSUME NEW c \in Clients, GiveUp(c) \/ Cancel(c) PROVE FirstAttempts'
  <2>1. applied' = applied /\ op' = op /\ net' = net /\ pc[c] # "idle"
    BY <1>4, CallerFacts
  <2>2. ASSUME NEW d \in Clients
        PROVE  \/ attempt'[d] = attempt[d] + 1 /\ outcome'[d] = outcome[d] /\ pc[d] # "idle"
               \/ attempt'[d] = attempt[d] /\ pc'[d] = "idle" /\ outcome'[d] = "error"
               \/ /\ attempt'[d] = attempt[d] /\ pc'[d] = pc[d]
                  /\ outcome'[d] = outcome[d]
    BY <1>4, CallerFacts
  <2>3. \A d \in Clients : attempt[d] \in Nat
    BY DEF TypeOK
  <2>4. ASSUME NEW d \in Clients, attempt'[d] = attempt[d] + 1 PROVE attempt'[d] # 0
    BY <2>3, <2>4
  <2>5. ASSUME NEW d \in Clients,
               pc'[d] = "idle", attempt'[d] = attempt[d], outcome'[d] = "error",
               attempt[d] = 0, CarriedOut(op[d].n)
        PROVE  \A m \in net : m.op # op[d].n
    BY <2>5
  <2> HIDE DEF CarriedOut
  <2>6. \A n : CarriedOut(n)' <=> CarriedOut(n)
    BY <2>1 DEF CarriedOut
  <2> QED
    BY <2>1, <2>2, <2>4, <2>5, <2>6
<1>5. ASSUME NEW m \in net, Serve(m) PROVE FirstAttempts'
  <2>1. /\ net' = net \ {m} /\ op' = op /\ attempt' = attempt
        /\ \E how : Told(m, how)
    BY <1>5, ServeFacts DEF Serve
  <2>2. \A n : CarriedOut(n)' => CarriedOut(n) \/ n = m.op
    <3>1. CASE Update(m)
      BY <3>1, AppendFacts
    <3>2. CASE ~Update(m)
      BY <1>5, <3>2 DEF Serve, Conflict, Delete, NotFound, Store, Known
    <3> QED
      BY <3>1, <3>2
  <2> SUFFICES ASSUME NEW c \in Clients
               PROVE  /\ outcome'[c] # "none" => pc'[c] = "idle"
                      /\ /\ attempt[c] = 0
                         /\ CarriedOut(op[c].n)' \/ outcome'[c] \in {"ok", "conflict"}
                         => /\ pc'[c] # "send"
                            /\ \A w \in net' : w.op # op[c].n
    BY <2>1
  <2>3. \/ pc'[c] = pc[c] /\ outcome'[c] = outcome[c]
        \/ pc'[c] = "idle" /\ op[c].n = m.op
    BY <2>1 DEF Told
  <2> HIDE DEF CarriedOut
  <2>4. CASE m.op = op[c].n /\ attempt[c] = 0
    BY <2>1, <2>3, <2>4, OnlyRequest
  <2>5. CASE m.op # op[c].n \/ attempt[c] # 0
    BY <2>1, <2>2, <2>3, <2>5
  <2> QED
    BY <2>4, <2>5
<1>6. ASSUME NEW m \in net, Forbidden(m) PROVE FirstAttempts'
  <2>1. applied' = applied /\ op' = op /\ attempt' = attempt /\ net' = net \ {m}
    BY <1>6, ForbiddenFacts
  <2>2. ASSUME NEW d \in Clients
        PROVE  \/ pc'[d] = pc[d] /\ outcome'[d] = outcome[d]
               \/ pc'[d] = "idle" /\ outcome'[d] = "error"
               \/ pc[d] = "wait" /\ outcome'[d] = outcome[d] /\ op[d].n = m.op
    BY <1>6, ForbiddenFacts
  <2> HIDE DEF CarriedOut
  <2>3. \A n : CarriedOut(n)' <=> CarriedOut(n)
    BY <2>1 DEF CarriedOut
  <2> QED
    BY <2>1, <2>2, <2>3
<1>7. CASE UNCHANGED vars
  BY <1>7 DEF vars
<1> QED
  BY <1>1, <1>2, <1>3, <1>4, <1>5, <1>6, <1>7, StepCases

(* The answer to the awaited request, or the state before it.              *)
LEMMA AcknowledgedStep ==
  ASSUME TypeOK, Requests, FirstAttempts, AcknowledgedIsApplied, [Next]_vars
  PROVE  AcknowledgedIsApplied'
<1> DEFINE Said(c) ==
      /\ pc[c] = "idle" /\ op[c].kind = "update"
      /\ outcome[c] = "ok" \/ (outcome[c] = "conflict" /\ attempt[c] = 0)
           Now(n) == \E k \in DOMAIN applied' : applied'[k].by = n
<1>0. AcknowledgedIsApplied <=>
        \A c \in Clients : Said(c) => (outcome[c] = "ok" <=> CarriedOut(op[c].n))
  BY DEF AcknowledgedIsApplied, CarriedOut
<1>1. ASSUME NEW c \in Clients,
             Get(c) \/ Send(c) \/ \E kind \in Kinds : Begin(c, kind)
      PROVE  AcknowledgedIsApplied'
  <2>1. applied' = applied
    BY <1>1 DEF Get, Send, Begin
  <2>2. ASSUME NEW d \in Clients, Said(d)'
        PROVE  Said(d) /\ op'[d] = op[d] /\ outcome'[d] = outcome[d]
    BY <1>1, <2>2 DEF Get, Send, Begin, TypeOK, callVars
  <2> QED
    BY <2>1, <2>2 DEF AcknowledgedIsApplied
<1>2. ASSUME NEW m \in net, Serve(m) PROVE AcknowledgedIsApplied'
  <2>1. /\ op' = op /\ attempt' = attempt
    BY <1>2, ServeFacts
  <2>2. /\ Update(m) => Told(m, "ok") /\ \A n : Now(n) <=> CarriedOut(n) \/ n = m.op
        /\ ~Update(m) => applied' = applied
    <3>1. CASE Update(m)
      <4>1. \A n : Now(n) <=> CarriedOut(n) \/ n = m.op
        BY <3>1, AppendFacts DEF CarriedOut
      <4> QED
        BY <1>2, <3>1, <4>1, ServeFacts
    <3>2. CASE ~Update(m)
      BY <1>2, <3>2 DEF Serve, Conflict, Delete, NotFound, Store, Known
    <3> QED
      BY <3>1, <3>2
  <2> SUFFICES ASSUME NEW c \in Clients, Said(c)'
               PROVE  outcome'[c] = "ok" <=> Now(op[c].n)
    BY <2>1 DEF AcknowledgedIsApplied, CarriedOut
  <2>a. ~Update(m) => \A n : Now(n) <=> CarriedOut(n)
    BY <2>2 DEF CarriedOut
  <2> HIDE DEF Now
  <2>3. CASE pc'[c] = pc[c] /\ outcome'[c] = outcome[c]
    <3>1. Said(c) /\ (outcome[c] = "ok" <=> CarriedOut(op[c].n))
      BY <1>0, <2>1, <2>3
    <3>2. CASE Update(m)
      <4>1. outcome[c] = "conflict" => m.op # op[c].n
        BY <3>1 DEF FirstAttempts
      <4> QED
        BY <2>2, <2>3, <3>1, <3>2, <4>1
    <3>3. CASE ~Update(m)
      BY <2>3, <2>a, <3>1, <3>3
    <3> QED
      BY <3>2, <3>3
  <2>4. CASE pc'[c] # pc[c] \/ outcome'[c] # outcome[c]
    <3>1. \A how : Told(m, how) => outcome'[c] = how /\ op[c].n = m.op
      BY <2>4 DEF Told
    <3>2. \E how : Told(m, how)
      BY <1>2, ServeFacts DEF Serve
    <3>3. op[c].n = m.op /\ m.kind = "update"
      BY <2>1, <3>1, <3>2 DEF Requests
    <3>4. CASE Update(m)
      BY <2>2, <3>1, <3>3, <3>4
    <3>5. CASE Conflict(m)
      <4>1. outcome'[c] = "conflict" /\ ~Update(m)
        BY <1>2, <3>1, <3>5, ServeFacts DEF Conflict, Update
      <4>2. attempt[c] = 0
        BY <2>1, <4>1
      <4>3. ~CarriedOut(op[c].n)
        BY <3>3, <4>2 DEF FirstAttempts
      <4> QED
        BY <2>a, <4>1, <4>3
    <3>6. CASE NotFound(m)
      BY <1>2, <3>1, <3>6, ServeFacts
    <3> QED
      BY <1>2, <3>3, <3>4, <3>5, <3>6 DEF Serve, Delete, Store, Known
  <2> QED
    BY <2>3, <2>4
<1>3. ASSUME NEW c \in Clients, GiveUp(c) \/ Cancel(c) PROVE AcknowledgedIsApplied'
  <2>1. applied' = applied /\ op' = op
    BY <1>3, CallerFacts
  <2>2. ASSUME NEW d \in Clients, Said(d)'
        PROVE  Said(d) /\ outcome'[d] = outcome[d]
    <3>1. outcome[c] = "none"
      BY <1>3, CallerFacts DEF FirstAttempts
    <3> QED
      BY <1>3, <2>1, <2>2, <3>1, CallerFacts
  <2> QED
    BY <2>1, <2>2 DEF AcknowledgedIsApplied
<1>4. ASSUME NEW m \in net, Forbidden(m) PROVE AcknowledgedIsApplied'
  <2>1. applied' = applied /\ op' = op /\ attempt' = attempt
    BY <1>4, ForbiddenFacts
  <2>2. ASSUME NEW d \in Clients, Said(d)'
        PROVE  Said(d) /\ outcome'[d] = outcome[d]
    BY <1>4, <2>1, <2>2, ForbiddenFacts
  <2> QED
    BY <2>1, <2>2 DEF AcknowledgedIsApplied
<1>5. CASE UNCHANGED vars
  BY <1>5 DEF vars, callVars, AcknowledgedIsApplied
<1> QED
  BY <1>1, <1>2, <1>3, <1>4, <1>5, StepCases

(* A document is made from a request, and a duplicate is told of one.      *)
LEMMA DocumentsStep ==
  ASSUME TypeOK, Calls, Requests, Documents, DuplicateIsForeign, [Next]_vars
  PROVE  Documents' /\ DuplicateIsForeign'
<1> USE DEF Documents, DuplicateIsForeign, callVars
<1>1. ASSUME NEW c \in Clients, NEW kind \in Kinds, Begin(c, kind)
      PROVE  Documents' /\ DuplicateIsForeign'
  <2>1. docs' = docs /\ begun' = begun + 1
    BY <1>1 DEF Begin
  <2>2. ASSUME NEW d \in Clients
        PROVE  \/ op'[d].n = begun + 1 /\ outcome'[d] = "none"
               \/ op'[d] = op[d] /\ outcome'[d] = outcome[d]
    BY <1>1 DEF Begin, TypeOK
  <2>3. begun \in Nat /\ \A d \in docs : d.id[1] \in Nat
    BY DEF TypeOK, DocIds, Ops
  <2>4. \A d \in docs : d.id[1] # begun + 1 /\ d.id[1] <= begun + 1
    BY <2>3
  <2> QED
    BY <2>1, <2>2, <2>4
<1>2. ASSUME NEW c \in Clients, Get(c) \/ Send(c) \/ GiveUp(c) \/ Cancel(c)
      PROVE  Documents' /\ DuplicateIsForeign'
  <2>1. docs' = docs /\ begun' = begun /\ op' = op
    BY <1>2, CallerFacts DEF Get, Send
  <2>2. \A d \in Clients : outcome'[d] = "duplicate" => outcome[d] = "duplicate"
    BY <1>2, CallerFacts DEF Get, Send, TypeOK
  <2> QED
    BY <2>1, <2>2
<1>3. ASSUME NEW m \in net, Serve(m) PROVE Documents' /\ DuplicateIsForeign'
  <2> DEFINE new == [id |-> m.id, file |-> m.file]
  <2>1. begun' = begun /\ op' = op
    BY <1>3, ServeFacts
  <2>2. new.file = m.file /\ new.id[1] = m.op /\ new.id[2] = 0 /\ m.op <= begun
    BY DEF Requests
  <2>3. \A c \in Clients : op[c].n = m.op => op[c].file = m.file
    BY DEF Requests
  <2> HIDE DEF new
  <2>4. CASE Store(m)
    <3>1. docs' = docs \cup {new} /\ \A d \in docs : d.file # m.file
      BY <2>4 DEF Store, new
    <3>2. \A c \in Clients : outcome'[c] = "duplicate" => outcome[c] = "duplicate"
      BY <1>3, <2>4, ServeFacts DEF Told
    <3>3. ASSUME NEW c \in Clients, outcome[c] = "duplicate" PROVE op[c].n # m.op
      BY <2>3, <3>1, <3>3
    <3>4. Documents'
      BY <2>1, <2>2, <2>3, <3>1, <3>2
    <3>5. DuplicateIsForeign'
      BY <2>1, <2>2, <3>1, <3>2, <3>3
    <3> QED
      BY <3>4, <3>5
  <2>5. CASE Known(m)
    <3>1. PICK d \in docs :
            /\ d.file = m.file
            /\ Told(m, IF d.id = ClientId(m.client) THEN "ok" ELSE "duplicate")
      BY <1>3, <2>5, ServeFacts
    <3>2. docs' = docs
      BY <2>5 DEF Known
    <3> SUFFICES ASSUME NEW c \in Clients, outcome'[c] = "duplicate"
                 PROVE  /\ \E e \in docs : e.file = op[c].file
                        /\ \A e \in docs : e.id[1] # op[c].n
      BY <2>1, <3>2
    <3>3. CASE outcome'[c] = outcome[c]
      BY <3>3
    <3>4. CASE outcome'[c] # outcome[c]
      <4>1. c = m.client /\ op[c].n = m.op /\ d.id # <<op[c].n, 0>>
        BY <3>1, <3>4 DEF Told, ClientId
      <4>2. op[c].file = m.file
        BY <2>3, <4>1
      <4>3. ASSUME NEW e \in docs, e.id[1] = op[c].n PROVE FALSE
        <5>1. e = d
          BY <3>1, <4>2, <4>3
        <5>2. d.id \in Ops \X (0..MaxAttempts)
          BY DEF TypeOK, DocIds
        <5> QED
          BY <4>1, <4>3, <5>1, <5>2
      <4> QED
        BY <3>1, <4>2, <4>3
    <3> QED
      BY <3>3, <3>4
  <2>6. CASE Update(m) \/ Conflict(m) \/ Delete(m) \/ NotFound(m)
    <3>1. docs' = docs
      BY <2>6 DEF Update, Conflict, Delete, NotFound
    <3>2. \A c \in Clients : outcome'[c] = "duplicate" => outcome[c] = "duplicate"
      BY <1>3, <2>6, ServeFacts DEF Told
    <3> QED
      BY <2>1, <3>1, <3>2
  <2> QED
    BY <1>3, <2>4, <2>5, <2>6 DEF Serve
<1>4. ASSUME NEW m \in net, Forbidden(m) PROVE Documents' /\ DuplicateIsForeign'
  <2>1. docs' = docs /\ begun' = begun /\ op' = op
    BY <1>4, ForbiddenFacts
  <2>2. \A d \in Clients : outcome'[d] = "duplicate" => outcome[d] = "duplicate"
    BY <1>4, ForbiddenFacts
  <2> QED
    BY <2>1, <2>2
<1>5. CASE UNCHANGED vars
  BY <1>5 DEF vars
<1> QED
  BY <1>1, <1>2, <1>3, <1>4, <1>5, StepCases

-----------------------------------------------------------------------------
(* IInv is an invariant. *)
LEMMA Inductive == Spec => []IInv
<1>1. Init => IInv
  <2> USE WritesAssumption
      DEF WritesAssumption, Init, Absent, Copy, Ops, Kinds
  <2>1. Init => TypeOK
    BY DEF TypeOK
  <2>2. Init => Calls /\ Requests /\ Copies
    BY DEF Calls, Requests, Copies, Faithful
  <2>3. Init => History /\ NoLostUpdate /\ UpdatesOnce
    BY DEF History, NoLostUpdate, UpdatesOnce, CarriedOut
  <2>4. Init => FirstAttempts /\ AcknowledgedIsApplied
    BY DEF FirstAttempts, AcknowledgedIsApplied, CarriedOut
  <2>5. Init => Documents /\ DuplicateIsForeign
    BY DEF Documents, DuplicateIsForeign
  <2> QED
    BY <2>1, <2>2, <2>3, <2>4, <2>5 DEF IInv
<1>2. IInv /\ [Next]_vars => IInv'
  BY TypeStep, RequestsStep, CopiesStep, HistoryStep, ChainStep,
     FirstAttemptsStep, AcknowledgedStep, DocumentsStep DEF IInv
<1> QED
  BY <1>1, <1>2, PTL DEF Spec

(* Every reachable state has the types, for every number of clients,       *)
(* operations and attempts.                                                *)
THEOREM TypeCorrect == Spec => []TypeOK
<1>1. IInv => TypeOK
  BY DEF IInv
<1> QED
  BY <1>1, Inductive, PTL

(* No update is lost, however the attempts of RoundTrip are repeated,      *)
(* delayed and reordered: each was made from the state it replaced.        *)
THEOREM NoUpdateIsLost == Spec => []NoLostUpdate
<1>1. IInv => NoLostUpdate
  BY DEF IInv
<1> QED
  BY <1>1, Inductive, PTL

(* A call of Update changes the object at most once, whatever the number   *)
(* of attempts.                                                            *)
THEOREM UpdateTakesEffectOnce == Spec => []UpdatesOnce
<1>1. IInv => UpdatesOnce
  BY DEF IInv
<1> QED
  BY <1>1, Inductive, PTL

(* What Update returned is what happened: the new object only if it was    *)
(* carried out, a conflict of a first attempt only if it was not.          *)
THEOREM AnswersAreTrue == Spec => []AcknowledgedIsApplied
<1>1. IInv => AcknowledgedIsApplied
  BY DEF IInv
<1> QED
  BY <1>1, Inductive, PTL

(* ErrDuplicateDocument is never about the document an attempt of the same *)
(* Upload created.                                                         *)
THEOREM DuplicatesAreForeign == Spec => []DuplicateIsForeign
<1>1. IInv => DuplicateIsForeign
  BY DEF IInv
<1> QED
  BY <1>1, Inductive, PTL

-----------------------------------------------------------------------------
(* Update is atomic.                                                       *)

(* Copies are of states the object has had.                                *)
Sources ==
  /\ object.version = 0 => object.by = 0
  /\ \A c \in Clients : held[c].by \in {0} \cup Done

(* The call of c, or the request m, may still carry out the update u.      *)
Runs(c, u) ==
  /\ pc[c] # "idle" /\ op[c].kind = "update"
  /\ u = [call |-> op[c].n, over |-> held[c].by]

Sends(m, u) == m.kind = "update" /\ u = [call |-> m.op, over |-> m.base.by]

(* Which updates are open, before and after a step. *)
LEMMA OpenIs ==
  ASSUME NEW u
  PROVE  /\ u \in Open <=>
              /\ u.call \notin Done
              /\ (\E c \in Clients : Runs(c, u)) \/ (\E m \in net : Sends(m, u))
         /\ u \in Open' <=>
              /\ u.call \notin Done'
              /\ (\E c \in Clients : Runs(c, u)') \/ (\E m \in net' : Sends(m, u))
<1> DEFINE A == {[call |-> op[c].n, over |-> held[c].by] :
                   c \in {d \in Clients : pc[d] # "idle" /\ op[d].kind = "update"}}
           B == {[call |-> m.op, over |-> m.base.by] : m \in {w \in net : w.kind = "update"}}
<1>1. (u \in A <=> \E c \in Clients : Runs(c, u)) /\ (u \in B <=> \E m \in net : Sends(m, u))
  BY DEF Runs, Sends
<1>2. /\ u \in A' <=> \E c \in Clients : Runs(c, u)'
      /\ u \in B' <=> \E m \in net' : Sends(m, u)
  BY DEF Runs, Sends
<1>3. /\ u \in Open <=> u.call \notin Done /\ (u \in A \/ u \in B)
      /\ u \in Open' <=> u.call \notin Done' /\ (u \in A' \/ u \in B')
  BY DEF Open
<1> QED
  BY <1>1, <1>2, <1>3

(* What an update adds to those that were carried out. *)
LEMMA DoneStep ==
  ASSUME TypeOK
  PROVE  /\ \A n : n \in Done <=> CarriedOut(n)
         /\ applied' = applied => Done' = Done
         /\ \A m \in net : Update(m) => Done' = Done \cup {m.op}
<1>1. ASSUME NEW m \in net, Update(m) PROVE Done' = Done \cup {m.op}
  <2> DEFINE n == Len(applied)
  <2>1. /\ n \in Nat /\ DOMAIN applied = 1..n /\ DOMAIN applied' = 1..(n + 1)
        /\ \A k \in 1..n : applied'[k] = applied[k]
        /\ applied'[n + 1].by = m.op
    BY <1>1, AppendFacts
  <2> HIDE DEF n
  <2>2. 1..(n + 1) = (1..n) \cup {n + 1}
    BY <2>1
  <2> QED
    BY <2>1, <2>2 DEF Done
<1> QED
  BY <1>1 DEF Done, CarriedOut

LEMMA SourcesStep ==
  ASSUME IInv, Sources, [Next]_vars
  PROVE  Sources'
<1> USE DEF Sources
<1>1. CASE UNCHANGED <<applied, object, held>>
  BY <1>1, DoneStep DEF IInv
<1>2. ASSUME NEW c \in Clients, Get(c) PROVE Sources'
  <2>1. object.by \in {0} \cup Done
    <3>1. CASE object.version = 0
      BY <3>1
    <3>2. CASE object.version # 0
      <4>1. applied # <<>> => Len(applied) \in DOMAIN applied
        BY DEF IInv, TypeOK
      <4> QED
        BY <3>2, <4>1 DEF IInv, History, Done
    <3> QED
      BY <3>1, <3>2
  <2>2. Done' = Done
    BY <1>2, DoneStep DEF Get, IInv
  <2> QED
    BY <1>2, <2>1, <2>2 DEF Get, IInv, TypeOK
<1>3. ASSUME NEW m \in net, Update(m) PROVE Sources'
  <2>1. Done' = Done \cup {m.op}
    BY <1>3, DoneStep DEF IInv
  <2>2. object'.version # 0 /\ object'.by = m.op
    BY <1>3 DEF Update, IInv, TypeOK, Copy
  <2>3. \A c \in Clients : held'[c] = held[c] \/ held'[c].by = m.op
    BY <1>3 DEF Update, IInv, TypeOK, Message
  <2> QED
    BY <2>1, <2>2, <2>3
<1>4. ASSUME NEW m \in net, Delete(m) PROVE Sources'
  BY <1>4, DoneStep DEF Delete, Absent, IInv
<1> QED
  BY <1>1, <1>2, <1>3, <1>4, StepCases
     DEF Begin, Send, GiveUp, Cancel, Serve, Forbidden, Conflict, NotFound, Store, Known,
         vars, callVars

(* What Writes shows of the object is an object whose updates are atomic:  *)
(* carrying out a request is AtomicUpdate's CarryOut, and the update is    *)
(* open because a request that matches was not carried out before; refusals*)
(* and the last failed attempt withdraw it.                                *)
LEMMA AtomicStep ==
  ASSUME IInv, Sources, [Next]_vars
  PROVE  [Atomic!Next]_Atomic!vars
<1> DEFINE shown == IF object.version = 0 THEN MaxOps + 1 ELSE object.by
           told == {op[c].n : c \in {d \in Clients : op[d].kind = "update" /\ outcome[d] = "ok"}}
<1>1. ASSUME UNCHANGED <<object, begun, applied>>, Open' \subseteq Open, told' = told
      PROVE  Atomic!Withdraw
  <2>1. Done' = Done
    BY <1>1, DoneStep DEF IInv
  <2> QED
    BY <1>1, <2>1 DEF Atomic!Withdraw
<1>2. ASSUME NEW c \in Clients, Get(c) PROVE Atomic!Withdraw
  <2>1. \A d \in Clients : pc[d] # "idle" => held'[d] = held[d]
    BY <1>2 DEF Get, IInv, TypeOK
  <2>2. Open' \subseteq Open
    <3>1. ASSUME NEW u, NEW d \in Clients, Runs(d, u)' PROVE Runs(d, u)
      BY <1>2, <2>1, <3>1 DEF Get, Runs, callVars
    <3> QED
      BY <1>2, <3>1, OpenIs, DoneStep DEF Get, IInv
  <2>3. told' = told
    BY <1>2 DEF Get, callVars
  <2> QED
    BY <1>1, <1>2, <2>2, <2>3 DEF Get, callVars
<1>3. ASSUME NEW c \in Clients, NEW kind \in Kinds, Begin(c, kind), NEW n, n = begun + 1
      PROVE  Atomic!Begin(n)
  <2>1. /\ begun \in Nat /\ begun' = begun + 1 /\ Done' = Done /\ pc[c] = "idle"
        /\ net' = net /\ held' = held /\ object' = object
        /\ op'[c].n = begun + 1 /\ op'[c].kind = kind /\ pc'[c] = "send"
        /\ outcome'[c] = "none"
        /\ \A d \in Clients : d # c =>
             op'[d] = op[d] /\ pc'[d] = pc[d] /\ outcome'[d] = outcome[d]
    BY <1>3, DoneStep DEF Begin, IInv, TypeOK
  <2>2. begun + 1 \notin Done
    <3> DEFINE S == [by : Ops, over : {0} \cup Ops]
    <3>0. applied \in Seq(S) /\ \A e \in S : e.by \in Nat
      BY DEF IInv, TypeOK, Ops
    <3> HIDE DEF S
    <3>1. \A k \in DOMAIN applied : applied[k].by \in Nat /\ applied[k].by <= begun
      BY <3>0 DEF IInv, History
    <3> QED
      BY <2>1, <3>1 DEF Done
  <2> DEFINE new == [call |-> begun + 1, over |-> held[c].by]
  <2>3. ASSUME NEW u
        PROVE  u \in Open' <=> u \in Open \/ (kind = "update" /\ u = new)
    <3>1. \A d \in Clients : d # c => (Runs(d, u)' <=> Runs(d, u))
      BY <2>1 DEF Runs
    <3>2. ~Runs(c, u) /\ (Runs(c, u)' <=> kind = "update" /\ u = new)
      BY <2>1 DEF Runs
    <3>3. u = new => u.call \notin Done
      BY <2>2
    <3> HIDE DEF new
    <3> QED
      BY <2>1, <3>1, <3>2, <3>3, OpenIs
  <2>4. Open' = Open \/ Open' = Open \cup {new}
    BY <2>3
  <2>5. held[c].by \in Done \cup {0}
    BY DEF Sources
  <2>6. told' \subseteq told
    BY <2>1
  <2>7. 1..(begun + 1) = (1..begun) \cup {begun + 1} /\ begun + 1 \notin 1..begun
    BY <2>1
  <2> HIDE DEF told
  <2> QED
    BY <1>3, <2>1, <2>4, <2>5, <2>6, <2>7 DEF Atomic!Begin, told
<1>4. ASSUME NEW c \in Clients, Send(c) PROVE Atomic!Withdraw
  <2>1. /\ pc[c] = "send" /\ UNCHANGED <<begun, op, outcome, held, object, applied>>
        /\ \A d \in Clients : d # c => pc'[d] = pc[d]
        /\ \A m \in net' : m \in net \/
             (m.op = op[c].n /\ m.kind = op[c].kind /\ m.base = held[c])
    BY <1>4 DEF Send, IInv, TypeOK
  <2>2. Open' \subseteq Open
    <3>1. ASSUME NEW u, NEW d \in Clients, Runs(d, u)' PROVE Runs(d, u)
      BY <2>1, <3>1 DEF Runs
    <3>2. ASSUME NEW u, NEW m \in net', Sends(m, u) PROVE m \in net \/ Runs(c, u)
      BY <2>1, <3>2 DEF Runs, Sends
    <3> QED
      BY <2>1, <3>1, <3>2, OpenIs, DoneStep DEF IInv
  <2> QED
    BY <1>1, <2>1, <2>2
<1>5. ASSUME NEW c \in Clients, GiveUp(c) \/ Cancel(c) PROVE Atomic!Withdraw
  <2>1. /\ UNCHANGED <<begun, op, held, net, object, applied>> /\ pc[c] # "idle"
        /\ \A d \in Clients : pc'[d] # "idle" => pc[d] # "idle"
        /\ \A d \in Clients : outcome'[d] = outcome[d] \/ (d = c /\ outcome'[d] = "error")
    BY <1>5, CallerFacts DEF IInv
  <2>2. outcome[c] = "none"
    BY <2>1 DEF IInv, FirstAttempts
  <2>3. told' = told
    BY <2>1, <2>2
  <2>4. Open' \subseteq Open
    <3>1. ASSUME NEW u, NEW d \in Clients, Runs(d, u)' PROVE Runs(d, u)
      BY <2>1, <3>1 DEF Runs
    <3> QED
      BY <2>1, <3>1, OpenIs, DoneStep DEF IInv
  <2> QED
    BY <1>1, <2>1, <2>3, <2>4
<1>6. ASSUME NEW m \in net, Serve(m), NEW how, Told(m, how), NEW c \in Clients
      PROVE  \/ pc'[c] = pc[c] /\ outcome'[c] = outcome[c]
             \/ /\ pc'[c] = "idle" /\ outcome[c] = "none" /\ outcome'[c] = how
                /\ op[c].n = m.op /\ op[c].kind = m.kind
  <2>1. outcome[c] # "none" => pc[c] = "idle"
    BY DEF IInv, FirstAttempts
  <2>2. op[c].n = m.op => op[c].kind = m.kind
    BY DEF IInv, Requests
  <2> QED
    BY <1>6, <2>1, <2>2 DEF Told
<1>7. ASSUME NEW m \in net, Serve(m), Update(m)
      PROVE  Atomic!CarryOut([call |-> m.op, over |-> m.base.by]) /\
             [call |-> m.op, over |-> m.base.by] \in Open
  <2> DEFINE u == [call |-> m.op, over |-> m.base.by]
  <2>1. /\ begun' = begun /\ op' = op /\ net' = net \ {m} /\ Told(m, "ok")
        /\ Done' = Done \cup {m.op}
    BY <1>7, ServeFacts, DoneStep DEF IInv
  <2>2. /\ object.version # 0 /\ object.by = m.base.by
        /\ object'.version # 0 /\ object'.by = m.op
    BY <1>7 DEF Update, Matches, IInv, Copies, Faithful, TypeOK, Copy
  <2>3. m.op \notin Done /\ m.kind = "update"
    BY <1>7, UpdateOnLast, DoneStep DEF IInv, Update
  <2>4. u \in Open
    BY <2>3, OpenIs DEF Sends
  <2>5. ASSUME NEW d \in Clients, op[d].n # m.op
        PROVE  pc'[d] = pc[d] /\ held'[d] = held[d]
    <3>1. pc'[d] = pc[d]
      BY <2>1, <2>5 DEF Told
    <3>2. held'[d] = held[d]
      BY <1>7, <2>5 DEF Update, Reply, Return, Awaited, IInv, TypeOK
    <3> QED
      BY <3>1, <3>2
  <2>6. ASSUME NEW v, v.call # m.op PROVE v \in Open' <=> v \in Open
    <3>1. ASSUME NEW d \in Clients PROVE Runs(d, v)' <=> Runs(d, v)
      <4>1. CASE op[d].n = m.op
        BY <2>1, <2>6, <4>1 DEF Runs
      <4>2. CASE op[d].n # m.op
        BY <2>1, <2>5, <4>2 DEF Runs
      <4> QED
        BY <4>1, <4>2
    <3>2. ~Sends(m, v)
      BY <2>6 DEF Sends
    <3> QED
      BY <2>1, <2>6, <3>1, <3>2, OpenIs
  <2>7. \A v \in Open' : v.call # m.op
    BY <2>1, OpenIs
  <2>8. Open' = {v \in Open : v.call # u.call}
    BY <2>6, <2>7
  <2>9. told' \in {told, told \cup {m.op}}
    <3>1. CASE \A c \in Clients : outcome'[c] = outcome[c]
      BY <2>1, <3>1
    <3>2. ASSUME NEW c \in Clients, outcome'[c] # outcome[c]
          PROVE  told' = told \cup {m.op}
      <4>1. /\ outcome'[c] = "ok" /\ op[c].n = m.op /\ op[c].kind = "update"
            /\ outcome[c] = "none" /\ c = m.client
        BY <1>6, <1>7, <2>1, <2>3, <3>2 DEF Told
      <4>2. \A d \in Clients : d # c => outcome'[d] = outcome[d]
        BY <2>1, <4>1 DEF Told
      <4> QED
        BY <2>1, <4>1, <4>2
    <3> QED
      BY <3>1, <3>2
  <2> HIDE DEF told
  <2> QED
    BY <2>1, <2>2, <2>4, <2>8, <2>9 DEF Atomic!CarryOut, told
<1>8. ASSUME NEW m \in net, Serve(m), ~Update(m)
      PROVE  Atomic!Withdraw \/ Atomic!Delete
  <2>1. PICK how : /\ Told(m, how) /\ (how = "ok" => m.kind # "update")
                   /\ m.kind = "delete" \/ Conflict(m) \/ NotFound(m) \/ Store(m) \/ Known(m)
    <3>1. Conflict(m) \/ Delete(m) \/ NotFound(m) \/ Store(m) \/ Known(m)
      BY <1>8 DEF Serve
    <3>2. CASE Conflict(m)
      BY <1>8, <3>2, ServeFacts DEF IInv
    <3>3. CASE Delete(m)
      BY <1>8, <3>3, ServeFacts DEF IInv, Delete
    <3>4. CASE NotFound(m)
      BY <1>8, <3>4, ServeFacts DEF IInv
    <3>5. CASE Store(m)
      BY <1>8, <3>5, ServeFacts DEF IInv, Store
    <3>6. CASE Known(m)
      <4>1. PICK d \in docs :
              Told(m, IF d.id = ClientId(m.client) THEN "ok" ELSE "duplicate")
        BY <1>8, <3>6, ServeFacts DEF IInv
      <4> QED
        BY <3>6, <4>1 DEF Known
    <3> QED
      BY <3>1, <3>2, <3>3, <3>4, <3>5, <3>6
  <2>2. /\ begun' = begun /\ op' = op /\ net' = net \ {m}
        /\ UNCHANGED <<held, applied>>
        /\ \/ object' = object
           \/ object' = Absent /\ m.kind = "delete"
    BY <1>8, ServeFacts DEF Serve, Conflict, Delete, NotFound, Store, Known, IInv
  <2>3. Done' = Done
    BY <2>2, DoneStep DEF IInv
  <2>4. told' = told
    BY <1>6, <1>8, <2>1, <2>2
  <2>5. ASSUME NEW u, NEW d \in Clients
        PROVE  /\ Runs(d, u)' => Runs(d, u)
               /\ m.kind # "update" /\ Runs(d, u) => Runs(d, u)'
    <3>1. pc'[d] = pc[d] \/ (pc'[d] = "idle" /\ op[d].kind = m.kind)
      BY <1>6, <1>8, <2>1
    <3> QED
      BY <2>2, <3>1 DEF Runs
  <2>6. Open' \subseteq Open
    BY <2>2, <2>3, <2>5, OpenIs
  <2>7. m.kind # "update" => Open \subseteq Open'
    <3>1. \A u : m.kind # "update" => ~Sends(m, u)
      BY DEF Sends
    <3> QED
      BY <2>2, <2>3, <2>5, <3>1, OpenIs
  <2>8. CASE object' = object
    BY <1>1, <2>2, <2>4, <2>6, <2>8
  <2>9. CASE object' = Absent /\ m.kind = "delete"
    <3>1. Open' = Open
      BY <2>6, <2>7, <2>9
    <3> HIDE DEF told
    <3> QED
      BY <2>2, <2>3, <2>4, <2>9, <3>1 DEF Atomic!Delete, Absent, told
  <2> QED
    BY <2>2, <2>8, <2>9
<1>9. CASE UNCHANGED vars
  BY <1>9 DEF vars, callVars, Atomic!vars, Done, Open
<1>10. ASSUME NEW c \in Clients, NEW kind \in Kinds, Begin(c, kind)
       PROVE  begun + 1 \in Ops
  BY <1>10, WritesAssumption DEF Begin, Ops, IInv, TypeOK, WritesAssumption
<1>14. ASSUME NEW m \in net, Forbidden(m) PROVE Atomic!Withdraw
  <2>1. /\ UNCHANGED <<begun, op, held, object, applied>> /\ net' \subseteq net
        /\ \A d \in Clients : pc'[d] # "idle" => pc[d] # "idle"
        /\ \A d \in Clients :
             outcome'[d] = outcome[d] \/ (pc[d] # "idle" /\ outcome'[d] = "error")
    BY <1>14, ForbiddenFacts DEF IInv
  <2>2. \A d \in Clients : pc[d] # "idle" => outcome[d] = "none"
    BY DEF IInv, FirstAttempts
  <2>3. told' = told
    BY <2>1, <2>2
  <2>4. Open' \subseteq Open
    <3>1. ASSUME NEW u, NEW d \in Clients, Runs(d, u)' PROVE Runs(d, u)
      BY <2>1, <3>1 DEF Runs
    <3> QED
      BY <2>1, <3>1, OpenIs, DoneStep DEF IInv
  <2> QED
    BY <1>1, <2>1, <2>3, <2>4
<1> HIDE DEF shown, told
<1>11. ASSUME NEW c \in Clients, NEW kind \in Kinds, Begin(c, kind) PROVE Atomic!Next
  <2>1. PICK n \in Ops : n = begun + 1
    BY <1>10, <1>11
  <2>2. Atomic!Begin(n)
    BY <1>3, <1>11, <2>1
  <2> QED
    BY <2>2 DEF Atomic!Next
<1>12. ASSUME NEW m \in net, Serve(m) PROVE Atomic!Next
  <2>1. CASE Update(m)
    <3>1. \E u \in Open : Atomic!CarryOut(u)
      BY <1>7, <1>12, <2>1
    <3> QED
      BY <3>1 DEF Atomic!Next
  <2>2. CASE ~Update(m)
    BY <1>8, <1>12, <2>2 DEF Atomic!Next
  <2> QED
    BY <2>1, <2>2
<1>13. Atomic!Withdraw => Atomic!Next
  BY DEF Atomic!Next
<1> QED
  BY <1>2, <1>4, <1>5, <1>9, <1>11, <1>12, <1>13, <1>14, StepCases

(* Update behaves as one atomic compare-and-set, for any clients, retries, *)
(* lost, delayed and reordered attempts: Writes implements AtomicUpdate.   *)
THEOREM UpdateIsAtomic == Spec => AtomicSpec
<1>1. Init => Sources /\ Atomic!Init
  <2>1. Init => Sources
    BY DEF Init, Sources, Absent
  <2>2. ASSUME Init PROVE Atomic!Init
    <3>1. Done = {} /\ 1..begun = {}
      BY <2>2 DEF Init, Done
    <3>2. Open = {}
      BY <2>2, OpenIs DEF Init, Runs
    <3> QED
      BY <2>2, <3>1, <3>2 DEF Init, Atomic!Init
  <2> QED
    BY <2>1, <2>2
<1>2. IInv /\ Sources /\ [Next]_vars => Sources' /\ [Atomic!Next]_Atomic!vars
  BY SourcesStep, AtomicStep
<1> QED
  BY <1>1, <1>2, Inductive, PTL DEF Spec, AtomicSpec, Atomic!Spec

=============================================================================
