-------------------------- MODULE ConversationsProofs --------------------------
(***************************************************************************)
(* Proofs about Conversations, for any set of clients and any number of    *)
(* calls, faults and retries.                                              *)
(*                                                                         *)
(* What the properties say of two entries of the log was decided when the  *)
(* later call began and when it read the conversation.  IInv says of every *)
(* call, running or on its way or carried out, what it began and read      *)
(* from; the log only grows, so that stays true.                           *)
(***************************************************************************)
EXTENDS Conversations, WellFoundedInduction, TLAPS

(* l has an entry of each call that was acknowledged when x began.         *)
Based(x, l) ==
  /\ x.since <= Len(l)
  /\ \A a \in x.prior : \E k \in 1..x.since : l[k].call.n = a

(* The message x names is not older than any that was there when x began.  *)
Covered(x, l) ==
  x.kind = "message" =>
    LET old == {k \in 1..x.since : IsPost(l[k])} IN
    old # {} => \E p \in DOMAIN l : l[p].id = x.after /\ \A k \in old : k <= p

(* Every call there is a trace of.                                         *)
Records ==
  {call[c] : c \in Clients} \cup {m.call : m \in net} \cup {log[k].call : k \in DOMAIN log}

IdOf(x) == IF x.kind = "message" THEN <<x.n, 0>> ELSE NoId

(* A number is one call's, and names its kind.                             *)
Numbers ==
  /\ \A x \in Records : x.n <= begun
  /\ \A x, y \in Records : x.n = y.n => x.kind = y.kind
  /\ \A c \in Clients : pc[c] # "idle" => call[c].n # 0
  /\ \A m \in net : m.call.n # 0

Bodies ==
  /\ \A x \in Records : Based(x, log)
  /\ \A c \in Clients : pc[c] \in {"send", "wait"} => Covered(call[c], log)
  /\ \A m \in net : Covered(m.call, log) /\ m.id = IdOf(m.call)
  /\ \A k \in DOMAIN log :
       /\ Covered(log[k].call, log)
       /\ log[k].id = IdOf(log[k].call)
       /\ log[k].call.since < k

(* An acknowledged call was carried out. *)
Acknowledged == \A a \in acked : \E k \in DOMAIN log : log[k].call.n = a

(* Everybody's call saw the participant absent that is absent now.         *)
Away ==
  /\ participant = "absent" => \A c \in Clients : gone[c] = TRUE
  /\ \A c \in Clients : outcome[c] = "notFound" => gone[c] = TRUE

IInv == TypeOK /\ Numbers /\ Bodies /\ Acknowledged /\ Away

-----------------------------------------------------------------------------
(* Sequences and maxima.                                                   *)

(* A set of naturals that is not empty has a least element. *)
LEMMA LeastNatural ==
  ASSUME NEW T \in SUBSET Nat, T # {}
  PROVE  \E x \in T : \A y \in T : x <= y
<1> DEFINE R == {ss \in Nat \X Nat : ss[1] < ss[2]}
<1>1. IsWellFoundedOn(OpToRel(<, Nat), Nat)
  BY NatLessThanWellFounded
<1>2. OpToRel(<, Nat) = R
  BY DEF OpToRel
<1>3. IsWellFoundedOn(R, Nat)
  BY <1>1, <1>2
<1>4. PICK x \in T : \A y \in T : ~(<<y, x>> \in R)
  <2> HIDE DEF R
  <2> QED
    BY <1>3, WFMin
<1>5. ASSUME NEW y \in T PROVE x <= y
  <2>1. <<y, x>> \in R <=> y < x
    OBVIOUS
  <2> QED
    BY <1>4, <2>1
<1> QED
  BY <1>5

(* Some entries of a sequence have a last one. *)
LEMMA LastOfSome ==
  ASSUME NEW n \in Nat, NEW P \in SUBSET (1..n), P # {}
  PROVE  Max(P) \in P /\ \A k \in P : k <= Max(P)
<1> DEFINE T == {n - k : k \in P}
<1>1. T \in SUBSET Nat /\ T # {}
  <2>1. \A k \in P : n - k \in Nat
    OBVIOUS
  <2> QED
    BY <2>1
<1>2. PICK x \in T : \A y \in T : x <= y
  <2> HIDE DEF T
  <2> QED
    BY <1>1, LeastNatural
<1>3. PICK p \in P : x = n - p
  BY <1>2
<1>4. \A k \in P : p >= k
  <2>1. ASSUME NEW k \in P PROVE p >= k
    <3>1. n - p <= n - k
      BY <1>2, <1>3
    <3> QED
      BY <3>1
  <2> QED
    BY <2>1
<1>5. \A k \in P : Max(P) >= k
  BY <1>4 DEF Max
<1>6. Max(P) \in P
  BY <1>4 DEF Max
<1> QED
  BY <1>5, <1>6

(* What an entry at the end changes. *)
LEMMA AppendFacts ==
  ASSUME NEW S, NEW l \in Seq(S), NEW e \in S
  PROVE  /\ Len(l) \in Nat /\ DOMAIN l = 1..Len(l)
         /\ Append(l, e) \in Seq(S) /\ Len(Append(l, e)) = Len(l) + 1
         /\ DOMAIN Append(l, e) = 1..(Len(l) + 1)
         /\ \A k \in 1..Len(l) : Append(l, e)[k] = l[k]
         /\ Append(l, e)[Len(l) + 1] = e
OBVIOUS

(* What a call began from and read stays in the log. *)
LEMMA LogKeeps ==
  ASSUME NEW S, NEW l \in Seq(S), NEW e \in S, NEW x, x.since \in Nat, Based(x, l)
  PROVE  Based(x, Append(l, e)) /\ (Covered(x, l) => Covered(x, Append(l, e)))
<1> DEFINE t == Append(l, e)
<1>1. /\ Len(l) \in Nat /\ DOMAIN l = 1..Len(l)
      /\ Len(t) = Len(l) + 1 /\ DOMAIN t = 1..(Len(l) + 1)
      /\ \A k \in 1..Len(l) : t[k] = l[k]
  BY AppendFacts
<1>2. x.since <= Len(l)
  BY DEF Based
<1>3. \A k \in 1..x.since : k \in 1..Len(l) /\ t[k] = l[k]
  BY <1>1, <1>2
<1> HIDE DEF t
<1>4. Based(x, t)
  BY <1>1, <1>2, <1>3 DEF Based
<1>5. Covered(x, l) => Covered(x, t)
  <2>1. {k \in 1..x.since : IsPost(t[k])} = {k \in 1..x.since : IsPost(l[k])}
    BY <1>3
  <2>2. \A p \in DOMAIN l : p \in DOMAIN t /\ t[p] = l[p]
    BY <1>1
  <2> HIDE DEF IsPost
  <2> QED
    BY <2>1, <2>2 DEF Covered
<1> QED
  BY <1>4, <1>5 DEF t

(* The newest message is one of the conversation and none comes after it.  *)
LEMMA NewestFacts ==
  ASSUME TypeOK
  PROVE  /\ lastMessageID \in Ids
         /\ Posts # {} => \E p \in Posts : log[p].id = lastMessageID /\ \A k \in Posts : k <= p
<1> DEFINE Entry == [call : Call, id : Ids]
<1>1. log \in Seq(Entry)
  BY DEF TypeOK
<1>2. Len(log) \in Nat /\ Posts \in SUBSET (1..Len(log)) /\ \A k \in Posts : log[k].id \in Ids
  <2>1. \A k \in DOMAIN log : log[k] \in Entry
    <3> HIDE DEF Entry
    <3> QED
      BY <1>1
  <2> QED
    BY <1>1, <2>1 DEF Posts
<1>3. CASE Posts = {}
  BY <1>3 DEF lastMessageID, Ids
<1>4. CASE Posts # {}
  BY <1>2, <1>4, LastOfSome DEF lastMessageID
<1> QED
  BY <1>3, <1>4

-----------------------------------------------------------------------------
(* The steps.                                                              *)

(* What a step can be. *)
LEMMA StepCases ==
  ASSUME [Next]_vars
  PROVE  \/ \E c \in Clients :
              \/ Read(c) \/ Send(c) \/ GiveUp(c) \/ Cancel(c)
              \/ \E kind \in Kinds : Begin(c, kind)
         \/ \E m \in net : Serve(m) \/ Forbidden(m)
         \/ UNCHANGED vars
BY DEF Next

(* What an answer does to the calls: nothing, or it ends the one that      *)
(* waits for it.                                                           *)
LEMMA AnswerFacts ==
  ASSUME TypeOK, NEW m \in net, NEW how \in {"ok", "notFound", "refused", "error"},
         Answer(m, how)
  PROVE  /\ begun' = begun /\ call' = call /\ attempt' = attempt
         /\ pc' \in [Clients -> {"idle", "read", "send", "wait"}]
         /\ outcome' \in [Clients -> {"none", "ok", "missing", "notFound", "refused", "error"}]
         /\ \A c \in Clients : pc'[c] = pc[c] \/ pc'[c] = "idle"
         /\ \A c \in Clients : outcome'[c] = outcome[c] \/ outcome'[c] = how
         /\ acked' = acked \/ (how = "ok" /\ acked' = acked \cup {m.call.n})
<1>1. m.client \in Clients
  BY DEF TypeOK, Request
<1>2. CASE UNCHANGED callVars
  BY <1>2 DEF callVars, TypeOK
<1>3. CASE Return(m.client, how) /\ call[m.client].n = m.call.n
  BY <1>1, <1>3 DEF Return, TypeOK
<1> QED
  BY <1>2, <1>3 DEF Answer, Awaited

(* What a 403 changes: the call that waits for it sends again.             *)
LEMMA ForbiddenFacts ==
  ASSUME TypeOK, NEW m \in net, Forbidden(m)
  PROVE  /\ UNCHANGED <<begun, acked, call, attempt, outcome, faults, gone, participant, log>>
         /\ net' = net \ {m}
         /\ pc' \in [Clients -> {"idle", "read", "send", "wait"}]
         /\ m.client \in Clients /\ pc[m.client] = "wait" /\ pc'[m.client] = "send"
         /\ \A c \in Clients : c # m.client => pc'[c] = pc[c]
<1>1. m.client \in Clients
  BY DEF TypeOK, Request
<1> QED
  BY <1>1 DEF TypeOK, Forbidden, Awaited, serverVars

(* What a call does that gives up an attempt or is cancelled.              *)
LEMMA CallerFacts ==
  ASSUME TypeOK, NEW c \in Clients, GiveUp(c) \/ Cancel(c)
  PROVE  /\ UNCHANGED <<begun, acked, call, net, gone, participant, log>>
         /\ faults' = faults + 1 /\ faults' \in 0..MaxFaults
         /\ attempt' \in [Clients -> 0..MaxAttempts]
         /\ pc' \in [Clients -> {"idle", "read", "send", "wait"}]
         /\ outcome' \in
              [Clients -> {"none", "ok", "missing", "notFound", "refused", "error"}]
         /\ \A d \in Clients :
              /\ pc'[d] = pc[d] \/ pc'[d] = "idle"
                   \/ (pc[d] = "wait" /\ pc'[d] = "send")
              /\ outcome'[d] = outcome[d] \/ outcome'[d] = "error"
<1> USE ConversationsAssumption DEF ConversationsAssumption, TypeOK, serverVars
<1>1. faults' = faults + 1 /\ faults' \in 0..MaxFaults
  BY DEF GiveUp, Cancel
<1>2. CASE GiveUp(c) /\ ShouldRetry(c)
  <2>1. attempt[c] + 1 \in 0..MaxAttempts
    BY <1>2 DEF ShouldRetry
  <2> QED
    BY <1>1, <1>2, <2>1 DEF GiveUp
<1>3. CASE (GiveUp(c) /\ ~ShouldRetry(c)) \/ Cancel(c)
  BY <1>1, <1>3 DEF GiveUp, Cancel, Return
<1> QED
  BY <1>2, <1>3

(* What serving m does. *)
LEMMA ServeFacts ==
  ASSUME TypeOK, NEW m \in net, Serve(m)
  PROVE  /\ begun' = begun /\ call' = call /\ attempt' = attempt
         /\ faults' = faults /\ net' = net \ {m}
         /\ pc' \in [Clients -> {"idle", "read", "send", "wait"}]
         /\ outcome' \in [Clients -> {"none", "ok", "missing", "notFound", "refused", "error"}]
         /\ \A c \in Clients : pc'[c] = pc[c] \/ pc'[c] = "idle"
         /\ acked' = acked \/ acked' = acked \cup {m.call.n}
         /\ \/ /\ participant' = Moved(m)
               /\ gone' = [c \in Clients |-> gone[c] \/ participant' = "absent"]
               /\ log' = Append(log, [call |-> m.call, id |-> m.id])
               /\ \A c \in Clients : outcome'[c] = "notFound" => outcome[c] = "notFound"
            \/ /\ gone' = gone /\ log' = log /\ participant' = participant
               /\ \/ acked' = acked
                  \/ \E k \in DOMAIN log : m.id # NoId /\ log[k].id = m.id
               /\ \A c \in Clients : outcome'[c] = "notFound" =>
                    outcome[c] = "notFound" \/ participant = "absent"
<1>1. net' = net \ {m} /\ faults' = faults
  BY DEF Serve
<1>2. CASE Apply(m)
  <2>1. PICK how \in {"ok", "error"} : Answer(m, how)
    BY <1>2 DEF Apply
  <2>2. /\ begun' = begun /\ call' = call /\ attempt' = attempt
        /\ pc' \in [Clients -> {"idle", "read", "send", "wait"}]
        /\ outcome' \in [Clients -> {"none", "ok", "missing", "notFound", "refused", "error"}]
        /\ \A c \in Clients : pc'[c] = pc[c] \/ pc'[c] = "idle"
        /\ \A c \in Clients : outcome'[c] = outcome[c] \/ outcome'[c] = how
        /\ acked' = acked \/ acked' = acked \cup {m.call.n}
    BY <2>1, AnswerFacts
  <2> QED
    BY <1>1, <1>2, <2>2 DEF Apply
<1>3. CASE Drop(m)
  <2>1. Answer(m, "ok")
    BY <1>3 DEF Drop
  <2>2. /\ begun' = begun /\ call' = call /\ attempt' = attempt
        /\ pc' \in [Clients -> {"idle", "read", "send", "wait"}]
        /\ outcome' \in [Clients -> {"none", "ok", "missing", "notFound", "refused", "error"}]
        /\ \A c \in Clients : pc'[c] = pc[c] \/ pc'[c] = "idle"
        /\ \A c \in Clients : outcome'[c] = outcome[c] \/ outcome'[c] = "ok"
        /\ acked' = acked \/ acked' = acked \cup {m.call.n}
    BY <2>1, AnswerFacts
  <2> QED
    BY <1>1, <1>3, <2>2 DEF Drop, serverVars
<1>4. CASE Refuse(m)
  <2> DEFINE how == IF m.call.kind = "remove" /\ participant = "absent"
                    THEN "notFound" ELSE "refused"
  <2>1. Answer(m, how) /\ how \in {"notFound", "refused"}
    BY <1>4 DEF Refuse
  <2>2. how = "notFound" => participant = "absent"
    OBVIOUS
  <2> HIDE DEF how
  <2>3. /\ begun' = begun /\ call' = call /\ attempt' = attempt
        /\ pc' \in [Clients -> {"idle", "read", "send", "wait"}]
        /\ outcome' \in [Clients -> {"none", "ok", "missing", "notFound", "refused", "error"}]
        /\ \A c \in Clients : pc'[c] = pc[c] \/ pc'[c] = "idle"
        /\ \A c \in Clients : outcome'[c] = outcome[c] \/ outcome'[c] = how
        /\ acked' = acked
    BY <2>1, AnswerFacts
  <2> QED
    BY <1>1, <1>4, <2>2, <2>3 DEF Refuse, serverVars
<1> QED
  BY <1>2, <1>3, <1>4 DEF Serve

(* What a request before the posting one changes.                          *)
LEMMA ReadFacts ==
  ASSUME TypeOK, NEW c \in Clients, Read(c)
  PROVE  /\ begun' = begun /\ net' = net /\ log' = log /\ acked' = acked
         /\ participant' = participant /\ gone' = gone /\ pc[c] = "read"
         /\ \A d \in Clients :
              /\ call'[d].n = call[d].n /\ call'[d].kind = call[d].kind
              /\ call'[d].prior = call[d].prior /\ call'[d].since = call[d].since
              /\ d # c => call'[d] = call[d] /\ pc'[d] = pc[d]
         /\ \A d \in Clients : pc'[d] = "idle" \/ pc[d] # "idle"
         /\ \/ pc'[c] = "idle"
            \/ pc'[c] = "send" /\ (call[c].kind = "message" => call'[c].after = lastMessageID)
<1>1. /\ begun' = begun /\ net' = net /\ log' = log /\ acked' = acked
      /\ participant' = participant /\ gone' = gone /\ pc[c] = "read"
  BY DEF Read, ReadMessages, ReadParticipants, ReadMissing, Return, serverVars
<1>2. \A d \in Clients : call[d] \in Call
  BY DEF TypeOK
<1>3. CASE ReadMessages(c)
  BY <1>1, <1>2, <1>3 DEF ReadMessages, TypeOK, Call
<1>4. CASE ReadParticipants(c) \/ ReadMissing(c) \/ Return(c, "error")
  BY <1>1, <1>4 DEF ReadParticipants, ReadMissing, Return, TypeOK
<1> QED
  BY <1>3, <1>4 DEF Read

(* A call that posts has a number, so what it posts is typed.              *)
LEMMA TypeStep ==
  ASSUME TypeOK, Numbers, [Next]_vars
  PROVE  TypeOK'
<1> DEFINE Entry == [call : Call, id : Ids]
<1> USE ConversationsAssumption DEF ConversationsAssumption, callVars, serverVars
<1>1. ASSUME NEW c \in Clients, NEW kind \in Kinds, Begin(c, kind) PROVE TypeOK'
  <2> DEFINE new == [n |-> begun + 1, kind |-> kind, after |-> NoId,
                     prior |-> acked, since |-> Len(log)]
  <2>1. begun' = begun + 1 /\ begun' \in 0..MaxOps /\ begun' \in Calls
    BY <1>1 DEF Begin, TypeOK, Calls
  <2>2. Len(log) \in Nat /\ acked \subseteq Calls
    BY DEF TypeOK
  <2>3. new \in Call
    BY <2>1, <2>2 DEF Call, Ids
  <2>4. call' \in [Clients -> Call]
    <3>1. call' = [call EXCEPT ![c] = new] /\ call \in [Clients -> Call]
      BY <1>1 DEF Begin, TypeOK
    <3> HIDE DEF new
    <3> QED
      BY <2>3, <3>1
  <2>5. gone' \in [Clients -> BOOLEAN]
    BY <1>1 DEF Begin, TypeOK
  <2>6. /\ attempt' \in [Clients -> 0..MaxAttempts]
        /\ pc' \in [Clients -> {"idle", "read", "send", "wait"}]
        /\ outcome' \in [Clients -> {"none", "ok", "missing", "notFound", "refused", "error"}]
        /\ UNCHANGED <<acked, faults, net, serverVars>>
    BY <1>1 DEF Begin, TypeOK
  <2> QED
    BY <2>1, <2>4, <2>5, <2>6 DEF TypeOK
<1>2. ASSUME NEW c \in Clients, Read(c) PROVE TypeOK'
  <2>1. UNCHANGED <<begun, attempt, faults, net, gone, serverVars>>
    BY <1>2 DEF Read, ReadMessages, ReadParticipants, ReadMissing, Return
  <2>2. call' \in [Clients -> Call]
    <3>1. call' = call \/ call' = [call EXCEPT ![c].after = lastMessageID]
      BY <1>2 DEF Read, ReadMessages, ReadParticipants, ReadMissing, Return
    <3>2. call \in [Clients -> Call] /\ lastMessageID \in Ids
      BY NewestFacts DEF TypeOK
    <3> QED
      BY <3>1, <3>2 DEF Call
  <2>3. /\ pc' \in [Clients -> {"idle", "read", "send", "wait"}]
        /\ outcome' \in [Clients -> {"none", "ok", "missing", "notFound", "refused", "error"}]
        /\ acked' = acked
    BY <1>2 DEF Read, ReadMessages, ReadParticipants, ReadMissing, Return, TypeOK
  <2> QED
    BY <2>1, <2>2, <2>3 DEF TypeOK
<1>3. ASSUME NEW c \in Clients, Send(c) PROVE TypeOK'
  <2> DEFINE new == [client |-> c, call |-> call[c], attempt |-> attempt[c],
                     id |-> ClientId(c)]
  <2>1. call[c].n # 0 /\ call[c] \in Call /\ attempt[c] \in 0..MaxAttempts
    BY <1>3 DEF Send, Numbers, TypeOK
  <2>2. ClientId(c) \in Ids
    BY <2>1 DEF ClientId, Ids, Call
  <2>3. new \in Request
    BY <2>1, <2>2 DEF Request
  <2>4. net' = net \cup {new}
    BY <1>3 DEF Send
  <2> HIDE DEF new
  <2> QED
    BY <1>3, <2>3, <2>4 DEF Send, TypeOK
<1>4. ASSUME NEW c \in Clients, GiveUp(c) \/ Cancel(c) PROVE TypeOK'
  <2>1. UNCHANGED <<begun, acked, call, net, gone, participant, log>>
    BY <1>4, CallerFacts
  <2>2. /\ faults' \in 0..MaxFaults /\ attempt' \in [Clients -> 0..MaxAttempts]
        /\ pc' \in [Clients -> {"idle", "read", "send", "wait"}]
        /\ outcome' \in
             [Clients -> {"none", "ok", "missing", "notFound", "refused", "error"}]
    BY <1>4, CallerFacts
  <2> QED
    BY <2>1, <2>2 DEF TypeOK
<1>5. ASSUME NEW m \in net, Serve(m) PROVE TypeOK'
  <2>1. m.call \in Call /\ m.id \in Ids /\ m.call.n \in {0} \cup Calls
    BY DEF TypeOK, Request, Call
  <2>2. acked' \subseteq Calls
    <3>1. m.call.n # 0
      BY DEF Numbers
    <3> QED
      BY <1>5, <2>1, <3>1, ServeFacts DEF TypeOK
  <2>3. participant' \in {"absent", "invited", "joined"}
    BY <1>5, ServeFacts DEF Moved, TypeOK
  <2>4. log' \in Seq(Entry)
    <3>1. log \in Seq(Entry) /\ [call |-> m.call, id |-> m.id] \in Entry
      BY <2>1 DEF TypeOK
    <3>2. log' = log \/ log' = Append(log, [call |-> m.call, id |-> m.id])
      BY <1>5, ServeFacts
    <3> HIDE DEF Entry
    <3> QED
      BY <3>1, <3>2, AppendFacts
  <2>5. gone' \in [Clients -> BOOLEAN]
    <3>1. gone' = gone \/ gone' = [c \in Clients |-> gone[c] \/ participant' = "absent"]
      BY <1>5, ServeFacts
    <3>2. [c \in Clients |-> gone[c] \/ participant' = "absent"] \in [Clients -> BOOLEAN]
      OBVIOUS
    <3> QED
      BY <3>1, <3>2 DEF TypeOK
  <2> QED
    BY <1>5, <2>2, <2>3, <2>4, <2>5, ServeFacts DEF TypeOK
<1>6. ASSUME NEW m \in net, Forbidden(m) PROVE TypeOK'
  <2>1. /\ UNCHANGED <<begun, acked, call, attempt, outcome, faults, gone, participant, log>>
        /\ net' = net \ {m}
        /\ pc' \in [Clients -> {"idle", "read", "send", "wait"}]
    BY <1>6, ForbiddenFacts
  <2> QED
    BY <2>1 DEF TypeOK
<1>7. CASE UNCHANGED vars
  BY <1>7 DEF vars, TypeOK
<1> QED
  BY <1>1, <1>2, <1>3, <1>4, <1>5, <1>6, <1>7, StepCases

-----------------------------------------------------------------------------
(* What there is a trace of is a call. *)
LEMMA RecordFacts ==
  ASSUME TypeOK
  PROVE  /\ \A c \in Clients : call[c] \in Records
         /\ \A m \in net : m.call \in Records
         /\ \A k \in DOMAIN log : log[k].call \in Records
         /\ Records \subseteq Call
         /\ \A x \in Records : x.n \in Nat /\ x.since \in Nat
<1> DEFINE Entry == [call : Call, id : Ids]
<1>1. log \in Seq(Entry)
  BY DEF TypeOK
<1>2. \A k \in DOMAIN log : log[k] \in Entry
  <2> HIDE DEF Entry
  <2> QED
    BY <1>1
<1>3. \A k \in DOMAIN log : log[k].call \in Call
  BY <1>2
<1>4. \A m \in net : m.call \in Call
  BY DEF TypeOK, Request
<1>5. Records \subseteq Call
  BY <1>3, <1>4 DEF Records, TypeOK
<1> QED
  BY <1>5 DEF Records, Call, Calls

(* What the log is after a step. *)
LEMMA LogStep ==
  ASSUME TypeOK, NEW m \in net, log' = Append(log, [call |-> m.call, id |-> m.id])
  PROVE  /\ Len(log) \in Nat /\ DOMAIN log = 1..Len(log)
         /\ DOMAIN log' = 1..(Len(log) + 1)
         /\ \A k \in 1..Len(log) : log'[k] = log[k]
         /\ log'[Len(log) + 1].call = m.call /\ log'[Len(log) + 1].id = m.id
         /\ \A x \in Records : Based(x, log) =>
              Based(x, log') /\ (Covered(x, log) => Covered(x, log'))
<1> DEFINE Entry == [call : Call, id : Ids]
           e == [call |-> m.call, id |-> m.id]
<1>1. log \in Seq(Entry) /\ e \in Entry /\ e.call = m.call /\ e.id = m.id
  BY DEF TypeOK, Request
<1>2. log' = Append(log, e)
  OBVIOUS
<1> HIDE DEF Entry, e
<1>3. /\ Len(log) \in Nat /\ DOMAIN log = 1..Len(log)
      /\ DOMAIN log' = 1..(Len(log) + 1)
      /\ \A k \in 1..Len(log) : log'[k] = log[k]
      /\ log'[Len(log) + 1] = e
  BY <1>1, <1>2, AppendFacts
<1>4. ASSUME NEW x \in Records, Based(x, log)
      PROVE  Based(x, log') /\ (Covered(x, log) => Covered(x, log'))
  BY <1>1, <1>2, <1>4, LogKeeps, RecordFacts
<1> QED
  BY <1>1, <1>3, <1>4

(* Of every call there is a trace of, its number and kind were known before, *)
(* or it begins now.                                                       *)
LEMMA NumbersStep ==
  ASSUME TypeOK, Numbers, [Next]_vars
  PROVE  Numbers'
<1> USE DEF callVars, serverVars
<1>0. /\ \A c \in Clients : call[c] \in Records
      /\ \A m \in net : m.call \in Records
      /\ \A k \in DOMAIN log : log[k].call \in Records
      /\ \A x \in Records : x.n \in Nat
  BY RecordFacts
<1>1. ASSUME NEW c \in Clients, NEW kind \in Kinds, Begin(c, kind) PROVE Numbers'
  <2>1. /\ begun' = begun + 1 /\ net' = net /\ log' = log
        /\ call'[c].n = begun + 1
        /\ \A d \in Clients : d # c => call'[d] = call[d] /\ pc'[d] = pc[d]
    BY <1>1 DEF Begin, TypeOK
  <2>2. \A x \in Records' : x \in Records \/ x = call'[c]
    BY <1>0, <2>1 DEF Records
  <2>3. begun \in Nat /\ \A x \in Records : x.n \in Nat
    BY <1>0 DEF TypeOK
  <2>4. \A x \in Records : x.n # begun + 1 /\ x.n <= begun + 1
    BY <2>3 DEF Numbers
  <2>5. \A x \in Records' : x.n <= begun'
    BY <2>1, <2>2, <2>3, <2>4
  <2>6. \A x, y \in Records' : x.n = y.n => x.kind = y.kind
    BY <2>1, <2>2, <2>4 DEF Numbers
  <2>7. \A d \in Clients : pc'[d] # "idle" => call'[d].n # 0
    BY <2>1, <2>3 DEF Numbers
  <2> QED
    BY <2>1, <2>5, <2>6, <2>7 DEF Numbers
<1>2. ASSUME begun' = begun,
             \A x \in Records' : \E y \in Records : x.n = y.n /\ x.kind = y.kind,
             \A c \in Clients : pc'[c] = "idle" \/ (pc[c] # "idle" /\ call'[c].n = call[c].n),
             \A m \in net' : m \in net \/ m.call.n # 0
      PROVE  Numbers'
  BY <1>2 DEF Numbers
<1>3. ASSUME NEW c \in Clients, Read(c) PROVE Numbers'
  <2>1. /\ begun' = begun /\ net' = net /\ log' = log
        /\ \A d \in Clients : call'[d].n = call[d].n /\ call'[d].kind = call[d].kind
        /\ \A d \in Clients : pc'[d] = "idle" \/ pc[d] # "idle"
    BY <1>3, ReadFacts
  <2>2. \A x \in Records' : \E y \in Records : x.n = y.n /\ x.kind = y.kind
    BY <1>0, <2>1 DEF Records
  <2> QED
    BY <1>2, <2>1, <2>2
<1>4. ASSUME NEW c \in Clients, Send(c) PROVE Numbers'
  <2>1. /\ begun' = begun /\ call' = call /\ log' = log /\ pc[c] = "send"
        /\ \A m \in net' : m \in net \/ m.call = call[c]
        /\ \A d \in Clients : d # c => pc'[d] = pc[d]
    BY <1>4 DEF Send, TypeOK
  <2>2. Records' \subseteq Records
    BY <1>0, <2>1 DEF Records
  <2>3. call[c].n # 0
    BY <2>1 DEF Numbers
  <2> QED
    BY <1>2, <2>1, <2>2, <2>3
<1>5. ASSUME NEW c \in Clients, GiveUp(c) \/ Cancel(c) PROVE Numbers'
  <2>1. /\ begun' = begun /\ call' = call /\ log' = log /\ net' = net
        /\ \A d \in Clients : pc'[d] = "idle" \/ pc[d] # "idle"
    BY <1>5, CallerFacts
  <2>2. Records' = Records
    BY <2>1 DEF Records
  <2> QED
    BY <1>2, <2>1, <2>2
<1>6. ASSUME NEW m \in net, Serve(m) PROVE Numbers'
  <2>1. /\ begun' = begun /\ call' = call /\ net' \subseteq net
        /\ log' = log \/ log' = Append(log, [call |-> m.call, id |-> m.id])
        /\ \A d \in Clients : pc'[d] = "idle" \/ pc'[d] = pc[d]
    BY <1>6, ServeFacts
  <2>2. \A k \in DOMAIN log' : log'[k].call = m.call \/ (k \in DOMAIN log /\ log'[k] = log[k])
    <3> DEFINE Entry == [call : Call, id : Ids]
               e == [call |-> m.call, id |-> m.id]
    <3>1. log \in Seq(Entry) /\ e \in Entry /\ e.call = m.call
      BY DEF TypeOK, Request
    <3> HIDE DEF Entry, e
    <3>2. log' = log \/ log' = Append(log, e)
      BY <2>1 DEF e
    <3> QED
      BY <3>1, <3>2, AppendFacts
  <2>3. Records' \subseteq Records
    BY <1>0, <2>1, <2>2 DEF Records
  <2> QED
    BY <1>2, <2>1, <2>3
<1>7. ASSUME NEW m \in net, Forbidden(m) PROVE Numbers'
  <2>1. /\ begun' = begun /\ call' = call /\ log' = log /\ net' \subseteq net
        /\ \A d \in Clients : pc'[d] = "idle" \/ pc[d] # "idle"
    BY <1>7, ForbiddenFacts
  <2>2. Records' \subseteq Records
    BY <2>1 DEF Records
  <2> QED
    BY <1>2, <2>1, <2>2
<1>8. CASE UNCHANGED vars
  BY <1>8 DEF vars, Numbers, Records
<1> QED
  BY <1>1, <1>3, <1>4, <1>5, <1>6, <1>7, <1>8, StepCases

(* What a call begins from is in the log already, and what it reads hides  *)
(* nothing of that.                                                        *)
LEMMA BodiesStep ==
  ASSUME TypeOK, Bodies, Acknowledged, [Next]_vars
  PROVE  Bodies'
<1> USE DEF callVars, serverVars
<1>0. /\ \A c \in Clients : call[c] \in Records
      /\ \A m \in net : m.call \in Records
      /\ \A k \in DOMAIN log : log[k].call \in Records
  BY RecordFacts
<1>1. ASSUME NEW c \in Clients, NEW kind \in Kinds, Begin(c, kind) PROVE Bodies'
  <2>1. /\ net' = net /\ log' = log
        /\ call'[c].prior = acked /\ call'[c].since = Len(log) /\ call'[c].kind = kind
        /\ pc'[c] \in {"send", "wait"} => kind # "message"
        /\ \A d \in Clients : d # c => call'[d] = call[d] /\ pc'[d] = pc[d]
    BY <1>1 DEF Begin, TypeOK, Readers
  <2>2. \A x \in Records' : x \in Records \/ x = call'[c]
    BY <1>0, <2>1 DEF Records
  <2>3. Len(log) \in Nat /\ DOMAIN log = 1..Len(log)
    BY DEF TypeOK
  <2>4. Based(call'[c], log)
    BY <2>1, <2>3 DEF Based, Acknowledged
  <2>5. \A x \in Records' : Based(x, log')
    BY <2>1, <2>2, <2>4 DEF Bodies
  <2>6. \A d \in Clients : pc'[d] \in {"send", "wait"} => Covered(call'[d], log')
    <3>1. pc'[c] \in {"send", "wait"} => Covered(call'[c], log')
      BY <2>1 DEF Covered
    <3> QED
      BY <2>1, <3>1 DEF Bodies
  <2> QED
    BY <2>1, <2>5, <2>6 DEF Bodies
<1>2. ASSUME NEW c \in Clients, Read(c) PROVE Bodies'
  <2>1. /\ net' = net /\ log' = log
        /\ call'[c].kind = call[c].kind /\ call'[c].prior = call[c].prior
        /\ call'[c].since = call[c].since
        /\ \A d \in Clients : d # c => call'[d] = call[d] /\ pc'[d] = pc[d]
        /\ \/ pc'[c] = "idle"
           \/ pc'[c] = "send" /\ (call[c].kind = "message" => call'[c].after = lastMessageID)
    BY <1>2, ReadFacts
  <2>2. \A x \in Records' : x \in Records \/ x = call'[c]
    BY <1>0, <2>1 DEF Records
  <2>3. Based(call[c], log)
    BY <1>0 DEF Bodies
  <2>4. Based(call'[c], log)
    BY <2>1, <2>3 DEF Based
  <2>5. \A x \in Records' : Based(x, log')
    BY <2>1, <2>2, <2>4 DEF Bodies
  <2>6. pc'[c] \in {"send", "wait"} => Covered(call'[c], log)
    <3> DEFINE old == {k \in 1..call'[c].since : IsPost(log[k])}
    <3>1. old \subseteq Posts
      <4>1. Len(log) \in Nat /\ DOMAIN log = 1..Len(log) /\ call[c].since \in Nat
        BY <1>0, RecordFacts DEF TypeOK
      <4> QED
        BY <2>1, <2>3, <4>1 DEF Based, Posts
    <3>2. Posts # {} => \E p \in Posts : log[p].id = lastMessageID /\ \A k \in Posts : k <= p
      BY NewestFacts
    <3>3. \A p \in Posts : p \in DOMAIN log
      BY DEF Posts
    <3> SUFFICES ASSUME pc'[c] = "send", call[c].kind = "message", old # {}
                 PROVE  \E p \in DOMAIN log :
                          log[p].id = call'[c].after /\ \A k \in old : k <= p
      BY <2>1 DEF Covered
    <3> QED
      BY <2>1, <3>1, <3>2, <3>3
  <2>7. \A d \in Clients : pc'[d] \in {"send", "wait"} => Covered(call'[d], log')
    BY <2>1, <2>6 DEF Bodies
  <2> QED
    BY <2>1, <2>5, <2>7 DEF Bodies
<1>3. ASSUME NEW c \in Clients, Send(c) PROVE Bodies'
  <2>1. /\ call' = call /\ log' = log /\ pc[c] = "send"
        /\ \A m \in net' : m \in net \/ (m.call = call[c] /\ m.id = ClientId(c))
        /\ \A d \in Clients : d # c => pc'[d] = pc[d]
    BY <1>3 DEF Send, TypeOK
  <2>2. Records' \subseteq Records
    BY <1>0, <2>1 DEF Records
  <2>3. Covered(call[c], log) /\ ClientId(c) = IdOf(call[c])
    BY <2>1 DEF Bodies, ClientId, IdOf
  <2>4. \A d \in Clients : pc'[d] \in {"send", "wait"} => Covered(call'[d], log')
    BY <2>1, <2>3 DEF Bodies
  <2> QED
    BY <2>1, <2>2, <2>3, <2>4 DEF Bodies
<1>4. ASSUME NEW c \in Clients, GiveUp(c) \/ Cancel(c) PROVE Bodies'
  <2>1. /\ call' = call /\ log' = log /\ net' = net
        /\ \A d \in Clients : pc'[d] \in {"send", "wait"} => pc[d] \in {"send", "wait"}
    BY <1>4, CallerFacts
  <2>2. Records' = Records
    BY <2>1 DEF Records
  <2> QED
    BY <2>1, <2>2 DEF Bodies
<1>5. ASSUME NEW m \in net, Serve(m) PROVE Bodies'
  <2>1. /\ call' = call /\ net' \subseteq net
        /\ log' = log \/ log' = Append(log, [call |-> m.call, id |-> m.id])
        /\ \A d \in Clients : pc'[d] \in {"send", "wait"} => pc[d] \in {"send", "wait"}
    BY <1>5, ServeFacts
  <2>2. CASE log' = log
    <3>1. Records' \subseteq Records
      BY <1>0, <2>1, <2>2 DEF Records
    <3> QED
      BY <2>1, <2>2, <3>1 DEF Bodies
  <2>3. CASE log' = Append(log, [call |-> m.call, id |-> m.id])
    <3>1. /\ Len(log) \in Nat /\ DOMAIN log = 1..Len(log)
          /\ DOMAIN log' = 1..(Len(log) + 1)
          /\ \A k \in 1..Len(log) : log'[k] = log[k]
          /\ log'[Len(log) + 1].call = m.call /\ log'[Len(log) + 1].id = m.id
      BY <2>3, LogStep
    <3>2. \A x \in Records : Based(x, log')
      BY <2>3, LogStep DEF Bodies
    <3>3. \A x \in Records : Covered(x, log) => Covered(x, log')
      BY <2>3, LogStep DEF Bodies
    <3>4. \A k \in DOMAIN log' : k \in DOMAIN log \/ k = Len(log) + 1
      BY <3>1
    <3>5. Records' \subseteq Records
      BY <1>0, <2>1, <3>1, <3>4 DEF Records
    <3>6. Covered(m.call, log') /\ m.id = IdOf(m.call) /\ m.call.since < Len(log) + 1
      <4>1. Based(m.call, log) /\ m.call.since \in Nat
        BY <1>0, RecordFacts DEF Bodies
      <4>2. m.call.since < Len(log) + 1
        BY <3>1, <4>1 DEF Based
      <4> QED
        BY <1>0, <3>3, <4>2 DEF Bodies
    <3>7. ASSUME NEW k \in DOMAIN log'
          PROVE  /\ Covered(log'[k].call, log')
                 /\ log'[k].id = IdOf(log'[k].call)
                 /\ log'[k].call.since < k
      <4>1. CASE k \in DOMAIN log
        BY <1>0, <3>1, <3>3, <4>1 DEF Bodies
      <4>2. CASE k = Len(log) + 1
        BY <3>1, <3>6, <4>2
      <4> QED
        BY <3>4, <4>1, <4>2
    <3>8. \A d \in Clients : pc'[d] \in {"send", "wait"} => Covered(call'[d], log')
      BY <1>0, <2>1, <3>3 DEF Bodies
    <3>9. \A w \in net' : Covered(w.call, log') /\ w.id = IdOf(w.call)
      BY <1>0, <2>1, <3>3 DEF Bodies
    <3> QED
      BY <3>2, <3>5, <3>7, <3>8, <3>9 DEF Bodies
  <2> QED
    BY <2>1, <2>2, <2>3
<1>6. ASSUME NEW m \in net, Forbidden(m) PROVE Bodies'
  <2>1. /\ call' = call /\ log' = log /\ net' \subseteq net
        /\ \A d \in Clients : pc'[d] \in {"send", "wait"} => pc[d] \in {"send", "wait"}
    BY <1>6, ForbiddenFacts
  <2>2. Records' \subseteq Records
    BY <2>1 DEF Records
  <2> QED
    BY <2>1, <2>2 DEF Bodies
<1>7. CASE UNCHANGED vars
  BY <1>7 DEF vars, Bodies, Records
<1> QED
  BY <1>1, <1>2, <1>3, <1>4, <1>5, <1>6, <1>7, StepCases

(* Who returns without an error was carried out: now, or, if the server    *)
(* drops the request as known, before.                                     *)
LEMMA AcknowledgedStep ==
  ASSUME TypeOK, Bodies, Acknowledged, [Next]_vars
  PROVE  Acknowledged'
<1> USE DEF callVars, serverVars
<1>1. ASSUME NEW c \in Clients,
             \/ Read(c) \/ Send(c) \/ GiveUp(c) \/ Cancel(c)
             \/ \E kind \in Kinds : Begin(c, kind)
      PROVE  acked' = acked /\ log' = log
  <2>1. Read(c) => acked' = acked /\ log' = log
    BY ReadFacts
  <2> QED
    BY <1>1, <2>1, CallerFacts DEF Send, Begin
<1>2. ASSUME NEW m \in net, Serve(m) PROVE Acknowledged'
  <2>1. CASE log' = Append(log, [call |-> m.call, id |-> m.id])
    <3>1. /\ Len(log) \in Nat /\ DOMAIN log = 1..Len(log)
          /\ DOMAIN log' = 1..(Len(log) + 1)
          /\ \A k \in 1..Len(log) : log'[k] = log[k]
          /\ log'[Len(log) + 1].call = m.call
      BY <2>1, LogStep
    <3>2. acked' = acked \/ acked' = acked \cup {m.call.n}
      BY <1>2, ServeFacts
    <3>3. Len(log) + 1 \in DOMAIN log' /\ \A k \in DOMAIN log : k \in DOMAIN log'
      BY <3>1
    <3> QED
      BY <3>1, <3>2, <3>3 DEF Acknowledged
  <2>2. CASE log' = log /\ acked' = acked
    BY <2>2 DEF Acknowledged
  <2>3. CASE /\ log' = log /\ acked' = acked \cup {m.call.n}
             /\ \E k \in DOMAIN log : m.id # NoId /\ log[k].id = m.id
    <3>1. PICK k \in DOMAIN log : m.id # NoId /\ log[k].id = m.id
      BY <2>3
    <3>2. m.id = IdOf(m.call) /\ log[k].id = IdOf(log[k].call)
      BY DEF Bodies
    <3>3. log[k].call.n = m.call.n
      BY <3>1, <3>2 DEF IdOf, NoId
    <3> QED
      BY <2>3, <3>3 DEF Acknowledged
  <2> QED
    BY <1>2, <2>1, <2>2, <2>3, ServeFacts
<1>3. ASSUME NEW m \in net, Forbidden(m) PROVE acked' = acked /\ log' = log
  BY <1>3, ForbiddenFacts
<1>4. CASE UNCHANGED vars
  BY <1>4 DEF vars, Acknowledged
<1> QED
  BY <1>1, <1>2, <1>3, <1>4, StepCases DEF Acknowledged

(* The participant's absence is seen by every call that runs.              *)
LEMMA AwayStep ==
  ASSUME TypeOK, Away, [Next]_vars
  PROVE  Away'
<1> USE DEF Away, callVars, serverVars
<1>1. ASSUME NEW c \in Clients, NEW kind \in Kinds, Begin(c, kind) PROVE Away'
  <2>1. /\ participant' = participant
        /\ gone'[c] = (participant = "absent") /\ outcome'[c] = "none"
        /\ \A d \in Clients : d # c => gone'[d] = gone[d] /\ outcome'[d] = outcome[d]
    BY <1>1 DEF Begin, TypeOK
  <2> QED
    BY <2>1
<1>2. ASSUME NEW c \in Clients, Read(c) PROVE Away'
  <2>1. participant' = participant /\ gone' = gone
    BY <1>2, ReadFacts
  <2>2. \A d \in Clients : outcome'[d] = "notFound" =>
          outcome[d] = "notFound" \/ participant = "absent"
    BY <1>2 DEF Read, ReadMessages, ReadParticipants, ReadMissing, Return, Found, TypeOK
  <2> QED
    BY <2>1, <2>2
<1>3. ASSUME NEW c \in Clients, Send(c) \/ GiveUp(c) \/ Cancel(c) PROVE Away'
  <2>1. participant' = participant /\ gone' = gone
    BY <1>3, CallerFacts DEF Send
  <2>2. \A d \in Clients : outcome'[d] = "notFound" => outcome[d] = "notFound"
    BY <1>3, CallerFacts DEF Send
  <2> QED
    BY <2>1, <2>2
<1>4. ASSUME NEW m \in net, Serve(m) PROVE Away'
  <2>1. CASE /\ gone' = [c \in Clients |-> gone[c] \/ participant' = "absent"]
             /\ \A c \in Clients : outcome'[c] = "notFound" => outcome[c] = "notFound"
    BY <2>1
  <2>2. CASE /\ gone' = gone /\ participant' = participant
             /\ \A c \in Clients : outcome'[c] = "notFound" =>
                  outcome[c] = "notFound" \/ participant = "absent"
    BY <2>2
  <2> QED
    BY <1>4, <2>1, <2>2, ServeFacts
<1>5. ASSUME NEW m \in net, Forbidden(m) PROVE Away'
  BY <1>5, ForbiddenFacts
<1>6. CASE UNCHANGED vars
  BY <1>6 DEF vars
<1> QED
  BY <1>1, <1>2, <1>3, <1>4, <1>5, <1>6, StepCases

-----------------------------------------------------------------------------
(* IInv is an invariant. *)
LEMMA Inductive == Spec => []IInv
<1>1. Init => IInv
  <2> SUFFICES ASSUME Init PROVE IInv
    OBVIOUS
  <2> DEFINE first == [n |-> 0, kind |-> "message", after |-> NoId, prior |-> {}, since |-> 0]
             Entry == [call : Call, id : Ids]
  <2>1. /\ begun = 0 /\ acked = {} /\ net = {} /\ log = <<>> /\ faults = 0
        /\ call = [c \in Clients |-> first] /\ pc = [c \in Clients |-> "idle"]
        /\ participant = "absent"
    BY DEF Init
  <2>2. first \in Call
    BY DEF Call, Ids, Kinds
  <2>3. Records \subseteq {first}
    BY <2>1 DEF Records
  <2>4. /\ first.n = 0 /\ first.since = 0 /\ first.prior = {}
    OBVIOUS
  <2>5. Based(first, log)
    BY <2>1, <2>4 DEF Based
  <2>6. TypeOK
    <3>1. log \in Seq(Entry)
      BY <2>1
    <3>2. call \in [Clients -> Call]
      BY <2>1, <2>2
    <3>3. gone \in [Clients -> BOOLEAN]
      BY DEF Init
    <3>4. /\ attempt \in [Clients -> 0..MaxAttempts] /\ begun \in 0..MaxOps
          /\ faults \in 0..MaxFaults
          /\ outcome \in [Clients -> {"none", "ok", "missing", "notFound", "refused", "error"}]
          /\ pc \in [Clients -> {"idle", "read", "send", "wait"}]
      BY ConversationsAssumption DEF ConversationsAssumption, Init
    <3> QED
      BY <2>1, <3>1, <3>2, <3>3, <3>4 DEF TypeOK
  <2> HIDE DEF first
  <2>7. Numbers
    BY <2>1, <2>3, <2>4 DEF Numbers
  <2>8. Bodies
    BY <2>1, <2>3, <2>5 DEF Bodies
  <2>9. Acknowledged
    BY <2>1 DEF Acknowledged
  <2>10. Away
    BY DEF Init, Away
  <2> QED
    BY <2>6, <2>7, <2>8, <2>9, <2>10 DEF IInv
<1>2. IInv /\ [Next]_vars => IInv'
  BY TypeStep, NumbersStep, BodiesStep, AcknowledgedStep, AwayStep DEF IInv
<1> QED
  BY <1>1, <1>2, PTL DEF Spec

(* A call acknowledged before the call of an entry i began has an entry    *)
(* before i.                                                               *)
LEMMA EntryBefore ==
  ASSUME TypeOK, Bodies, NEW i \in DOMAIN log, NEW a \in log[i].call.prior
  PROVE  \E k \in 1..(i - 1) : k \in DOMAIN log /\ log[k].call.n = a
<1>1. /\ Len(log) \in Nat /\ DOMAIN log = 1..Len(log)
      /\ log[i].call.since \in Nat /\ log[i].call.since < i
      /\ Based(log[i].call, log)
  BY RecordFacts DEF TypeOK, Bodies
<1>2. PICK k \in 1..log[i].call.since : log[k].call.n = a
  BY <1>1 DEF Based
<1>3. k \in 1..(i - 1) /\ k \in DOMAIN log
  BY <1>1, <1>2
<1> QED
  BY <1>2, <1>3

(* Every reachable state has the types. *)
THEOREM TypeCorrect == Spec => []TypeOK
<1>1. IInv => TypeOK
  BY DEF IInv
<1> QED
  BY <1>1, Inductive, PTL

(* A message that comes late repeats one that is there in time, under the  *)
(* same id: a server that drops known ids keeps the order the callers saw. *)
THEOREM LateMessagesRepeat == Spec => []LateMessagesAreRepeats
<1>1. IInv => LateMessagesAreRepeats
  <2> SUFFICES ASSUME IInv, NEW i \in DOMAIN log, NEW j \in DOMAIN log,
                      IsPost(log[j]), Late(i, j)
               PROVE  \E k \in 1..(i - 1) : log[k].id = log[j].id
    BY DEF LateMessagesAreRepeats
  <2>1. PICK k \in 1..(i - 1) : k \in DOMAIN log /\ log[k].call.n = log[j].call.n
    BY EntryBefore DEF IInv, Late
  <2>2. log[k].call.kind = log[j].call.kind
    BY <2>1, RecordFacts DEF IInv, Numbers
  <2>3. log[k].id = IdOf(log[k].call) /\ log[j].id = IdOf(log[j].call)
    BY <2>1 DEF IInv, Bodies
  <2> QED
    BY <2>1, <2>2, <2>3 DEF IdOf
<1> QED
  BY <1>1, Inductive, PTL

(* What undoes a later call's effect had its own before: only a repeated   *)
(* request breaks the order of acknowledged calls.                         *)
THEOREM EffectsAreOrdered == Spec => []EffectsInOrder
<1>1. IInv => EffectsInOrder
  <2> SUFFICES ASSUME IInv, NEW i \in DOMAIN log, NEW j \in DOMAIN log, Late(i, j)
               PROVE  \E k \in 1..(i - 1) : log[k].call.n = log[j].call.n
    BY DEF EffectsInOrder
  <2> QED
    BY EntryBefore DEF IInv, Late
<1> QED
  BY <1>1, Inductive, PTL

(* localState.lastMessageId hides no message that was there when the call  *)
(* began.                                                                  *)
THEOREM NoMessageIsHidden == Spec => []NothingMissed
<1>1. IInv => NothingMissed
  <2>1. ASSUME TypeOK, Bodies, NEW e \in ToSet(log), IsPost(e)
        PROVE  LET old == {k \in 1..e.call.since : IsPost(log[k])} IN
               old # {} => \E p \in DOMAIN log : log[p].id = e.call.after /\ \A k \in old : k <= p
    <3>1. PICK n \in DOMAIN log : e = log[n]
      BY DEF ToSet
    <3>2. Covered(log[n].call, log)
      BY <2>1 DEF Bodies
    <3>3. Covered(e.call, log)
      BY <3>1, <3>2
    <3> QED
      BY <2>1, <3>3 DEF Covered, IsPost
  <2> QED
    BY <2>1 DEF IInv, NothingMissed
<1> QED
  BY <1>1, Inductive, PTL

(* RemoveParticipant returns ErrNotFound only about a participant that was *)
(* absent at some time during the call.                                    *)
THEOREM NotFoundIsTrue == Spec => []NotFoundWasAbsent
<1>1. IInv => NotFoundWasAbsent
  BY DEF IInv, Away, NotFoundWasAbsent
<1> QED
  BY <1>1, Inductive, PTL

-----------------------------------------------------------------------------
(* Without faults.                                                         *)

(* n was carried out.                                                      *)
InLog(n) == \E k \in DOMAIN log : log[k].call.n = n

(* As long as every attempt got its answer: a call sends once, and what it *)
(* sent or is about to send was not carried out.                           *)
NoRepeat ==
  faults = 0 =>
    /\ \A c \in Clients : pc[c] \in {"read", "send"} => ~InLog(call[c].n)
    /\ \A m \in net :
         /\ pc[m.client] = "wait" /\ m.call = call[m.client] /\ ~InLog(m.call.n)
    /\ \A m, w \in net : m.client = w.client => m = w
    /\ \A c, d \in Clients :
         pc[c] # "idle" /\ pc[d] # "idle" /\ call[c].n = call[d].n => c = d
    /\ \A i, j \in DOMAIN log : log[i].call.n = log[j].call.n => i = j

(* Every call has one effect at most, and effects come in the order in     *)
(* which the calls returned.                                               *)
OnceInOrder ==
  faults = 0 =>
    \A i, j \in DOMAIN log :
      /\ log[i].call.n = log[j].call.n => i = j
      /\ ~Late(i, j)

(* Serving m touches no other client. *)
LEMMA OthersWait ==
  ASSUME TypeOK, NEW m \in net, Serve(m), NEW d \in Clients, d # m.client
  PROVE  pc'[d] = pc[d]
<1>1. PICK how : Answer(m, how)
  BY DEF Serve, Apply, Drop, Refuse
<1> QED
  BY <1>1 DEF Answer, Return, callVars, TypeOK

(* Without faults no call is carried out twice. *)
LEMMA NoRepeatStep ==
  ASSUME TypeOK, Numbers, NoRepeat, [Next]_vars
  PROVE  NoRepeat'
<1> USE DEF callVars, serverVars
<1>0. /\ \A c \in Clients : call[c] \in Records
      /\ \A m \in net : m.call \in Records /\ m.client \in Clients
      /\ \A k \in DOMAIN log : log[k].call \in Records
  BY RecordFacts DEF TypeOK, Request
<1>1. ASSUME NEW c \in Clients, NEW kind \in Kinds, Begin(c, kind) PROVE NoRepeat'
  <2>1. /\ net' = net /\ log' = log /\ faults' = faults /\ pc[c] = "idle"
        /\ call'[c].n = begun + 1
        /\ \A d \in Clients : d # c => call'[d] = call[d] /\ pc'[d] = pc[d]
    BY <1>1 DEF Begin, TypeOK
  <2>2. begun \in Nat /\ \A x \in Records : x.n \in Nat /\ x.n <= begun
    BY RecordFacts DEF TypeOK, Numbers
  <2>3. \A x \in Records : x.n # begun + 1
    BY <2>2
  <2>4. ~InLog(begun + 1) /\ \A d \in Clients : call[d].n # begun + 1
    BY <1>0, <2>3 DEF InLog
  <2> SUFFICES ASSUME faults = 0 PROVE NoRepeat'
    BY <2>1 DEF NoRepeat
  <2>5. \A m \in net : m.client # c
    BY <2>1 DEF NoRepeat
  <2>6. \A d \in Clients : pc'[d] \in {"read", "send"} => ~InLog(call[d].n)'
    BY <2>1, <2>4 DEF NoRepeat, InLog
  <2>7. \A m \in net' :
          pc'[m.client] = "wait" /\ m.call = call'[m.client] /\ ~InLog(m.call.n)'
    BY <1>0, <2>1, <2>5 DEF NoRepeat, InLog
  <2>8. \A a, b \in Clients :
          pc'[a] # "idle" /\ pc'[b] # "idle" /\ call'[a].n = call'[b].n => a = b
    BY <2>1, <2>4 DEF NoRepeat
  <2> QED
    BY <2>1, <2>6, <2>7, <2>8 DEF NoRepeat, InLog
<1>2. ASSUME NEW c \in Clients, Read(c) PROVE NoRepeat'
  <2>1. /\ net' = net /\ log' = log /\ faults' = faults /\ pc[c] = "read"
        /\ pc'[c] \in {"idle", "send"}
        /\ \A d \in Clients :
             /\ call'[d].n = call[d].n
             /\ d # c => call'[d] = call[d] /\ pc'[d] = pc[d]
    BY <1>2, ReadFacts DEF Read
  <2> SUFFICES ASSUME faults = 0 PROVE NoRepeat'
    BY <2>1 DEF NoRepeat
  <2>2. \A m \in net : m.client # c
    BY <2>1 DEF NoRepeat
  <2>3. \A d \in Clients : pc'[d] \in {"read", "send"} => ~InLog(call[d].n)'
    BY <2>1 DEF NoRepeat, InLog
  <2>4. \A m \in net' :
          pc'[m.client] = "wait" /\ m.call = call'[m.client] /\ ~InLog(m.call.n)'
    BY <1>0, <2>1, <2>2 DEF NoRepeat, InLog
  <2>5. \A a, b \in Clients :
          pc'[a] # "idle" /\ pc'[b] # "idle" /\ call'[a].n = call'[b].n => a = b
    BY <2>1 DEF NoRepeat
  <2> QED
    BY <2>1, <2>3, <2>4, <2>5 DEF NoRepeat, InLog
<1>3. ASSUME NEW c \in Clients, Send(c) PROVE NoRepeat'
  <2>1. /\ call' = call /\ log' = log /\ faults' = faults
        /\ pc[c] = "send" /\ pc'[c] = "wait"
        /\ \A m \in net' : m \in net \/ (m.client = c /\ m.call = call[c])
        /\ \A d \in Clients : d # c => pc'[d] = pc[d]
    BY <1>3 DEF Send, TypeOK
  <2> SUFFICES ASSUME faults = 0 PROVE NoRepeat'
    BY <2>1 DEF NoRepeat
  <2>2. \A m \in net : m.client # c
    BY <2>1 DEF NoRepeat
  <2>3. \A m, w \in net' : m.client = w.client => m = w
    BY <1>3, <2>2 DEF NoRepeat, Send
  <2>4. \A m \in net' :
          pc'[m.client] = "wait" /\ m.call = call'[m.client] /\ ~InLog(m.call.n)'
    BY <1>0, <2>1, <2>2 DEF NoRepeat, InLog
  <2> QED
    BY <2>1, <2>3, <2>4 DEF NoRepeat, InLog
<1>4. ASSUME NEW c \in Clients, GiveUp(c) \/ Cancel(c) PROVE NoRepeat'
  <2>1. faults' # 0
    BY <1>4, CallerFacts DEF TypeOK
  <2> QED
    BY <2>1 DEF NoRepeat
<1>5. ASSUME NEW m \in net, Serve(m) PROVE NoRepeat'
  <2>1. /\ call' = call /\ net' = net \ {m} /\ faults' = faults
        /\ \A c \in Clients : pc'[c] = pc[c] \/ pc'[c] = "idle"
        /\ log' = log \/ log' = Append(log, [call |-> m.call, id |-> m.id])
    BY <1>5, ServeFacts
  <2> SUFFICES ASSUME faults = 0 PROVE NoRepeat'
    BY <2>1 DEF NoRepeat
  <2>2. \A d \in Clients : d # m.client => pc'[d] = pc[d]
    BY <1>5, OthersWait
  <2>3. /\ m.client \in Clients /\ pc[m.client] = "wait"
        /\ m.call = call[m.client] /\ ~InLog(m.call.n)
    BY <1>0 DEF NoRepeat
  <2>4. \A w \in net' : w \in net /\ w.client # m.client
    BY <2>1 DEF NoRepeat
  <2>5. \A n : InLog(n)' => InLog(n) \/ n = m.call.n
    <3>1. CASE log' = log
      BY <3>1 DEF InLog
    <3>2. CASE log' = Append(log, [call |-> m.call, id |-> m.id])
      BY <3>2, LogStep DEF InLog
    <3> QED
      BY <2>1, <3>1, <3>2
  <2>6. \A c \in Clients : pc[c] # "idle" /\ c # m.client => call[c].n # m.call.n
    BY <2>3 DEF NoRepeat
  <2>7. \A c \in Clients : pc'[c] \in {"read", "send"} => ~InLog(call[c].n)'
    BY <2>1, <2>3, <2>5, <2>6 DEF NoRepeat
  <2>8. \A w \in net' :
          pc'[w.client] = "wait" /\ w.call = call'[w.client] /\ ~InLog(w.call.n)'
    BY <1>0, <2>1, <2>2, <2>4, <2>5, <2>6 DEF NoRepeat
  <2>9. \A i, j \in DOMAIN log' : log'[i].call.n = log'[j].call.n => i = j
    <3>1. CASE log' = log
      BY <3>1 DEF NoRepeat
    <3>2. CASE log' = Append(log, [call |-> m.call, id |-> m.id])
      BY <2>3, <3>2, LogStep DEF NoRepeat, InLog
    <3> QED
      BY <2>1, <3>1, <3>2
  <2> QED
    BY <2>1, <2>4, <2>7, <2>8, <2>9 DEF NoRepeat
<1>6. ASSUME NEW m \in net, Forbidden(m) PROVE NoRepeat'
  <2>1. /\ call' = call /\ net' = net \ {m} /\ faults' = faults /\ log' = log
        /\ m.client \in Clients /\ pc[m.client] = "wait"
        /\ \A d \in Clients : d # m.client => pc'[d] = pc[d]
    BY <1>6, ForbiddenFacts
  <2> SUFFICES ASSUME faults = 0 PROVE NoRepeat'
    BY <2>1 DEF NoRepeat
  <2>2. m.call = call[m.client] /\ ~InLog(m.call.n)
    BY DEF NoRepeat
  <2>3. \A w \in net' : w \in net /\ w.client # m.client
    BY <2>1 DEF NoRepeat
  <2>4. \A n : InLog(n)' <=> InLog(n)
    BY <2>1 DEF InLog
  <2>5. \A c \in Clients : pc'[c] \in {"read", "send"} => ~InLog(call[c].n)'
    BY <2>1, <2>2, <2>4 DEF NoRepeat
  <2>6. \A w \in net' :
          pc'[w.client] = "wait" /\ w.call = call'[w.client] /\ ~InLog(w.call.n)'
    BY <1>0, <2>1, <2>3, <2>4 DEF NoRepeat
  <2>7. \A a, b \in Clients :
          pc'[a] # "idle" /\ pc'[b] # "idle" /\ call'[a].n = call'[b].n => a = b
    BY <2>1 DEF NoRepeat
  <2> QED
    BY <2>1, <2>3, <2>5, <2>6, <2>7 DEF NoRepeat
<1>7. CASE UNCHANGED vars
  BY <1>7 DEF vars, NoRepeat, InLog
<1> QED
  BY <1>1, <1>2, <1>3, <1>4, <1>5, <1>6, <1>7, StepCases

(* What reorders or repeats effects is an attempt given up or a call       *)
(* cancelled, and nothing else: neither two callers, nor an answer that    *)
(* was an error, nor a session renewed on the way, nor what the server     *)
(* does with ids it knows.                                                 *)
THEOREM OnlyFaultsRepeat == Spec => []OnceInOrder
<1>1. Init => NoRepeat
  BY DEF Init, NoRepeat, InLog
<1>2. IInv /\ NoRepeat /\ [Next]_vars => NoRepeat'
  BY NoRepeatStep DEF IInv
<1>3. IInv /\ NoRepeat => OnceInOrder
  <2> SUFFICES ASSUME IInv, NoRepeat, faults = 0, NEW i \in DOMAIN log, NEW j \in DOMAIN log
               PROVE  (log[i].call.n = log[j].call.n => i = j) /\ ~Late(i, j)
    BY DEF OnceInOrder
  <2>1. log[i].call.n = log[j].call.n => i = j
    BY DEF NoRepeat
  <2>2. ASSUME Late(i, j) PROVE FALSE
    <3>1. PICK k \in 1..(i - 1) : k \in DOMAIN log /\ log[k].call.n = log[j].call.n
      BY <2>2, EntryBefore DEF IInv, Late
    <3>2. k = j
      BY <3>1 DEF NoRepeat
    <3>3. i \in Nat /\ j \in Nat
      BY DEF IInv, TypeOK
    <3> QED
      BY <2>2, <3>1, <3>2, <3>3 DEF Late
  <2> QED
    BY <2>1, <2>2
<1> QED
  BY <1>1, <1>2, <1>3, Inductive, PTL DEF Spec

=============================================================================
