-------------------------- MODULE SessionClientProofs --------------------------
(***************************************************************************)
(* Proofs about SessionClient, for any goroutines that call, keep alive    *)
(* and log out, and any number of sessions, calls and faults: the types,   *)
(* the freshness window, the refresh mutex and the rememberMe token; and,  *)
(* for a client with one calling goroutine, what EnsureSession promises.   *)
(*                                                                         *)
(* Nothing is atomic between sending with the jar's cookies and saving     *)
(* what the jar holds.  Each part of IInv follows one piece of state       *)
(* through the places of a goroutine in which others may interfere.        *)
(***************************************************************************)
EXTENDS SessionClient, TLAPS

(* Only goroutines that log out run logout, and they do nothing else.      *)
Roles ==
  /\ \A t \in Threads : pc[t] \in {"out", "leaving", "clear", "erase"} => t \in Leavers
  /\ \A t \in Leavers :
       pc[t] \in {"out", "leaving", "clear", "erase", "done"} /\ call[t].left = 0

(* The mutex and the refresh of a 403 go together; a refresh that          *)
(* EnsureSession began knows nothing of the mutex.                         *)
Mutex ==
  /\ \A t \in Threads :
       reauthMu = t =>
         pc[t] \in Refresh /\ call[t].from = "gate" /\ call[t].epochAt = epoch
  /\ \A t \in Threads : pc[t] \in Refresh /\ call[t].from = "gate" => reauthMu = t
  /\ \A t \in Threads :
       pc[t] \in {"ensure", "fill", "probe", "probing", "mark", "idle"} =>
         call[t].from = "ensure"

(* On the way to markFresh the server has confirmed a session.             *)
Window ==
  \A t \in Threads :
    pc[t] \in {"keep", "snap", "save", "mark"} =>
      call[t].standing \in {"confirmed", "ended"}

(* Until a logout clears the jar.                                          *)
NotCleared == \A l \in Leavers : pc[l] \notin {"erase", "done"}

(* A rememberMe token the store has is in the jar, and in every copy of    *)
(* the jar that is about to be saved.                                      *)
Token ==
  NotCleared =>
    /\ store.tok # 0 => jar.tok # 0
    /\ \A t \in Threads :
         /\ pc[t] \in {"tokening", "snap", "save"} => jar.tok # 0
         /\ pc[t] = "keep" => jar.tok # 0 \/ call[t].local.tok # 0
         /\ pc[t] = "save" => call[t].local.tok # 0

IInv == TypeOK /\ Roles /\ Mutex /\ Window /\ Token

(* The confirmed session of a caller is the one in the jar and, later, in  *)
(* its request.                                                            *)
ConfirmedIsUsed ==
  NotCleared =>
    \A t \in Callers :
      /\ pc[t] \in {"lock", "again"} => call[t].reauthed
      /\ pc[t] \in Refresh /\ call[t].from = "gate" => call[t].reauthed
      /\ pc[t] \in {"ensure", "fill", "probe", "probing", "lock"} =>
           call[t].standing # "confirmed"
      /\ pc[t] = "probing" => call[t].sent.sess = jar.sess
      /\ call[t].standing = "confirmed" =>
           /\ pc[t] = "keep" => call[t].local.sess \in live
           /\ pc[t] \in {"snap", "save", "mark"} => jar.sess \in live
           /\ pc[t] = "api" => jar.sess \in live
           /\ pc[t] = "calling" /\ ~call[t].reauthed => call[t].sent.sess \in live

-----------------------------------------------------------------------------
(* Steps of one goroutine.                                                 *)

Outcomes == {"none", "ok", "forbidden", "blocked", "error"}

(* Where an operation that ends leaves its goroutine.                      *)
LEMMA Finished ==
  ASSUME TypeOK, NEW t \in Threads, NEW how \in Outcomes, Finish(t, how)
  PROVE  /\ pc' \in [Threads -> Places]
         /\ call' \in [Threads -> Call]
         /\ \A u \in Threads \ {t} : pc'[u] = pc[u] /\ call'[u] = call[u]
         /\ pc'[t] \in {"idle", "ensure", "done"}
         /\ t \notin Keepers /\ call[t].left = 0 => pc'[t] = "done"
         /\ call[t].left = 0 => call'[t].left = 0
         /\ call'[t].from = "ensure" /\ call'[t].standing = "unknown"
<1> DEFINE n == IF call[t].left = 0 THEN 0 ELSE call[t].left - 1
           over == [NoCall EXCEPT !.outcome = how, !.left = n]
<1>1. /\ MaxCalls \in Nat \ {0} /\ call[t].left \in 0..MaxCalls - 1
      /\ pc \in [Threads -> Places] /\ call \in [Threads -> Call]
  BY SessionAssumption DEF SessionAssumption, TypeOK, Call
<1>2. 0 \in 0..MaxCalls - 1 /\ n \in 0..MaxCalls - 1
  BY <1>1
<1>3. NoCall \in Call /\ over \in Call
  <2> HIDE DEF n
  <2> QED BY <1>2 DEF NoCall, Call, Cookies, Empty, Outcomes
<1>4. /\ NoCall.from = "ensure" /\ NoCall.standing = "unknown" /\ NoCall.left = 0
      /\ over.from = "ensure" /\ over.standing = "unknown" /\ over.left = n
  BY DEF NoCall
<1>5. CASE t \in Keepers
  <2>1. /\ pc' = [pc EXCEPT ![t] = "idle"]
        /\ call' = [call EXCEPT ![t] = NoCall]
    BY <1>5 DEF Finish, Go
  <2> QED BY <2>1, <1>1, <1>3, <1>4, <1>5 DEF Places
<1>6. CASE t \notin Keepers
  <2>1. /\ pc' = [pc EXCEPT ![t] = IF call[t].left = 0 THEN "done" ELSE "ensure"]
        /\ call' = [call EXCEPT ![t] = over]
    BY <1>6 DEF Finish, Go
  <2>2. call[t].left = 0 => n = 0
    OBVIOUS
  <2> HIDE DEF over, n
  <2> QED BY <2>1, <2>2, <1>1, <1>3, <1>4, <1>6 DEF Places
<1> QED BY <1>5, <1>6

(* What a record of Call stays after a change of its fields.               *)
LEMMA CallFields ==
  ASSUME NEW c \in Call
  PROVE  /\ \A s \in Cookies :
              /\ [c EXCEPT !.sent = s] \in Call
              /\ [c EXCEPT !.local = s] \in Call
              /\ \A w \in {"unknown", "confirmed", "ended"} :
                   /\ [c EXCEPT !.sent = s, !.standing = w] \in Call
                   /\ [c EXCEPT !.local = s, !.standing = w] \in Call
              /\ \A v \in {"token", "login"} : [c EXCEPT !.sent = s, !.via = v] \in Call
              /\ \A e \in Nat : [c EXCEPT !.sent = s, !.epochAt = e] \in Call
         /\ \A v \in {"token", "login"} : [c EXCEPT !.via = v] \in Call
         /\ \A e \in Nat : [c EXCEPT !.epochAt = e] \in Call
         /\ \A w \in {"unknown", "confirmed", "ended"} : [c EXCEPT !.standing = w] \in Call
         /\ [c EXCEPT !.from = "gate"] \in Call
         /\ [c EXCEPT !.reauthed = TRUE] \in Call
BY DEF Call

(* A session that ends spoils what goroutines were told, and only that.    *)
LEMMA Spoiled ==
  ASSUME TypeOK, Spoil
  PROVE  /\ call' \in [Threads -> Call]
         /\ \A u \in Threads :
              /\ call'[u].sent = call[u].sent /\ call'[u].local = call[u].local
              /\ call'[u].via = call[u].via /\ call'[u].from = call[u].from
              /\ call'[u].epochAt = call[u].epochAt /\ call'[u].left = call[u].left
              /\ call'[u].reauthed = call[u].reauthed
              /\ call'[u].standing # "confirmed"
              /\ \/ call'[u].standing = call[u].standing
                 \/ call[u].standing = "confirmed" /\ call'[u].standing = "ended"
<1> DEFINE w(u) == IF call[u].standing = "confirmed" THEN "ended" ELSE call[u].standing
           over(u) == [call[u] EXCEPT !.standing = w(u)]
<1>1. call' = [u \in Threads |-> over(u)]
  BY DEF Spoil
<1>2. \A u \in Threads : call[u] \in Call
  BY DEF TypeOK
<1>3. ASSUME NEW u \in Threads
      PROVE  /\ over(u) \in Call
             /\ over(u).sent = call[u].sent /\ over(u).local = call[u].local
             /\ over(u).via = call[u].via /\ over(u).from = call[u].from
             /\ over(u).epochAt = call[u].epochAt /\ over(u).left = call[u].left
             /\ over(u).reauthed = call[u].reauthed
             /\ over(u).standing = w(u)
  BY <1>2, <1>3 DEF Call
<1>4. \A u \in Threads : call'[u] = over(u)
  BY <1>1
<1> HIDE DEF over
<1>5. call' \in [Threads -> Call]
  BY <1>1, <1>3
<1>6. ASSUME NEW u \in Threads
      PROVE  /\ w(u) # "confirmed"
             /\ \/ w(u) = call[u].standing
                \/ call[u].standing = "confirmed" /\ w(u) = "ended"
  OBVIOUS
<1> HIDE DEF w
<1> QED BY <1>3, <1>4, <1>5, <1>6

-----------------------------------------------------------------------------
(* The types.                                                              *)

LEMMA TypeInit == Init => TypeOK
<1> SUFFICES ASSUME Init PROVE TypeOK
  OBVIOUS
<1>1. MaxCalls - 1 \in 0..MaxCalls - 1 /\ 0 \in 0..MaxCalls - 1
  BY SessionAssumption DEF SessionAssumption
<1>2. \A t \in Threads :
        [NoCall EXCEPT !.left = IF t \in Callers THEN MaxCalls - 1 ELSE 0] \in Call
  <2>1. \A n \in 0..MaxCalls - 1 : [NoCall EXCEPT !.left = n] \in Call
    BY DEF NoCall, Call, Cookies, Empty
  <2> QED BY <1>1, <2>1
<1>3. store \in Cookies /\ store.sess \in {0, 1} /\ store.tok \in {0, 1}
  BY DEF Init, Empty, Cookies
<1>4. call \in [Threads -> Call] /\ pc \in [Threads -> Places]
  BY <1>2 DEF Init, Entry, Places
<1>5. live \subseteq 1..1 /\ valid \subseteq 1..1
  BY <1>3 DEF Init
<1>6. faults \in 0..MaxFaults
  BY SessionAssumption DEF SessionAssumption, Init
<1> QED BY <1>3, <1>4, <1>5, <1>6, SessionAssumption DEF Init, TypeOK, SessionAssumption

LEMMA FaultType ==
  ASSUME TypeOK, NEW t, Fault \/ Lost(t) \/ UNCHANGED faults
  PROVE  faults' \in 0..MaxFaults
BY SessionAssumption DEF SessionAssumption, TypeOK, Fault, Lost

(* SetCookies leaves a jar; it never takes a cookie away.                  *)
LEMMA JarFilled ==
  ASSUME NEW c \in Cookies, jar \in Cookies, SetCookies(c)
  PROVE  /\ jar' \in Cookies
         /\ jar'.sess = IF c.sess # 0 THEN c.sess ELSE jar.sess
         /\ jar'.tok = IF c.tok # 0 THEN c.tok ELSE jar.tok
BY DEF Cookies, SetCookies

LEMMA TypeStep ==
  ASSUME TypeOK, [Next]_vars
  PROVE  TypeOK'
<1>0. /\ pc \in [Threads -> Places] /\ call \in [Threads -> Call]
      /\ jar \in Cookies /\ store \in Cookies /\ epoch \in Nat /\ Empty \in Cookies
      /\ Freshness \in BOOLEAN
  BY SessionAssumption DEF SessionAssumption, TypeOK, Cookies, Empty
<1>1. ASSUME NEW t \in Threads, EnsureSession(t)
      PROVE  TypeOK'
  <2>0. /\ call[t] \in Call /\ call[t].local \in Cookies
        /\ \A p \in Places : Go(t, p) => pc' \in [Threads -> Places]
        /\ Ensured(t) => pc' \in [Threads -> Places] /\ call' \in [Threads -> Call]
        /\ \A how \in Outcomes :
             Finish(t, how) => pc' \in [Threads -> Places] /\ call' \in [Threads -> Call]
    <3>1. call[t] \in Call /\ call[t].local \in Cookies
      BY <1>0, <1>1 DEF Call
    <3>2. \A p \in Places : Go(t, p) => pc' \in [Threads -> Places]
      BY <1>0, <1>1 DEF Go
    <3>3. \A how \in Outcomes :
            Finish(t, how) => pc' \in [Threads -> Places] /\ call' \in [Threads -> Call]
      BY <1>1, Finished
    <3>4. Ensured(t) => pc' \in [Threads -> Places] /\ call' \in [Threads -> Call]
      BY <1>0, <3>2, <3>3 DEF Ensured, Outcomes, Places
    <3> QED BY <3>1, <3>2, <3>3, <3>4
  <2>1. /\ pc' \in [Threads -> Places] /\ call' \in [Threads -> Call]
        /\ jar' \in Cookies
    <3>1. CASE SkipFresh(t)
      BY <1>0, <2>0, <3>1 DEF SkipFresh
    <3>2. CASE Load(t)
      BY <1>0, <2>0, <3>2, CallFields DEF Load, Places
    <3>3. CASE LoadFails(t)
      BY <1>0, <2>0, <3>3 DEF LoadFails, Outcomes
    <3>4. CASE Fill(t)
      BY <1>0, <2>0, <3>4, CallFields, JarFilled DEF Fill, Places
    <3>5. CASE SendProbe(t)
      BY <1>0, <2>0, <3>5, CallFields DEF SendProbe, Places
    <3>6. CASE ProbeAnswer(t)
      <4>1. ASSUME NEW w \in {"unknown", "confirmed"},
                   call' = [call EXCEPT ![t].sent = Empty, ![t].standing = w]
            PROVE  call' \in [Threads -> Call]
        <5>1. call' = [call EXCEPT ![t] = [call[t] EXCEPT !.sent = Empty, !.standing = w]]
          BY <1>0, <1>1, <4>1
        <5>2. [call[t] EXCEPT !.sent = Empty, !.standing = w] \in Call
          BY <1>0, <2>0, CallFields
        <5> QED BY <1>0, <5>1, <5>2
      <4> QED BY <1>0, <2>0, <3>6, <4>1 DEF ProbeAnswer, Outcomes, Places
    <3>7. CASE ProbeFails(t)
      BY <1>0, <2>0, <3>7 DEF ProbeFails, Places
    <3>8. CASE MarkFresh(t)
      BY <1>0, <2>0, <3>8 DEF MarkFresh
    <3> QED BY <1>1, <3>1, <3>2, <3>3, <3>4, <3>5, <3>6, <3>7, <3>8 DEF EnsureSession
  <2>2. /\ faults' \in 0..MaxFaults /\ fresh' \in BOOLEAN /\ (fresh' => Freshness)
        /\ UNCHANGED <<gate, store, stopped, server>>
    <3>1. (Fault \/ Lost(t) \/ UNCHANGED faults) /\ UNCHANGED <<gate, store, stopped, server>>
      BY <1>1 DEF EnsureSession, SkipFresh, Load, LoadFails, Fill, SendProbe,
         ProbeAnswer, ProbeFails, MarkFresh
    <3>2. fresh' = fresh \/ fresh' = Freshness
      BY <1>1 DEF EnsureSession, SkipFresh, Load, LoadFails, Fill, SendProbe,
         ProbeAnswer, ProbeFails, MarkFresh
    <3> QED BY <1>0, <3>1, <3>2, FaultType DEF TypeOK
  <2> QED BY <2>1, <2>2 DEF TypeOK, gate, server
<1>2. ASSUME NEW t \in Threads, Reauthenticate(t)
      PROVE  TypeOK'
  <2>0. /\ call[t] \in Call /\ call[t].local \in Cookies
        /\ \A p \in Places : Go(t, p) => pc' \in [Threads -> Places]
        /\ ReauthFails(t) =>
             /\ pc' \in [Threads -> Places] /\ call' \in [Threads -> Call]
             /\ reauthMu' \in {reauthMu, NoOne} /\ epoch' = epoch
        /\ ReauthReturns(t) =>
             /\ pc' \in [Threads -> Places]
             /\ reauthMu' \in {reauthMu, NoOne} /\ epoch' \in Nat
    <3>1. call[t] \in Call /\ call[t].local \in Cookies
      BY <1>0, <1>2 DEF Call
    <3>2. \A p \in Places : Go(t, p) => pc' \in [Threads -> Places]
      BY <1>0, <1>2 DEF Go
    <3>3. ReauthFails(t) =>
            /\ pc' \in [Threads -> Places] /\ call' \in [Threads -> Call]
            /\ reauthMu' \in {reauthMu, NoOne} /\ epoch' = epoch
      BY <1>2, Finished DEF ReauthFails, Outcomes
    <3>4. ReauthReturns(t) =>
            /\ pc' \in [Threads -> Places]
            /\ reauthMu' \in {reauthMu, NoOne} /\ epoch' \in Nat
      BY <1>0, <3>2 DEF ReauthReturns, Places, gate
    <3> QED BY <3>1, <3>2, <3>3, <3>4
  <2>1. ASSUME NEW b \in BOOLEAN, OpenSession(t, b)
        PROVE  /\ call' \in [Threads -> Call] /\ issued' \in Nat
               /\ live' \subseteq 1..issued' /\ valid' \subseteq 1..issued'
    <3> DEFINE c == [sess |-> issued + 1, tok |-> IF b THEN issued + 1 ELSE 0]
    <3>1. issued \in Nat /\ c \in Cookies
      BY DEF TypeOK, Cookies
    <3>2. call' = [call EXCEPT ![t] = [call[t] EXCEPT !.local = c, !.standing = "confirmed"]]
      BY <1>0, <2>1 DEF OpenSession
    <3> HIDE DEF c
    <3>3. call' \in [Threads -> Call]
      BY <1>0, <2>0, <3>1, <3>2, CallFields
    <3>4. live \subseteq 1..issued /\ valid \subseteq 1..issued
      BY DEF TypeOK
    <3> QED BY <2>1, <3>1, <3>3, <3>4 DEF OpenSession
  <2>2. /\ pc' \in [Threads -> Places] /\ call' \in [Threads -> Call]
        /\ jar' \in Cookies /\ store' \in Cookies
        /\ reauthMu' \in {reauthMu, NoOne} /\ epoch' \in Nat
        /\ live' \subseteq 1..issued' /\ valid' \subseteq 1..issued'
        /\ issued' \in Nat /\ block' = block
    <3>0. live \subseteq 1..issued /\ valid \subseteq 1..issued /\ issued \in Nat
      BY DEF TypeOK
    <3>1. CASE SendToken(t)
      BY <1>0, <2>0, <3>0, <3>1, CallFields DEF SendToken, Places, gate, server
    <3>2. CASE SkipToken(t)
      BY <1>0, <2>0, <3>0, <3>2 DEF SkipToken, Places, gate, server
    <3>3. CASE TokenAnswer(t)
      BY <1>0, <2>0, <2>1, <3>0, <3>3 DEF TokenAnswer, Places, gate
    <3>4. CASE TokenFails(t)
      BY <1>0, <2>0, <3>0, <3>4 DEF TokenFails, Places, gate, server
    <3>5. CASE SendLogin(t)
      BY <1>0, <2>0, <3>0, <3>5, CallFields DEF SendLogin, Places, gate, server
    <3>6. CASE LoginAnswer(t)
      BY <1>0, <2>0, <2>1, <3>0, <3>6 DEF LoginAnswer, Places, gate
    <3>7. CASE LoginFails(t)
      BY <1>0, <2>0, <3>0, <3>7 DEF LoginFails, server
    <3>8. CASE KeepCookies(t)
      BY <1>0, <2>0, <3>0, <3>8, JarFilled DEF KeepCookies, Places, gate, server
    <3>9. CASE SnapJar(t)
      BY <1>0, <2>0, <3>0, <3>9, CallFields DEF SnapJar, Places, gate, server
    <3>10. CASE Save(t)
      BY <1>0, <2>0, <3>0, <3>10 DEF Save, server
    <3>11. CASE SaveFails(t)
      BY <1>0, <2>0, <3>0, <3>11 DEF SaveFails, Places, gate, server
    <3> QED BY <1>2, <3>1, <3>2, <3>3, <3>4, <3>5, <3>6, <3>7, <3>8, <3>9, <3>10, <3>11
            DEF Reauthenticate
  <2>3. faults' \in 0..MaxFaults /\ UNCHANGED <<fresh, stopped>>
    <3>1. (Fault \/ Lost(t) \/ UNCHANGED faults) /\ UNCHANGED <<fresh, stopped>>
      BY <1>2 DEF Reauthenticate, SendToken, SkipToken, TokenAnswer, TokenFails, SendLogin,
         LoginAnswer, LoginFails, KeepCookies, SnapJar, Save, SaveFails
    <3> QED BY <3>1, FaultType
  <2> QED BY <2>2, <2>3 DEF TypeOK
<1>3. ASSUME NEW t \in Threads, Request(t)
      PROVE  TypeOK'
  <2>0. /\ call[t] \in Call
        /\ \A p \in Places : Go(t, p) => pc' \in [Threads -> Places]
        /\ \A how \in Outcomes :
             Finish(t, how) => pc' \in [Threads -> Places] /\ call' \in [Threads -> Call]
    BY <1>0, <1>3, Finished DEF Go
  <2>1. /\ pc' \in [Threads -> Places] /\ call' \in [Threads -> Call]
        /\ reauthMu' \in {reauthMu, t}
    <3>1. CASE SendRequest(t)
      BY <1>0, <2>0, <3>1, CallFields DEF SendRequest, Places, gate
    <3>2. CASE ResendRequest(t)
      BY <1>0, <2>0, <3>2, CallFields DEF ResendRequest, Places, gate
    <3>3. CASE RequestAnswer(t)
      BY <1>0, <2>0, <3>3 DEF RequestAnswer, Outcomes, gate
    <3>4. CASE RequestForbidden(t)
      BY <1>0, <2>0, <3>4, CallFields DEF RequestForbidden, Outcomes, Places, gate
    <3>5. CASE RequestFails(t)
      BY <1>0, <2>0, <3>5 DEF RequestFails, Outcomes, gate
    <3>6. CASE Lock(t)
      BY <1>0, <2>0, <3>6, CallFields DEF Lock, Places
    <3> QED BY <1>3, <3>1, <3>2, <3>3, <3>4, <3>5, <3>6 DEF Request
  <2>2. faults' \in 0..MaxFaults /\ UNCHANGED <<epoch, jar, store, fresh, stopped, server>>
    <3>1. /\ Fault \/ UNCHANGED faults
          /\ UNCHANGED <<epoch, jar, store, fresh, stopped, server>>
      BY <1>3 DEF Request, SendRequest, ResendRequest, RequestAnswer, RequestForbidden,
         RequestFails, Lock, gate
    <3> QED BY <3>1, FaultType
  <2> QED BY <1>3, <2>1, <2>2 DEF TypeOK, server
<1>4. ASSUME NEW t \in Threads, Logout(t)
      PROVE  TypeOK'
  <2>0. /\ call[t] \in Call
        /\ \A p \in Places : Go(t, p) => pc' \in [Threads -> Places]
        /\ \A how \in Outcomes :
             Finish(t, how) => pc' \in [Threads -> Places] /\ call' \in [Threads -> Call]
    BY <1>0, <1>4, Finished DEF Go
  <2>1. /\ pc' \in [Threads -> Places] /\ call' \in [Threads -> Call]
        /\ jar' \in Cookies /\ store' \in Cookies
        /\ live' \subseteq live /\ valid' \subseteq valid
    <3>1. CASE SendLogout(t)
      BY <1>0, <2>0, <3>1, CallFields DEF SendLogout, Places, server
    <3>2. CASE LogoutAnswer(t)
      BY <1>0, <2>0, <3>2, Spoiled DEF LogoutAnswer, Places
    <3>3. CASE LogoutFails(t)
      BY <1>0, <2>0, <3>3 DEF LogoutFails, Outcomes, server
    <3>4. CASE ClearJar(t)
      BY <1>0, <2>0, <3>4, Spoiled DEF ClearJar, Places, server
    <3>5. CASE EraseStore(t)
      BY <1>0, <2>0, <3>5 DEF EraseStore, Outcomes, server
    <3> QED BY <1>4, <3>1, <3>2, <3>3, <3>4, <3>5 DEF Logout
  <2>2. faults' \in 0..MaxFaults /\ UNCHANGED <<gate, fresh, stopped, issued, block>>
    <3>1. /\ Fault \/ UNCHANGED faults
          /\ UNCHANGED <<gate, fresh, stopped, issued, block>>
      BY <1>4 DEF Logout, SendLogout, LogoutAnswer, LogoutFails, ClearJar, EraseStore, server
    <3> QED BY <3>1, FaultType
  <2> QED BY <2>1, <2>2 DEF TypeOK, gate
<1>5. ASSUME NEW t \in Keepers, Tick(t) \/ KeepAliveExits(t)
      PROVE  TypeOK'
  <2>1. t \in Threads
    BY <1>5 DEF Threads
  <2>2. pc' \in [Threads -> Places]
    BY <1>0, <1>5, <2>1 DEF Tick, KeepAliveExits, Go, Places
  <2>3. UNCHANGED <<call, reauthMu, epoch, jar, store, fresh, stopped,
                    live, valid, issued, block, faults>>
    BY <1>5 DEF Tick, KeepAliveExits, gate, server
  <2> QED BY <2>2, <2>3 DEF TypeOK
<1>6. ASSUME NEW k \in live, Expire(k)
      PROVE  TypeOK'
  BY <1>6, Spoiled DEF Expire, TypeOK, gate
<1>7. CASE Stop \/ Lapse \/ Block \/ Unblock
  <2>1. /\ UNCHANGED <<pc, call, reauthMu, epoch, jar, store, live, valid, issued, faults>>
        /\ stopped' \in {stopped, TRUE} /\ (fresh' = fresh \/ fresh' = FALSE)
        /\ block' \in {block, "on", "over"}
    BY <1>7 DEF Stop, Lapse, Block, Unblock, gate, server
  <2>2. fresh' \in BOOLEAN /\ (fresh' => Freshness)
    <3>1. fresh \in BOOLEAN /\ (fresh => Freshness)
      BY DEF TypeOK
    <3>2. CASE fresh' = fresh
      BY <3>1, <3>2
    <3>3. CASE fresh' = FALSE
      BY <3>3
    <3> QED BY <2>1, <3>2, <3>3
  <2>3. stopped' \in BOOLEAN
    BY <2>1 DEF TypeOK
  <2> QED BY <2>1, <2>2, <2>3 DEF TypeOK
<1>8. CASE AllDone \/ UNCHANGED vars
  <2>1. UNCHANGED <<pc, call, reauthMu, epoch, jar, store, fresh, stopped,
                    live, valid, issued, block, faults>>
    BY <1>8 DEF AllDone, vars, gate, server
  <2> QED BY <2>1 DEF TypeOK
<1> QED BY <1>1, <1>2, <1>3, <1>4, <1>5, <1>6, <1>7, <1>8 DEF Next, Progress

-----------------------------------------------------------------------------
(* A step of t leaves the other goroutines where they are, and their local *)
(* state too, but for a session that ends.                                 *)
Untouched(u) ==
  /\ pc'[u] = pc[u]
  /\ call'[u].sent = call[u].sent /\ call'[u].local = call[u].local
  /\ call'[u].from = call[u].from /\ call'[u].epochAt = call[u].epochAt
  /\ call'[u].left = call[u].left /\ call'[u].reauthed = call[u].reauthed
  /\ call'[u].via = call[u].via
  /\ \/ call'[u].standing = call[u].standing
     \/ call[u].standing = "confirmed" /\ call'[u].standing = "ended"

LEMMA OthersStand ==
  ASSUME TypeOK, NEW t \in Threads, Progress(t), NEW u \in Threads \ {t}
  PROVE  Untouched(u)
<1>0. pc \in [Threads -> Places] /\ call \in [Threads -> Call]
  BY DEF TypeOK
<1>1. CASE \E how \in Outcomes : Finish(t, how)
  BY <1>1, Finished DEF Untouched
<1>2. ASSUME NEW p, Go(t, p) PROVE pc'[u] = pc[u]
  BY <1>0, <1>2 DEF Go
<1>3. CASE /\ \E p : Go(t, p)
           /\ Spoil
  BY <1>0, <1>2, <1>3, Spoiled DEF Untouched
<1>4. CASE /\ \E p : Go(t, p)
           /\ call'[u] = call[u]
  BY <1>2, <1>4 DEF Untouched
<1>5. CASE EnsureSession(t)
  <2>1. \/ \E how \in Outcomes : Finish(t, how)
        \/ (\E p : Go(t, p)) /\ call'[u] = call[u]
    BY <1>0, <1>5 DEF EnsureSession, SkipFresh, Load, LoadFails, Fill, SendProbe, ProbeAnswer,
       ProbeFails, MarkFresh, Ensured, Outcomes
  <2> QED BY <2>1, <1>1, <1>4
<1>6. CASE Reauthenticate(t)
  <2>1. \/ \E how \in Outcomes : Finish(t, how)
        \/ (\E p : Go(t, p)) /\ call'[u] = call[u]
    BY <1>0, <1>6 DEF Reauthenticate, SendToken, SkipToken, TokenAnswer, TokenFails,
       SendLogin, LoginAnswer, LoginFails, KeepCookies, SnapJar, Save, SaveFails,
       OpenSession, ReauthReturns, ReauthFails, Outcomes
  <2> QED BY <2>1, <1>1, <1>4
<1>7. CASE Request(t)
  <2>1. \/ \E how \in Outcomes : Finish(t, how)
        \/ (\E p : Go(t, p)) /\ call'[u] = call[u]
    BY <1>0, <1>7 DEF Request, SendRequest, ResendRequest, RequestAnswer, RequestForbidden,
       RequestFails, Lock, Outcomes
  <2> QED BY <2>1, <1>1, <1>4
<1>8. CASE Logout(t)
  <2>1. \/ \E how \in Outcomes : Finish(t, how)
        \/ (\E p : Go(t, p)) /\ Spoil
        \/ (\E p : Go(t, p)) /\ call'[u] = call[u]
    BY <1>0, <1>8 DEF Logout, SendLogout, LogoutAnswer, LogoutFails, ClearJar, EraseStore,
       Outcomes
  <2> QED BY <2>1, <1>1, <1>3, <1>4
<1> QED BY <1>5, <1>6, <1>7, <1>8 DEF Progress

(* The steps of no goroutine's own: the keepalive's ticker and stop        *)
(* function, time, the server.                                             *)
Environment ==
  \/ \E t \in Keepers : Tick(t) \/ KeepAliveExits(t)
  \/ \E k \in live : Expire(k)
  \/ Stop \/ Lapse \/ Block \/ Unblock
  \/ AllDone
  \/ UNCHANGED vars

(* They change nothing a goroutine holds but its standing, and move only   *)
(* keepers, out of "idle".                                                 *)
LEMMA EnvironmentStep ==
  ASSUME TypeOK, Environment
  PROVE  /\ UNCHANGED <<reauthMu, epoch, jar, store>>
         /\ live' = live \/ \A u \in Threads : call'[u].standing # "confirmed"
         /\ \A u \in Threads :
              /\ Untouched(u)
                 \/ /\ u \in Keepers /\ pc[u] = "idle" /\ pc'[u] \in {"ensure", "done"}
                    /\ call'[u] = call[u]
<1>0. pc \in [Threads -> Places] /\ call \in [Threads -> Call]
  BY DEF TypeOK
<1>1. CASE \E t \in Keepers : Tick(t) \/ KeepAliveExits(t)
  BY <1>0, <1>1 DEF Tick, KeepAliveExits, Go, gate, server, Threads, Untouched
<1>2. CASE \E k \in live : Expire(k)
  BY <1>0, <1>2, Spoiled DEF Expire, gate, Untouched
<1>3. CASE Stop \/ Lapse \/ Block \/ Unblock \/ AllDone \/ UNCHANGED vars
  <2>1. UNCHANGED <<pc, call, reauthMu, epoch, jar, store, live>>
    BY <1>3 DEF Stop, Lapse, Block, Unblock, AllDone, vars, gate, server
  <2> QED BY <2>1 DEF Untouched
<1> QED BY <1>1, <1>2, <1>3 DEF Environment

LEMMA Steps ==
  ASSUME [Next]_vars
  PROVE  Environment \/ \E t \in Threads : Progress(t)
BY DEF Next, Environment

-----------------------------------------------------------------------------
(* The parts of the inductive invariant.                                   *)

LEMMA RolesStep ==
  ASSUME TypeOK, Roles, [Next]_vars
  PROVE  Roles'
<1>0. /\ pc \in [Threads -> Places] /\ call \in [Threads -> Call]
      /\ Callers \cap Leavers = {} /\ Keepers \cap Leavers = {} /\ Leavers \subseteq Threads
  BY SessionAssumption DEF SessionAssumption, TypeOK, Threads
<1> DEFINE R(u) ==
             /\ pc'[u] \in {"out", "leaving", "clear", "erase"} => u \in Leavers
             /\ u \in Leavers => /\ pc'[u] \in {"out", "leaving", "clear", "erase", "done"}
                                 /\ call'[u].left = 0
<1>1. ASSUME NEW u \in Threads, Untouched(u)
      PROVE  R(u)
  BY <1>1 DEF Untouched, Roles
<1>2. ASSUME NEW t \in Threads, Progress(t)
      PROVE  R(t)
  <2>1. CASE \E how \in Outcomes : Finish(t, how)
    BY <2>1, <1>0, <1>2, Finished DEF Roles
  <2>2. CASE t \notin Leavers
    <3>1. ASSUME NEW p \in Places \ {"out", "leaving", "clear", "erase"}, Go(t, p)
          PROVE  R(t)
      BY <1>0, <1>2, <2>2, <3>1 DEF Go
    <3>2. CASE EnsureSession(t)
      BY <1>0, <2>1, <2>2, <3>1, <3>2 DEF EnsureSession, SkipFresh, Load, LoadFails, Fill,
         SendProbe, ProbeAnswer, ProbeFails, MarkFresh, Ensured, Outcomes, Places
    <3>3. CASE Reauthenticate(t)
      BY <1>0, <2>1, <2>2, <3>1, <3>3 DEF Reauthenticate, SendToken, SkipToken, TokenAnswer,
         TokenFails, SendLogin, LoginAnswer, LoginFails, KeepCookies, SnapJar, Save,
         SaveFails, ReauthReturns, ReauthFails, Outcomes, Places
    <3>4. CASE Request(t)
      BY <1>0, <2>1, <2>2, <3>1, <3>4 DEF Request, SendRequest, ResendRequest,
         RequestAnswer, RequestForbidden, RequestFails, Lock, Outcomes, Places
    <3>5. ~Logout(t)
      BY <2>2 DEF Roles, Logout, SendLogout, LogoutAnswer, LogoutFails, ClearJar, EraseStore
    <3> QED BY <1>2, <3>2, <3>3, <3>4, <3>5 DEF Progress
  <2>3. CASE t \in Leavers
    <3>1. pc[t] \in {"out", "leaving", "clear", "erase", "done"} /\ call[t].left = 0
      BY <2>3 DEF Roles
    <3>2. Logout(t)
      BY <1>2, <3>1 DEF Progress, EnsureSession, SkipFresh, Load, LoadFails, Fill, SendProbe,
         ProbeAnswer, ProbeFails, MarkFresh, Reauthenticate, SendToken, SkipToken,
         TokenAnswer, TokenFails, SendLogin, LoginAnswer, LoginFails, KeepCookies, SnapJar,
         Save, SaveFails, Request, SendRequest, ResendRequest, RequestAnswer,
         RequestForbidden, RequestFails, Lock
    <3>3. \A p : Go(t, p) => pc'[t] = p
      BY <1>0, <1>2 DEF Go
    <3>4. CASE SendLogout(t)
      BY <1>0, <2>3, <3>1, <3>3, <3>4 DEF SendLogout
    <3>5. CASE LogoutAnswer(t)
      BY <1>0, <2>3, <3>1, <3>3, <3>5, Spoiled DEF LogoutAnswer
    <3>6. CASE LogoutFails(t)
      BY <2>1, <3>6 DEF LogoutFails, Outcomes
    <3>7. CASE ClearJar(t)
      BY <1>0, <2>3, <3>1, <3>3, <3>7, Spoiled DEF ClearJar
    <3>8. CASE EraseStore(t)
      BY <2>1, <3>8 DEF EraseStore, Outcomes
    <3> QED BY <3>2, <3>4, <3>5, <3>6, <3>7, <3>8 DEF Logout
  <2> QED BY <2>2, <2>3
<1>3. CASE Environment
  <2>1. ASSUME NEW u \in Threads PROVE R(u)
    BY <1>0, <1>1, <1>3, <2>1, EnvironmentStep
  <2> QED BY <1>0, <2>1 DEF Roles
<1>4. CASE \E t \in Threads : Progress(t)
  <2>1. PICK t \in Threads : Progress(t)
    BY <1>4
  <2>2. \A u \in Threads : R(u)
    BY <1>1, <1>2, <2>1, OthersStand
  <2> QED BY <1>0, <2>2 DEF Roles
<1> QED BY <1>3, <1>4, Steps

(* The own step of t; what it does to the mutex shows in Held.             *)
LEMMA MutexStep ==
  ASSUME TypeOK, Roles, Mutex, [Next]_vars
  PROVE  Mutex'
<1>0. /\ pc \in [Threads -> Places] /\ call \in [Threads -> Call]
      /\ NoOne \notin Threads /\ Callers \cap Leavers = {}
  BY SessionAssumption DEF SessionAssumption, TypeOK
<1> DEFINE M(u) ==
             /\ reauthMu' = u =>
                  pc'[u] \in Refresh /\ call'[u].from = "gate" /\ call'[u].epochAt = epoch'
             /\ pc'[u] \in Refresh /\ call'[u].from = "gate" => reauthMu' = u
             /\ pc'[u] \in {"ensure", "fill", "probe", "probing", "mark", "idle"} =>
                  call'[u].from = "ensure"
           Held(t) ==
             /\ M(t)
             /\ \A u \in Threads \ {t} :
                  /\ reauthMu = u <=> reauthMu' = u
                  /\ reauthMu = u => epoch' = epoch
<1>1. ASSUME NEW t \in Threads, Progress(t)
      PROVE  Held(t)
  <2>0. \A p : Go(t, p) => pc'[t] = p
    BY <1>0, <1>1 DEF Go
  <2>1. CASE /\ \E how \in Outcomes : Finish(t, how)
             /\ UNCHANGED gate
             /\ pc[t] \in Refresh => call[t].from = "ensure"
    <3>1. reauthMu # t
      BY <2>1 DEF Mutex
    <3> QED BY <1>0, <1>1, <2>1, <3>1, Finished DEF gate, Refresh
  <2>2. CASE EnsureSession(t)
    <3>1. CASE SkipFresh(t)
      BY <1>0, <2>0, <2>1, <3>1 DEF SkipFresh, Ensured, Mutex, Refresh, gate, Outcomes
    <3>2. CASE Load(t)
      BY <1>0, <2>0, <3>2 DEF Load, Mutex, Refresh, gate
    <3>3. CASE LoadFails(t)
      BY <2>1, <3>3 DEF LoadFails, Outcomes, Refresh
    <3>4. CASE Fill(t)
      BY <1>0, <2>0, <3>4 DEF Fill, Mutex, Refresh, gate
    <3>5. CASE SendProbe(t)
      BY <1>0, <2>0, <3>5 DEF SendProbe, Mutex, Refresh, gate
    <3>6. CASE ProbeAnswer(t)
      <4>1. \/ \E how \in Outcomes : Finish(t, how)
            \/ /\ pc'[t] \in {"mark", "reauth"}
               /\ call'[t].from = call[t].from
        BY <1>0, <1>1, <2>0, <3>6 DEF ProbeAnswer, Outcomes, Call
      <4>2. pc[t] = "probing" /\ UNCHANGED gate
        BY <3>6 DEF ProbeAnswer
      <4> QED BY <1>1, <2>1, <4>1, <4>2 DEF Mutex, Refresh, gate
    <3>7. CASE ProbeFails(t)
      BY <1>0, <2>0, <3>7 DEF ProbeFails, Mutex, Refresh, gate
    <3>8. CASE MarkFresh(t)
      BY <1>0, <2>0, <2>1, <3>8 DEF MarkFresh, Ensured, Mutex, Refresh, gate, Outcomes
    <3> QED BY <2>2, <3>1, <3>2, <3>3, <3>4, <3>5, <3>6, <3>7, <3>8 DEF EnsureSession
  <2>3. CASE Reauthenticate(t)
    <3>0. pc[t] \in Refresh
      BY <2>3 DEF Reauthenticate, SendToken, SkipToken, TokenAnswer, TokenFails, SendLogin,
         LoginAnswer, LoginFails, KeepCookies, SnapJar, Save, SaveFails, Refresh
    <3>1. CASE /\ UNCHANGED gate
               /\ pc'[t] \in Refresh
               /\ call'[t].from = call[t].from /\ call'[t].epochAt = call[t].epochAt
      BY <3>0, <3>1 DEF Mutex, Refresh, gate
    <3>2. CASE ReauthFails(t)
      <4>1. PICK how \in Outcomes : Finish(t, how)
        BY <3>2 DEF ReauthFails, Outcomes
      <4>2. call[t].from \in {"ensure", "gate"}
        BY <1>0, <1>1 DEF Call
      <4>3. CASE call[t].from = "ensure"
        BY <2>1, <3>2, <4>1, <4>3 DEF ReauthFails, gate
      <4>4. CASE call[t].from = "gate"
        <5>1. reauthMu = t
          BY <1>1, <3>0, <4>4 DEF Mutex
        <5>2. reauthMu' = NoOne /\ epoch' = epoch
          BY <3>2, <4>4 DEF ReauthFails
        <5> QED BY <1>0, <1>1, <4>1, <5>1, <5>2, Finished DEF Refresh
      <4> QED BY <4>2, <4>3, <4>4
    <3>3. CASE Save(t)
      <4>1. CASE call[t].from = "ensure"
        BY <1>0, <2>0, <3>3, <4>1 DEF Save, ReauthReturns, Mutex, Refresh, gate
      <4>2. CASE call[t].from # "ensure"
        <5>1. call[t].from = "gate"
          BY <1>0, <1>1, <4>2 DEF Call
        <5>2. reauthMu = t
          BY <1>1, <3>0, <5>1 DEF Mutex
        <5>3. reauthMu' = NoOne /\ pc'[t] = "again"
          BY <2>0, <3>3, <4>2 DEF Save, ReauthReturns
        <5> QED BY <1>0, <1>1, <5>2, <5>3 DEF Refresh
      <4> QED BY <4>1, <4>2
    <3>4. CASE SendToken(t) \/ SkipToken(t) \/ TokenFails(t) \/ SendLogin(t)
      <4>1. /\ UNCHANGED gate
            /\ pc'[t] \in Refresh
        BY <2>0, <3>4 DEF SendToken, SkipToken, TokenFails, SendLogin, Refresh
      <4>2. call'[t].from = call[t].from /\ call'[t].epochAt = call[t].epochAt
        BY <1>0, <1>1, <3>4 DEF SendToken, SkipToken, TokenFails, SendLogin, Call
      <4> QED BY <3>1, <4>1, <4>2
    <3>5. CASE TokenAnswer(t) \/ LoginAnswer(t)
      <4>1. /\ UNCHANGED gate
            /\ pc'[t] \in Refresh
        BY <2>0, <3>5 DEF TokenAnswer, LoginAnswer, Refresh
      <4>2. call'[t].from = call[t].from /\ call'[t].epochAt = call[t].epochAt
        BY <1>0, <1>1, <3>5 DEF TokenAnswer, LoginAnswer, OpenSession, Call
      <4> QED BY <3>1, <4>1, <4>2
    <3>6. CASE KeepCookies(t) \/ SnapJar(t)
      <4>1. /\ UNCHANGED gate
            /\ pc'[t] \in Refresh
        BY <2>0, <3>6 DEF KeepCookies, SnapJar, Refresh
      <4>2. call'[t].from = call[t].from /\ call'[t].epochAt = call[t].epochAt
        BY <1>0, <1>1, <3>6 DEF KeepCookies, SnapJar, Call
      <4> QED BY <3>1, <4>1, <4>2
    <3>7. CASE LoginFails(t)
      BY <3>2, <3>7 DEF LoginFails
    <3>8. CASE SaveFails(t)
      BY <2>0, <3>1, <3>2, <3>8 DEF SaveFails, Refresh
    <3> QED BY <2>3, <3>3, <3>4, <3>5, <3>6, <3>7, <3>8 DEF Reauthenticate
  <2>4. CASE Request(t)
    <3>1. CASE SendRequest(t) \/ ResendRequest(t)
      BY <1>0, <2>0, <3>1 DEF SendRequest, ResendRequest, Mutex, Refresh, gate
    <3>2. CASE RequestAnswer(t) \/ RequestFails(t)
      BY <2>1, <3>2 DEF RequestAnswer, RequestFails, Outcomes, Refresh
    <3>3. CASE RequestForbidden(t)
      BY <1>0, <2>0, <2>1, <3>3 DEF RequestForbidden, Mutex, Refresh, gate, Outcomes
    <3>4. CASE Lock(t)
      <4>1. pc[t] = "lock" /\ reauthMu = NoOne /\ epoch' = epoch
        BY <3>4 DEF Lock
      <4>2. CASE /\ epoch = call[t].epochAt /\ reauthMu' = t /\ pc'[t] = "reauth"
                 /\ call'[t].from = "gate" /\ call'[t].epochAt = call[t].epochAt
        BY <1>0, <1>1, <4>1, <4>2 DEF Mutex, Refresh
      <4>3. CASE pc'[t] = "again" /\ reauthMu' = NoOne
        BY <1>0, <1>1, <4>1, <4>3 DEF Mutex, Refresh
      <4> QED BY <1>0, <1>1, <2>0, <3>4, <4>1, <4>2, <4>3 DEF Lock, Call
    <3> QED BY <2>4, <3>1, <3>2, <3>3, <3>4 DEF Request
  <2>5. CASE Logout(t)
    <3>1. CASE SendLogout(t)
      BY <1>0, <2>0, <3>1 DEF SendLogout, Mutex, Refresh, gate
    <3>2. CASE LogoutAnswer(t)
      BY <1>0, <2>0, <3>2, Spoiled DEF LogoutAnswer, Mutex, Refresh, gate
    <3>3. CASE LogoutFails(t)
      BY <2>1, <3>3 DEF LogoutFails, Outcomes, Refresh
    <3>4. CASE ClearJar(t)
      BY <1>0, <2>0, <3>4, Spoiled DEF ClearJar, Mutex, Refresh, gate
    <3>5. CASE EraseStore(t)
      BY <2>1, <3>5 DEF EraseStore, Outcomes, Refresh
    <3> QED BY <2>5, <3>1, <3>2, <3>3, <3>4, <3>5 DEF Logout
  <2> QED BY <1>1, <2>2, <2>3, <2>4, <2>5 DEF Progress
<1>2. CASE Environment
  <2>1. ASSUME NEW u \in Threads PROVE M(u)
    <3>1. UNCHANGED <<reauthMu, epoch>>
      BY <1>2, EnvironmentStep
    <3>2. CASE Untouched(u)
      BY <2>1, <3>1, <3>2 DEF Untouched, Mutex
    <3>3. CASE /\ pc[u] = "idle" /\ pc'[u] \in {"ensure", "done"}
               /\ call'[u] = call[u]
      BY <2>1, <3>1, <3>3 DEF Mutex, Refresh
    <3> QED BY <1>2, <2>1, <3>2, <3>3, EnvironmentStep
  <2> QED BY <2>1 DEF Mutex
<1>3. CASE \E t \in Threads : Progress(t)
  <2>1. PICK t \in Threads : Progress(t)
    BY <1>3
  <2>2. Held(t)
    BY <1>1, <2>1
  <2>3. ASSUME NEW u \in Threads \ {t} PROVE M(u)
    <3>1. Untouched(u)
      BY <2>1, <2>3, OthersStand
    <3> QED BY <2>2, <2>3, <3>1 DEF Untouched, Mutex
  <2> QED BY <2>2, <2>3 DEF Mutex
<1> QED BY <1>2, <1>3, Steps

LEMMA WindowStep ==
  ASSUME TypeOK, Window, [Next]_vars
  PROVE  Window'
<1>0. pc \in [Threads -> Places] /\ call \in [Threads -> Call]
  BY DEF TypeOK
<1> DEFINE W(u) == pc'[u] \in {"keep", "snap", "save", "mark"} =>
                     call'[u].standing \in {"confirmed", "ended"}
<1>1. ASSUME NEW t \in Threads, Progress(t)
      PROVE  W(t)
  <2>0. \A p : Go(t, p) => pc'[t] = p
    BY <1>0, <1>1 DEF Go
  <2>1. CASE \E how \in Outcomes : Finish(t, how)
    BY <1>1, <2>1, Finished
  <2>2. CASE \E p \in Places \ {"keep", "snap", "save", "mark"} : Go(t, p)
    BY <2>0, <2>2
  <2>3. CASE EnsureSession(t)
    <3>1. CASE ProbeAnswer(t)
      <4>1. CASE pc'[t] = "mark" /\ call'[t].standing = "confirmed"
        BY <4>1
      <4> QED BY <1>0, <1>1, <2>0, <2>1, <2>2, <3>1, <4>1
              DEF ProbeAnswer, Outcomes, Places, Call
    <3>2. CASE EnsureSession(t) /\ ~ProbeAnswer(t)
      BY <2>1, <2>2, <3>2 DEF EnsureSession, SkipFresh, Load, LoadFails, Fill, SendProbe,
         ProbeFails, MarkFresh, Ensured, Outcomes, Places
    <3> QED BY <2>3, <3>1, <3>2
  <2>4. CASE Reauthenticate(t)
    <3>1. CASE TokenAnswer(t) \/ LoginAnswer(t)
      <4>1. ASSUME NEW b \in BOOLEAN, OpenSession(t, b)
            PROVE  call'[t].standing = "confirmed"
        BY <1>0, <1>1, <4>1 DEF OpenSession
      <4> QED BY <2>0, <3>1, <4>1 DEF TokenAnswer, LoginAnswer
    <3>2. CASE KeepCookies(t) \/ SnapJar(t) \/ Save(t)
      <4>1. pc[t] \in {"keep", "snap", "save"}
        BY <3>2 DEF KeepCookies, SnapJar, Save
      <4>2. call'[t].standing = call[t].standing
        BY <1>0, <1>1, <3>2 DEF KeepCookies, SnapJar, Save, Call
      <4> QED BY <1>1, <4>1, <4>2 DEF Window
    <3>3. CASE SendToken(t) \/ SkipToken(t) \/ TokenFails(t) \/ SendLogin(t)
               \/ LoginFails(t) \/ SaveFails(t)
      BY <2>1, <2>2, <3>3 DEF SendToken, SkipToken, TokenFails, SendLogin, LoginFails,
         SaveFails, ReauthFails, Outcomes, Places
    <3> QED BY <2>4, <3>1, <3>2, <3>3 DEF Reauthenticate
  <2>5. CASE Request(t)
    BY <2>1, <2>2, <2>5 DEF Request, SendRequest, ResendRequest, RequestAnswer,
       RequestForbidden, RequestFails, Lock, Outcomes, Places
  <2>6. CASE Logout(t)
    BY <2>1, <2>2, <2>6 DEF Logout, SendLogout, LogoutAnswer, LogoutFails, ClearJar,
       EraseStore, Outcomes, Places
  <2> QED BY <1>1, <2>3, <2>4, <2>5, <2>6 DEF Progress
<1>2. ASSUME NEW u \in Threads, Untouched(u)
      PROVE  W(u)
  BY <1>2 DEF Untouched, Window
<1>3. CASE Environment
  BY <1>2, <1>3, EnvironmentStep DEF Window
<1>4. CASE \E t \in Threads : Progress(t)
  BY <1>1, <1>2, <1>4, OthersStand DEF Window
<1> QED BY <1>3, <1>4, Steps

(* A logout that cleared the jar stays behind that.                        *)
LEMMA ClearedForGood ==
  ASSUME TypeOK, Roles, [Next]_vars, NotCleared'
  PROVE  NotCleared
<1>0. Leavers \subseteq Threads /\ Keepers \cap Leavers = {}
  BY SessionAssumption DEF SessionAssumption, Threads
<1>1. ASSUME NEW l \in Leavers, pc[l] \in {"erase", "done"}
      PROVE  pc'[l] \in {"erase", "done"}
  <2>1. CASE Environment
    BY <1>0, <1>1, <2>1, EnvironmentStep DEF Untouched
  <2>2. ASSUME NEW t \in Threads \ {l}, Progress(t)
        PROVE  pc'[l] \in {"erase", "done"}
    BY <1>0, <1>1, <2>2, OthersStand DEF Untouched
  <2>3. CASE Progress(l)
    <3>1. EraseStore(l)
      BY <1>1, <2>3 DEF Progress, EnsureSession, SkipFresh, Load, LoadFails, Fill, SendProbe,
         ProbeAnswer, ProbeFails, MarkFresh, Reauthenticate, SendToken, SkipToken,
         TokenAnswer, TokenFails, SendLogin, LoginAnswer, LoginFails, KeepCookies, SnapJar,
         Save, SaveFails, Request, SendRequest, ResendRequest, RequestAnswer,
         RequestForbidden, RequestFails, Lock, Logout, SendLogout, LogoutAnswer,
         LogoutFails, ClearJar
    <3>2. \E how \in Outcomes : Finish(l, how)
      BY <3>1 DEF EraseStore, Outcomes
    <3> QED BY <1>0, <1>1, <3>2, Finished DEF Roles
  <2> QED BY <2>1, <2>2, <2>3, Steps
<1> QED BY <1>1 DEF NotCleared

(* Until then only Fill and KeepCookies change the jar, and they only add  *)
(* to it; only Save changes the store.                                     *)
LEMMA JarAndStore ==
  ASSUME TypeOK, Roles, [Next]_vars, NotCleared'
  PROVE  /\ jar.tok # 0 => jar'.tok # 0
         /\ \/ jar'.sess = jar.sess
            \/ \E t \in Threads : Fill(t) \/ KeepCookies(t)
         /\ store' = store \/ \E t \in Threads : Save(t)
<1>0. /\ pc \in [Threads -> Places] /\ call \in [Threads -> Call]
      /\ jar \in Cookies
  BY DEF TypeOK
<1>1. CASE Environment
  BY <1>1, EnvironmentStep
<1>2. ASSUME NEW t \in Threads, Progress(t)
      PROVE  /\ jar.tok # 0 => jar'.tok # 0
             /\ jar'.sess = jar.sess \/ Fill(t) \/ KeepCookies(t)
             /\ store' = store \/ Save(t)
  <2>1. CASE Fill(t) \/ KeepCookies(t)
    <3>1. SetCookies(call[t].local) /\ store' = store
      BY <2>1 DEF Fill, KeepCookies
    <3>2. call[t].local \in Cookies
      BY <1>0, <1>2 DEF Call
    <3> QED BY <1>0, <2>1, <3>1, <3>2, JarFilled
  <2>2. CASE EnsureSession(t) /\ ~Fill(t)
    BY <2>2 DEF EnsureSession, SkipFresh, Load, LoadFails, SendProbe, ProbeAnswer,
       ProbeFails, MarkFresh
  <2>3. CASE Reauthenticate(t) /\ ~KeepCookies(t)
    BY <2>3 DEF Reauthenticate, SendToken, SkipToken, TokenAnswer, TokenFails, SendLogin,
       LoginAnswer, LoginFails, SnapJar, Save, SaveFails
  <2>4. CASE Request(t)
    BY <2>4 DEF Request, SendRequest, ResendRequest, RequestAnswer, RequestForbidden,
       RequestFails, Lock
  <2>5. CASE Logout(t)
    <3>1. ~ClearJar(t)
      <4>1. ASSUME ClearJar(t) PROVE FALSE
        <5>1. t \in Leavers /\ pc'[t] = "erase"
          BY <1>0, <1>2, <4>1 DEF ClearJar, Go, Roles
        <5> QED BY <5>1 DEF NotCleared
      <4> QED BY <4>1
    <3>2. ~EraseStore(t)
      <4>1. ASSUME EraseStore(t) PROVE FALSE
        <5>1. t \in Leavers /\ pc[t] = "erase"
          BY <1>2, <4>1 DEF EraseStore, Roles
        <5> QED BY <5>1, ClearedForGood DEF NotCleared
      <4> QED BY <4>1
    <3> QED BY <2>5, <3>1, <3>2 DEF Logout, SendLogout, LogoutAnswer, LogoutFails
  <2> QED BY <1>2, <2>1, <2>2, <2>3, <2>4, <2>5 DEF Progress
<1> QED BY <1>1, <1>2, Steps

LEMMA TokenStep ==
  ASSUME TypeOK, Roles, Token, [Next]_vars
  PROVE  Token'
<1> SUFFICES ASSUME NotCleared'
             PROVE  /\ store'.tok # 0 => jar'.tok # 0
                    /\ \A t \in Threads :
                         /\ pc'[t] \in {"tokening", "snap", "save"} => jar'.tok # 0
                         /\ pc'[t] = "keep" => jar'.tok # 0 \/ call'[t].local.tok # 0
                         /\ pc'[t] = "save" => call'[t].local.tok # 0
  BY DEF Token
<1>0. /\ pc \in [Threads -> Places] /\ call \in [Threads -> Call]
      /\ jar \in Cookies /\ issued \in Nat
  BY DEF TypeOK
<1>1. /\ store.tok # 0 => jar.tok # 0
      /\ \A t \in Threads :
           /\ pc[t] \in {"tokening", "snap", "save"} => jar.tok # 0
           /\ pc[t] = "keep" => jar.tok # 0 \/ call[t].local.tok # 0
           /\ pc[t] = "save" => call[t].local.tok # 0
  BY ClearedForGood DEF Token
<1>2. jar.tok # 0 => jar'.tok # 0
  BY JarAndStore
<1>3. store'.tok # 0 => jar'.tok # 0
  <2>1. CASE store' = store
    BY <1>1, <1>2, <2>1
  <2>2. ASSUME NEW t \in Threads, Save(t) PROVE jar'.tok # 0
    BY <1>1, <1>2, <2>2 DEF Save
  <2> QED BY <2>1, <2>2, JarAndStore
<1> DEFINE T(u) == /\ pc'[u] \in {"tokening", "snap", "save"} => jar'.tok # 0
                   /\ pc'[u] = "keep" => jar'.tok # 0 \/ call'[u].local.tok # 0
                   /\ pc'[u] = "save" => call'[u].local.tok # 0
<1>4. ASSUME NEW u \in Threads, Untouched(u)
      PROVE  T(u)
  BY <1>1, <1>2, <1>4 DEF Untouched
<1>5. ASSUME NEW t \in Threads, Progress(t)
      PROVE  T(t)
  <2>0. \A p : Go(t, p) => pc'[t] = p
    BY <1>0, <1>5 DEF Go
  <2>1. CASE \E how \in Outcomes : Finish(t, how)
    BY <1>5, <2>1, Finished
  <2>2. CASE \E p \in Places \ {"tokening", "snap", "save", "keep"} : Go(t, p)
    BY <2>0, <2>2
  <2>3. CASE EnsureSession(t)
    BY <2>1, <2>2, <2>3 DEF EnsureSession, SkipFresh, Load, LoadFails, Fill, SendProbe,
       ProbeAnswer, ProbeFails, MarkFresh, Ensured, Outcomes, Places
  <2>4. CASE Reauthenticate(t)
    <3>1. CASE SendToken(t)
      BY <1>2, <2>0, <3>1 DEF SendToken
    <3>2. CASE TokenAnswer(t)
      <4>1. pc[t] = "tokening" /\ pc'[t] \in {"keep", "login"}
        BY <2>0, <3>2 DEF TokenAnswer
      <4> QED BY <1>1, <1>2, <1>5, <4>1
    <3>3. CASE LoginAnswer(t)
      <4>1. pc'[t] = "keep" /\ OpenSession(t, TRUE)
        BY <2>0, <3>3 DEF LoginAnswer
      <4>2. call'[t].local.tok = issued + 1
        BY <1>0, <1>5, <4>1 DEF OpenSession, Call
      <4> QED BY <1>0, <4>1, <4>2
    <3>4. CASE KeepCookies(t)
      <4>1. pc[t] = "keep" /\ SetCookies(call[t].local) /\ pc'[t] = "snap"
        BY <2>0, <3>4 DEF KeepCookies
      <4>2. call[t].local \in Cookies
        BY <1>0, <1>5 DEF Call
      <4>3. jar'.tok = IF call[t].local.tok # 0 THEN call[t].local.tok ELSE jar.tok
        BY <1>0, <4>1, <4>2, JarFilled
      <4> QED BY <1>1, <1>5, <4>1, <4>3
    <3>5. CASE SnapJar(t)
      <4>1. pc[t] = "snap" /\ pc'[t] = "save" /\ jar' = jar
        BY <2>0, <3>5 DEF SnapJar
      <4>2. call'[t].local = jar
        BY <1>0, <1>5, <3>5 DEF SnapJar, Call
      <4> QED BY <1>1, <1>5, <4>1, <4>2
    <3>6. CASE SkipToken(t) \/ TokenFails(t) \/ SendLogin(t) \/ LoginFails(t)
               \/ Save(t) \/ SaveFails(t)
      BY <2>1, <2>2, <3>6 DEF SkipToken, TokenFails, SendLogin, LoginFails, Save,
         SaveFails, ReauthFails, ReauthReturns, Outcomes, Places
    <3> QED BY <2>4, <3>1, <3>2, <3>3, <3>4, <3>5, <3>6 DEF Reauthenticate
  <2>5. CASE Request(t)
    BY <2>1, <2>2, <2>5 DEF Request, SendRequest, ResendRequest, RequestAnswer,
       RequestForbidden, RequestFails, Lock, Outcomes, Places
  <2>6. CASE Logout(t)
    BY <2>1, <2>2, <2>6 DEF Logout, SendLogout, LogoutAnswer, LogoutFails, ClearJar,
       EraseStore, Outcomes, Places
  <2> QED BY <1>5, <2>3, <2>4, <2>5, <2>6 DEF Progress
<1>6. \A u \in Threads : T(u)
  <2>1. CASE Environment
    BY <1>4, <2>1, EnvironmentStep
  <2>2. CASE \E t \in Threads : Progress(t)
    BY <1>4, <1>5, <2>2, OthersStand
  <2> QED BY <2>1, <2>2, Steps
<1> QED BY <1>3, <1>6

-----------------------------------------------------------------------------
(* The theorems.                                                           *)

LEMMA InitInvariant == Init => IInv
<1> SUFFICES ASSUME Init PROVE IInv
  OBVIOUS
<1>1. TypeOK
  BY TypeInit
<1>2. /\ Callers \cap Leavers = {} /\ Keepers \cap Leavers = {}
      /\ Callers \cap Keepers = {} /\ NoOne \notin Threads
      /\ Threads = Callers \cup Keepers \cup Leavers
  BY SessionAssumption DEF SessionAssumption, Threads
<1>3. \A t \in Threads :
        /\ pc[t] = Entry(t) /\ pc[t] \in {"ensure", "idle", "out"}
        /\ call[t].from = "ensure"
        /\ t \notin Callers => call[t].left = 0
  BY <1>2 DEF Init, Entry, NoCall
<1>4. Roles
  BY <1>2, <1>3 DEF Roles, Entry
<1>5. Mutex
  BY <1>2, <1>3 DEF Init, Mutex, Refresh
<1>6. Window
  BY <1>3 DEF Window
<1>7. Token
  BY <1>3 DEF Init, Token
<1> QED BY <1>1, <1>4, <1>5, <1>6, <1>7 DEF IInv

LEMMA StepInvariant == IInv /\ [Next]_vars => IInv'
<1> SUFFICES ASSUME IInv, [Next]_vars PROVE IInv'
  OBVIOUS
<1>1. TypeOK /\ Roles /\ Mutex /\ Window /\ Token
  BY DEF IInv
<1> QED BY <1>1, TypeStep, RolesStep, MutexStep, WindowStep, TokenStep DEF IInv

THEOREM Invariant == Spec => []IInv
BY InitInvariant, StepInvariant, PTL DEF Spec

(* Every variable has its type, the sessions the server accepts are among  *)
(* those it issued (the records and places of auth.go, transport.go and    *)
(* keepalive.go).                                                          *)
THEOREM TypeCorrect == Spec => []TypeOK
<1>1. IInv => TypeOK
  BY DEF IInv
<1> QED BY <1>1, Invariant, PTL

(* auth.go markFresh: whatever goroutines interleave, the freshness window *)
(* is only opened by an operation to which the server confirmed a session. *)
THEOREM WindowIsEarned == Spec => []WindowNeedsConfirmation
<1>1. IInv => WindowNeedsConfirmation
  BY DEF IInv, Window, WindowNeedsConfirmation
<1> QED BY <1>1, Invariant, PTL

(* transport.go, the 403 branch: reauthMu is held just while its owner is  *)
(* inside the reauthenticate of its own 403, and no other 403's refresh    *)
(* has succeeded since its refused attempt began.                          *)
THEOREM MutexIsHeldByRefresher == Spec => []MutexHeldByRefresher
<1>1. IInv => MutexHeldByRefresher
  BY DEF IInv, Mutex, MutexHeldByRefresher
<1> QED BY <1>1, Invariant, PTL

(* auth.go persistSession: no step takes the rememberMe token from the     *)
(* store, except after a logout that cleared the jar.                      *)
THEOREM TokenIsKept == Spec => TokenStaysStored
<1>1. IInv /\ [Next]_vars =>
        [store.tok # 0 /\ store'.tok = 0 =>
           \E t \in Leavers : pc[t] \in {"erase", "done"}]_vars
  <2> SUFFICES ASSUME IInv, [Next]_vars, store.tok # 0, store'.tok = 0, NotCleared
               PROVE  FALSE
    BY DEF NotCleared
  <2>1. TypeOK /\ Roles /\ Token
    BY DEF IInv
  <2>2. CASE Environment
    BY <2>1, <2>2, EnvironmentStep
  <2>3. ASSUME NEW t \in Threads, Progress(t)
        PROVE  store' = store \/ (store' = call[t].local /\ pc[t] = "save")
    <3>1. ~EraseStore(t)
      BY <2>1, <2>3 DEF EraseStore, Roles, NotCleared
    <3> QED BY <2>3, <3>1 DEF Progress, EnsureSession, SkipFresh, Load, LoadFails, Fill,
        SendProbe, ProbeAnswer, ProbeFails, MarkFresh, Reauthenticate, SendToken, SkipToken,
        TokenAnswer, TokenFails, SendLogin, LoginAnswer, LoginFails, KeepCookies, SnapJar,
        Save, SaveFails, Request, SendRequest, ResendRequest, RequestAnswer,
        RequestForbidden, RequestFails, Lock, Logout, SendLogout, LogoutAnswer,
        LogoutFails, ClearJar
  <2> QED BY <2>1, <2>2, <2>3, Steps DEF Token
<1> QED BY <1>1, Invariant, PTL DEF Spec, TokenStaysStored

-----------------------------------------------------------------------------
(* A client with one calling goroutine, no keepalive and any number of     *)
(* goroutines that log out.                                                *)
OneCaller == Keepers = {} /\ \A s, t \in Callers : s = t

LEMMA EnsuredStep ==
  ASSUME OneCaller, TypeOK, Roles, Mutex, ConfirmedIsUsed, [Next]_vars
  PROVE  ConfirmedIsUsed'
<1> SUFFICES ASSUME NotCleared', NEW c \in Callers
             PROVE
      /\ pc'[c] \in {"lock", "again"} => call'[c].reauthed
      /\ pc'[c] \in Refresh /\ call'[c].from = "gate" => call'[c].reauthed
      /\ pc'[c] \in {"ensure", "fill", "probe", "probing", "lock"} =>
           call'[c].standing # "confirmed"
      /\ pc'[c] = "probing" => call'[c].sent.sess = jar'.sess
      /\ call'[c].standing = "confirmed" =>
           /\ pc'[c] = "keep" => call'[c].local.sess \in live'
           /\ pc'[c] \in {"snap", "save", "mark"} => jar'.sess \in live'
           /\ pc'[c] = "api" => jar'.sess \in live'
           /\ pc'[c] = "calling" /\ ~call'[c].reauthed => call'[c].sent.sess \in live'
  BY DEF ConfirmedIsUsed
<1>0. /\ pc \in [Threads -> Places] /\ call \in [Threads -> Call]
      /\ call[c] \in Call /\ jar \in Cookies
      /\ live \subseteq 1..issued /\ issued \in Nat
      /\ c \in Threads /\ c \notin Leavers /\ Keepers = {}
      /\ \A t \in Threads \ {c} : t \in Leavers
  BY SessionAssumption DEF SessionAssumption, TypeOK, Threads, OneCaller
<1>1. /\ pc[c] \in {"lock", "again"} => call[c].reauthed
      /\ pc[c] \in Refresh /\ call[c].from = "gate" => call[c].reauthed
      /\ pc[c] \in {"ensure", "fill", "probe", "probing", "lock"} =>
           call[c].standing # "confirmed"
      /\ pc[c] = "probing" => call[c].sent.sess = jar.sess
      /\ call[c].standing = "confirmed" =>
           /\ pc[c] = "keep" => call[c].local.sess \in live
           /\ pc[c] \in {"snap", "save", "mark"} => jar.sess \in live
           /\ pc[c] = "api" => jar.sess \in live
           /\ pc[c] = "calling" /\ ~call[c].reauthed => call[c].sent.sess \in live
      /\ pc[c] \in {"fill", "probe", "probing"} => call[c].from = "ensure"
  BY <1>0, ClearedForGood DEF ConfirmedIsUsed, Mutex
<1>2. CASE /\ Untouched(c) /\ jar'.sess = jar.sess
           /\ live' = live \/ call'[c].standing # "confirmed"
  <2>1. \/ call'[c].standing = call[c].standing
        \/ call[c].standing = "confirmed" /\ call'[c].standing = "ended"
    BY <1>2 DEF Untouched
  <2>2. /\ pc'[c] = pc[c] /\ call'[c].sent = call[c].sent
        /\ call'[c].local = call[c].local /\ call'[c].from = call[c].from
        /\ call'[c].reauthed = call[c].reauthed
    BY <1>2 DEF Untouched
  <2> QED BY <1>1, <1>2, <2>1, <2>2
<1>3. CASE Environment
  <2>1. Untouched(c)
    BY <1>0, <1>3, EnvironmentStep
  <2> QED BY <1>0, <1>2, <1>3, <2>1, EnvironmentStep
<1>4. ASSUME NEW t \in Threads \ {c}, Progress(t)
      PROVE  /\ Untouched(c) /\ jar'.sess = jar.sess
             /\ live' = live \/ call'[c].standing # "confirmed"
  <2>1. t \in Leavers /\ pc[t] \in {"out", "leaving", "clear", "erase", "done"}
    BY <1>0, <1>4 DEF Roles
  <2>2. Logout(t)
    BY <1>4, <2>1 DEF Progress, EnsureSession, SkipFresh, Load, LoadFails, Fill, SendProbe,
       ProbeAnswer, ProbeFails, MarkFresh, Reauthenticate, SendToken, SkipToken,
       TokenAnswer, TokenFails, SendLogin, LoginAnswer, LoginFails, KeepCookies, SnapJar,
       Save, SaveFails, Request, SendRequest, ResendRequest, RequestAnswer,
       RequestForbidden, RequestFails, Lock
  <2>3. ~ClearJar(t)
    <3>1. ASSUME ClearJar(t) PROVE FALSE
      <4>1. pc'[t] = "erase"
        BY <1>0, <1>4, <3>1 DEF ClearJar, Go
      <4> QED BY <2>1, <4>1 DEF NotCleared
    <3> QED BY <3>1
  <2>4. jar' = jar
    BY <2>2, <2>3 DEF Logout, SendLogout, LogoutAnswer, LogoutFails, EraseStore
  <2>5. live' = live \/ call'[c].standing # "confirmed"
    <3>1. live' = live \/ Spoil
      BY <2>2, <2>3 DEF Logout, SendLogout, LogoutAnswer, LogoutFails, EraseStore, server
    <3> QED BY <1>0, <3>1, Spoiled
  <2> QED BY <1>0, <1>4, <2>4, <2>5, OthersStand
<1>5. CASE Progress(c)
  <2>0. \A p : Go(c, p) => pc'[c] = p
    BY <1>0 DEF Go
  <2>1. CASE \E how \in Outcomes : Finish(c, how)
    BY <1>0, <2>1, Finished DEF Refresh
  <2>2. CASE EnsureSession(c)
    <3>1. CASE SkipFresh(c)
      <4>1. pc[c] = "ensure" /\ pc'[c] = "api" /\ call' = call
        BY <1>0, <2>0, <3>1 DEF SkipFresh, Ensured
      <4> QED BY <1>1, <4>1 DEF Refresh
    <3>2. CASE Load(c)
      <4>1. pc[c] = "ensure" /\ pc'[c] = "fill"
        BY <2>0, <3>2 DEF Load
      <4>2. call'[c].standing = call[c].standing
        BY <1>0, <3>2 DEF Load, Call
      <4> QED BY <1>1, <4>1, <4>2 DEF Refresh
    <3>3. CASE LoadFails(c)
      BY <2>1, <3>3 DEF LoadFails, Outcomes
    <3>4. CASE Fill(c)
      <4>1. pc[c] = "fill" /\ pc'[c] \in {"reauth", "probe"}
        BY <2>0, <3>4 DEF Fill
      <4>2. /\ call'[c].standing = call[c].standing /\ call'[c].from = call[c].from
            /\ call'[c].reauthed = call[c].reauthed
        BY <1>0, <3>4 DEF Fill, Call
      <4> QED BY <1>1, <4>1, <4>2 DEF Refresh
    <3>5. CASE SendProbe(c)
      <4>1. pc[c] = "probe" /\ pc'[c] = "probing" /\ jar' = jar
        BY <2>0, <3>5 DEF SendProbe
      <4>2. call'[c].standing = call[c].standing /\ call'[c].sent = jar
        BY <1>0, <3>5 DEF SendProbe, Call
      <4> QED BY <1>1, <4>1, <4>2 DEF Refresh
    <3>6. CASE ProbeAnswer(c)
      <4>1. pc[c] = "probing" /\ jar' = jar /\ live' = live
        BY <3>6 DEF ProbeAnswer, server
      <4>2. CASE /\ call[c].sent.sess \in live
                 /\ pc'[c] = "mark"
        BY <1>1, <4>1, <4>2 DEF Refresh
      <4>3. CASE /\ call'[c].standing = "unknown" /\ call'[c].from = call[c].from
                 /\ call'[c].reauthed = call[c].reauthed
                 /\ pc'[c] = "reauth"
        BY <1>1, <4>1, <4>3
      <4>4. \/ \E how \in Outcomes : Finish(c, how)
            \/ call[c].sent.sess \in live /\ pc'[c] = "mark"
            \/ /\ call'[c].standing = "unknown" /\ call'[c].from = call[c].from
               /\ call'[c].reauthed = call[c].reauthed
               /\ pc'[c] = "reauth"
        BY <1>0, <2>0, <3>6 DEF ProbeAnswer, Outcomes, Call
      <4> QED BY <2>1, <4>2, <4>3, <4>4
    <3>7. CASE ProbeFails(c)
      <4>1. pc[c] \in {"probe", "probing"} /\ pc'[c] = "reauth" /\ call' = call
        BY <2>0, <3>7 DEF ProbeFails
      <4> QED BY <1>1, <4>1
    <3>8. CASE MarkFresh(c)
      <4>1. /\ pc[c] = "mark" /\ pc'[c] = "api" /\ call' = call
            /\ jar' = jar /\ live' = live
        BY <1>0, <2>0, <3>8 DEF MarkFresh, Ensured, server
      <4> QED BY <1>1, <4>1 DEF Refresh
    <3> QED BY <2>2, <3>1, <3>2, <3>3, <3>4, <3>5, <3>6, <3>7, <3>8 DEF EnsureSession
  <2>3. CASE Reauthenticate(c)
    <3>0. /\ pc[c] \in Refresh
          /\ call[c].from = "gate" => call[c].reauthed
      BY <1>1, <2>3 DEF Reauthenticate, SendToken, SkipToken, TokenAnswer, TokenFails,
         SendLogin, LoginAnswer, LoginFails, KeepCookies, SnapJar, Save, SaveFails, Refresh
    <3>1. CASE /\ pc'[c] \in {"reauth", "tokening", "login", "logging"}
               /\ call'[c].from = call[c].from /\ call'[c].reauthed = call[c].reauthed
      BY <3>0, <3>1 DEF Refresh
    <3>2. CASE ReauthFails(c)
      BY <2>1, <3>2 DEF ReauthFails, Outcomes
    <3>3. ASSUME NEW b \in BOOLEAN, OpenSession(c, b), pc'[c] = "keep"
          PROVE  /\ pc'[c] = "keep" /\ call'[c].local.sess \in live'
                 /\ call'[c].from = call[c].from /\ call'[c].reauthed = call[c].reauthed
      BY <1>0, <3>3 DEF OpenSession, Call
    <3>4. CASE SendToken(c) \/ SkipToken(c) \/ TokenFails(c) \/ SendLogin(c)
      <4>1. pc'[c] \in {"reauth", "tokening", "login", "logging"}
        BY <2>0, <3>4 DEF SendToken, SkipToken, TokenFails, SendLogin
      <4>2. call'[c].from = call[c].from /\ call'[c].reauthed = call[c].reauthed
        BY <1>0, <3>4 DEF SendToken, SkipToken, TokenFails, SendLogin, Call
      <4> QED BY <3>1, <4>1, <4>2
    <3>5. CASE TokenAnswer(c) \/ LoginAnswer(c)
      <4>1. CASE /\ pc'[c] = "keep" /\ call'[c].local.sess \in live'
                 /\ call'[c].from = call[c].from /\ call'[c].reauthed = call[c].reauthed
        BY <3>0, <4>1 DEF Refresh
      <4>2. CASE pc'[c] = "login" /\ call' = call
        BY <3>1, <4>2
      <4> QED BY <2>0, <3>3, <3>5, <4>1, <4>2 DEF TokenAnswer, LoginAnswer
    <3>6. CASE LoginFails(c)
      BY <3>2, <3>6 DEF LoginFails
    <3>7. CASE KeepCookies(c)
      <4>1. /\ pc[c] = "keep" /\ pc'[c] = "snap" /\ call' = call /\ live' = live
            /\ SetCookies(call[c].local) /\ call[c].local \in Cookies
        BY <1>0, <2>0, <3>7 DEF KeepCookies, server, Call
      <4>2. jar'.sess = IF call[c].local.sess # 0 THEN call[c].local.sess ELSE jar.sess
        BY <1>0, <4>1, JarFilled
      <4>3. call[c].standing = "confirmed" => call[c].local.sess \in live /\ call[c].local.sess # 0
        BY <1>0, <1>1, <4>1
      <4> QED BY <3>0, <4>1, <4>2, <4>3
    <3>8. CASE SnapJar(c)
      <4>1. pc[c] = "snap" /\ pc'[c] = "save" /\ jar' = jar /\ live' = live
        BY <2>0, <3>8 DEF SnapJar, server
      <4>2. /\ call'[c].standing = call[c].standing /\ call'[c].from = call[c].from
            /\ call'[c].reauthed = call[c].reauthed
        BY <1>0, <3>8 DEF SnapJar, Call
      <4> QED BY <1>1, <3>0, <4>1, <4>2
    <3>9. CASE Save(c)
      <4>1. pc[c] = "save" /\ call' = call /\ jar' = jar /\ live' = live
        BY <3>9 DEF Save, server
      <4>2. CASE pc'[c] = "mark"
        BY <1>1, <4>1, <4>2 DEF Refresh
      <4>3. CASE pc'[c] = "again" /\ call[c].from # "ensure"
        <5>1. call[c].from = "gate"
          BY <1>0, <4>3 DEF Call
        <5> QED BY <3>0, <4>1, <4>3, <5>1 DEF Refresh
      <4> QED BY <2>0, <3>9, <4>2, <4>3 DEF Save, ReauthReturns
    <3>10. CASE SaveFails(c)
      <4>1. CASE pc'[c] = "login" /\ call' = call
        BY <3>1, <4>1
      <4> QED BY <2>0, <3>2, <3>10, <4>1 DEF SaveFails
    <3> QED BY <2>3, <3>4, <3>5, <3>6, <3>7, <3>8, <3>9, <3>10 DEF Reauthenticate
  <2>4. CASE Request(c)
    <3>1. CASE SendRequest(c)
      <4>1. pc[c] = "api" /\ pc'[c] = "calling" /\ jar' = jar /\ live' = live
        BY <2>0, <3>1 DEF SendRequest, server
      <4>2. call'[c].standing = call[c].standing /\ call'[c].sent = jar
        BY <1>0, <3>1 DEF SendRequest, Call
      <4> QED BY <1>1, <4>1, <4>2 DEF Refresh
    <3>2. CASE ResendRequest(c)
      <4>1. pc[c] = "again" /\ pc'[c] = "calling"
        BY <2>0, <3>2 DEF ResendRequest
      <4>2. call'[c].reauthed = call[c].reauthed
        BY <1>0, <3>2 DEF ResendRequest, Call
      <4> QED BY <1>1, <4>1, <4>2 DEF Refresh
    <3>3. CASE RequestAnswer(c) \/ RequestFails(c)
      BY <2>1, <3>3 DEF RequestAnswer, RequestFails, Outcomes
    <3>4. CASE RequestForbidden(c)
      <4>1. CASE Finish(c, "forbidden")
        BY <2>1, <4>1 DEF Outcomes
      <4>2. CASE ~call[c].reauthed
        <5>1. pc[c] = "calling" /\ pc'[c] = "lock" /\ call[c].sent.sess \notin live
          BY <2>0, <3>4, <4>2 DEF RequestForbidden
        <5>2. call'[c].standing = call[c].standing /\ call'[c].reauthed
          BY <1>0, <3>4, <4>2 DEF RequestForbidden, Call
        <5>3. call[c].standing # "confirmed"
          BY <1>1, <4>2, <5>1
        <5> QED BY <5>1, <5>2, <5>3 DEF Refresh
      <4> QED BY <3>4, <4>1, <4>2 DEF RequestForbidden
    <3>5. CASE Lock(c)
      <4>1. pc[c] = "lock" /\ pc'[c] \in {"reauth", "again"}
        BY <2>0, <3>5 DEF Lock
      <4>2. call'[c].standing = call[c].standing /\ call'[c].reauthed = call[c].reauthed
        BY <1>0, <3>5 DEF Lock, Call
      <4> QED BY <1>1, <4>1, <4>2
    <3> QED BY <2>4, <3>1, <3>2, <3>3, <3>4, <3>5 DEF Request
  <2>5. ~Logout(c)
    BY <1>0 DEF Roles, Logout, SendLogout, LogoutAnswer, LogoutFails, ClearJar, EraseStore
  <2> QED BY <1>5, <2>2, <2>3, <2>4, <2>5 DEF Progress
<1> QED BY <1>0, <1>2, <1>3, <1>4, <1>5, Steps

(* auth.go:280-282, with one calling goroutine: a request whose session    *)
(* the server confirmed to its goroutine is refused only after a session   *)
(* ended or a logout cleared the jar.  With two the promise fails: a       *)
(* login of one overwrites the session of the other in the jar.            *)
THEOREM EnsuredSessionIsUsed ==
  ASSUME OneCaller
  PROVE  Spec => []EnsuredSessionHolds
<1>1. Init => ConfirmedIsUsed
  <2>1. ASSUME Init, NEW c \in Callers
        PROVE  pc[c] = "ensure" /\ call[c].standing = "unknown" /\ call[c].from = "ensure"
    BY <2>1 DEF Init, Entry, NoCall, Threads
  <2> QED BY <2>1 DEF ConfirmedIsUsed, Refresh
<1>2. IInv /\ ConfirmedIsUsed /\ [Next]_vars => ConfirmedIsUsed'
  BY EnsuredStep DEF IInv
<1>3. ConfirmedIsUsed => EnsuredSessionHolds
  BY DEF ConfirmedIsUsed, NotCleared, EnsuredSessionHolds
<1> QED BY <1>1, <1>2, <1>3, Invariant, PTL DEF Spec

-----------------------------------------------------------------------------
(* Termination, as far as it is safety: how many steps an operation has    *)
(* left.                                                                   *)

(* The two loops of an operation are taken once: a request comes back from *)
(* the 403 branch with reauthed set, and what follows a tokenLogin whose   *)
(* session could not be saved is a login.                                  *)
Once ==
  \A t \in Threads :
    /\ pc[t] \in {"lock", "again"} => call[t].reauthed
    /\ pc[t] \in Refresh /\ call[t].from = "gate" => call[t].reauthed
    /\ pc[t] = "logging" => call[t].via = "login"

(* The steps left of reauthenticate.                                       *)
Inside(place, via) ==
  CASE place = "reauth"   -> 10
    [] place = "tokening" -> 9
    [] place = "keep"     -> IF via = "token" THEN 8 ELSE 3
    [] place = "snap"     -> IF via = "token" THEN 7 ELSE 2
    [] place = "save"     -> IF via = "token" THEN 6 ELSE 1
    [] place = "login"    -> 5
    [] place = "logging"  -> 4
    [] OTHER              -> 0

(* The steps left of the operation that runs.                              *)
Ahead(place, c) ==
  CASE place = "ensure"   -> 30
    [] place = "fill"     -> 29
    [] place = "probe"    -> 28
    [] place = "probing"  -> 27
    [] place \in Refresh  -> Inside(place, c.via) + (IF c.from = "gate" THEN 2 ELSE 16)
    [] place = "mark"     -> 16
    [] place = "api"      -> 15
    [] place = "calling"  -> IF c.reauthed THEN 1 ELSE 14
    [] place = "lock"     -> 13
    [] place = "again"    -> 2
    [] place = "out"      -> 4
    [] place = "leaving"  -> 3
    [] place = "clear"    -> 2
    [] place = "erase"    -> 1
    [] OTHER              -> 0

(* With the calls that follow it.                                          *)
Left(t) == 31 * call[t].left + Ahead(pc[t], call[t])

(* A goroutine's own steps use up what it has left, and only the ticker of *)
(* a keepalive gives it something more to do.                              *)
OperationsEnd ==
  /\ [](\A t \in Threads : Left(t) \in 0..(31 * MaxCalls))
  /\ [][\A t \in Threads :
          /\ Progress(t) => Left(t)' < Left(t)
          /\ ~Progress(t) /\ ~Tick(t) => Left(t)' = Left(t)]_vars

(* What a goroutine's place and locals say of each other, in Once. *)
OnceAt(place, c) ==
  /\ place \in {"lock", "again"} => c.reauthed
  /\ place \in Refresh /\ c.from = "gate" => c.reauthed
  /\ place = "logging" => c.via = "login"

LEMMA AheadRange ==
  ASSUME NEW c, NEW place
  PROVE  /\ Ahead(place, c) \in 0..30
         /\ place \in Places \ {"idle", "done"} => Ahead(place, c) >= 1
<1>1. Inside(place, c.via) \in 0..10 /\ (place \in Refresh => Inside(place, c.via) >= 1)
  BY DEF Inside, Refresh
<1> QED BY <1>1 DEF Ahead, Places, Refresh

(* An operation that ends uses up what it had left. *)
LEMMA FinishCounts ==
  ASSUME TypeOK, NEW t \in Threads, pc[t] \notin {"idle", "done"},
         NEW how \in Outcomes, Finish(t, how)
  PROVE  Left(t)' < Left(t) /\ OnceAt(pc'[t], call'[t])
<1> DEFINE over == [NoCall EXCEPT !.outcome = how,
                      !.left = IF call[t].left = 0 THEN 0 ELSE call[t].left - 1]
<1>1. /\ pc \in [Threads -> Places] /\ call \in [Threads -> Call] /\ call[t].left \in Nat
  BY SessionAssumption DEF SessionAssumption, TypeOK, Call
<1>2. Ahead(pc[t], call[t]) \in 1..30
  BY <1>1, AheadRange
<1>3. /\ over.left = IF call[t].left = 0 THEN 0 ELSE call[t].left - 1
      /\ over.from = "ensure" /\ NoCall.left = 0 /\ NoCall.from = "ensure"
  BY DEF NoCall
<1>4. pc'[t] \in {"idle", "ensure", "done"} /\ call'[t].from = "ensure"
  BY Finished
<1>5. OnceAt(pc'[t], call'[t])
  BY <1>4 DEF OnceAt, Refresh
<1>6. CASE t \in Keepers
  <2>1. pc'[t] = "idle" /\ call'[t] = NoCall
    BY <1>1, <1>6 DEF Finish, Go
  <2>2. Left(t)' = 0
    BY <1>3, <2>1 DEF Left, Ahead, Refresh
  <2> QED BY <1>1, <1>2, <1>5, <2>2 DEF Left
<1>7. CASE t \notin Keepers
  <2>1. /\ pc'[t] = IF call[t].left = 0 THEN "done" ELSE "ensure"
        /\ call'[t] = over
    BY <1>1, <1>7 DEF Finish, Go
  <2> HIDE DEF over
  <2>2. CASE call[t].left = 0
    <3>1. Left(t)' = 0
      BY <1>3, <2>1, <2>2 DEF Left, Ahead, Refresh
    <3> QED BY <1>1, <1>2, <1>5, <3>1 DEF Left
  <2>3. CASE call[t].left # 0
    <3>1. call'[t].left = call[t].left - 1
      BY <1>3, <2>1, <2>3
    <3>2. Ahead(pc'[t], call'[t]) = 30
      BY <2>1, <2>3 DEF Ahead, Refresh
    <3> QED BY <1>1, <1>2, <1>5, <3>1, <3>2 DEF Left
  <2> QED BY <2>2, <2>3
<1> QED BY <1>6, <1>7

(* So does every other step, and it keeps Once. *)
LEMMA OwnStepCounts ==
  ASSUME TypeOK, Mutex, Once, NEW t \in Threads, Progress(t)
  PROVE  Left(t)' < Left(t) /\ OnceAt(pc'[t], call'[t])
<1> DEFINE Goal == Left(t)' < Left(t) /\ OnceAt(pc'[t], call'[t])
           Kept == /\ call'[t].left = call[t].left /\ call'[t].via = call[t].via
                   /\ call'[t].from = call[t].from /\ call'[t].reauthed = call[t].reauthed
<1>0. /\ pc \in [Threads -> Places] /\ call \in [Threads -> Call] /\ call[t] \in Call
      /\ call[t].left \in Nat /\ call[t].via \in {"token", "login"}
      /\ call[t].from \in {"ensure", "gate"} /\ call[t].reauthed \in BOOLEAN
      /\ OnceAt(pc[t], call[t])
  BY SessionAssumption DEF SessionAssumption, TypeOK, Call, Once, OnceAt
<1>1. ASSUME NEW how \in Outcomes, Finish(t, how), pc[t] \notin {"idle", "done"} PROVE Goal
  BY <1>1, FinishCounts
<1>2. ASSUME NEW p, Go(t, p) PROVE pc'[t] = p
  BY <1>0, <1>2 DEF Go
(* A step to another place that keeps the calls left. *)
<1>3. ASSUME call'[t].left = call[t].left,
             Ahead(pc'[t], call'[t]) < Ahead(pc[t], call[t]), OnceAt(pc'[t], call'[t])
      PROVE  Goal
  <2>1. Ahead(pc'[t], call'[t]) \in Nat /\ Ahead(pc[t], call[t]) \in Nat
    BY AheadRange
  <2> QED BY <1>0, <1>3, <2>1 DEF Left
<1>4. call' = call => Kept
  OBVIOUS
<1> SUFFICES Goal
  OBVIOUS
<1> HIDE DEF Goal
<1>5. CASE EnsureSession(t)
  <2>1. pc[t] \in {"ensure", "fill", "probe", "probing", "mark"} /\ call[t].from = "ensure"
    BY <1>5 DEF EnsureSession, SkipFresh, Load, LoadFails, Fill, SendProbe, ProbeAnswer,
       ProbeFails, MarkFresh, Mutex
  <2>2. CASE SkipFresh(t) \/ MarkFresh(t)
    <3>1. CASE t \in Keepers
      BY <1>1, <2>1, <2>2, <3>1 DEF SkipFresh, MarkFresh, Ensured, Outcomes
    <3>2. CASE t \notin Keepers
      <4>1. pc[t] \in {"ensure", "mark"} /\ pc'[t] = "api" /\ call' = call
        BY <1>2, <2>2, <3>2 DEF SkipFresh, MarkFresh, Ensured
      <4> QED BY <1>3, <1>4, <4>1 DEF Ahead, OnceAt, Refresh
    <3> QED BY <3>1, <3>2
  <2>3. CASE Load(t)
    <3>1. pc[t] = "ensure" /\ pc'[t] = "fill" /\ Kept
      BY <1>0, <1>2, <2>3 DEF Load, Call
    <3> QED BY <1>3, <3>1 DEF Ahead, OnceAt, Refresh
  <2>4. CASE LoadFails(t)
    BY <1>1, <2>4 DEF LoadFails, Outcomes
  <2>5. CASE Fill(t)
    <3>1. pc[t] = "fill" /\ pc'[t] \in {"reauth", "probe"} /\ Kept
      BY <1>0, <1>2, <2>5 DEF Fill, Call
    <3> QED BY <1>3, <2>1, <3>1 DEF Ahead, Inside, OnceAt, Refresh
  <2>6. CASE SendProbe(t)
    <3>1. pc[t] = "probe" /\ pc'[t] = "probing" /\ Kept
      BY <1>0, <1>2, <2>6 DEF SendProbe, Call
    <3> QED BY <1>3, <3>1 DEF Ahead, OnceAt, Refresh
  <2>7. CASE ProbeAnswer(t)
    <3>1. CASE Finish(t, "blocked")
      BY <1>1, <2>7, <3>1 DEF ProbeAnswer, Outcomes
    <3>2. CASE ~Finish(t, "blocked")
      <4>1. pc[t] = "probing" /\ pc'[t] \in {"mark", "reauth"} /\ Kept
        BY <1>0, <1>2, <2>7, <3>2 DEF ProbeAnswer, Call
      <4> QED BY <1>3, <2>1, <4>1 DEF Ahead, Inside, OnceAt, Refresh
    <3> QED BY <3>1, <3>2
  <2>8. CASE ProbeFails(t)
    <3>1. pc[t] \in {"probe", "probing"} /\ pc'[t] = "reauth" /\ Kept
      BY <1>2, <1>4, <2>8 DEF ProbeFails
    <3> QED BY <1>3, <2>1, <3>1 DEF Ahead, Inside, OnceAt, Refresh
  <2> QED BY <1>5, <2>2, <2>3, <2>4, <2>5, <2>6, <2>7, <2>8 DEF EnsureSession
<1>6. CASE Reauthenticate(t)
  <2>1. pc[t] \in Refresh
    BY <1>6 DEF Reauthenticate, SendToken, SkipToken, TokenAnswer, TokenFails, SendLogin,
       LoginAnswer, LoginFails, KeepCookies, SnapJar, Save, SaveFails, Refresh
  <2>2. call[t].from = "gate" => call[t].reauthed
    BY <1>0, <2>1 DEF OnceAt
  <2>3. ASSUME NEW w \in BOOLEAN, OpenSession(t, w) PROVE Kept
    BY <1>0, <2>3 DEF OpenSession, Call
  <2>4. ReauthFails(t) => Goal
    BY <1>1, <2>1 DEF ReauthFails, Outcomes, Refresh
  (* A step inside reauthenticate. *)
  <2> DEFINE Within == /\ call'[t].left = call[t].left /\ call'[t].from = call[t].from
                       /\ call'[t].reauthed = call[t].reauthed
  <2>5. ASSUME pc'[t] \in Refresh, Within,
               Inside(pc'[t], call'[t].via) < Inside(pc[t], call[t].via),
               pc'[t] = "logging" => call'[t].via = "login"
        PROVE  Goal
    <3>1. Inside(pc'[t], call'[t].via) \in Nat /\ Inside(pc[t], call[t].via) \in Nat
      BY DEF Inside
    <3> HIDE DEF Inside
    <3>2. /\ Ahead(pc[t], call[t]) =
               Inside(pc[t], call[t].via) + (IF call[t].from = "gate" THEN 2 ELSE 16)
          /\ Ahead(pc'[t], call'[t]) =
               Inside(pc'[t], call'[t].via) + (IF call'[t].from = "gate" THEN 2 ELSE 16)
      BY <2>1, <2>5 DEF Ahead, Refresh
    <3>3. Ahead(pc'[t], call'[t]) < Ahead(pc[t], call[t])
      BY <2>5, <3>1, <3>2
    <3>4. OnceAt(pc'[t], call'[t])
      BY <2>2, <2>5 DEF OnceAt, Refresh
    <3> QED BY <1>3, <2>5, <3>3, <3>4
  <2>6. CASE SendToken(t)
    <3>1. pc[t] = "reauth" /\ pc'[t] = "tokening" /\ Within
      BY <1>0, <1>2, <2>6 DEF SendToken, Call
    <3> QED BY <2>5, <3>1 DEF Inside, Refresh
  <2>7. CASE SkipToken(t)
    <3>1. pc[t] = "reauth" /\ pc'[t] = "login" /\ Kept
      BY <1>2, <1>4, <2>7 DEF SkipToken
    <3> QED BY <2>5, <3>1 DEF Inside, Refresh
  <2>8. CASE TokenAnswer(t)
    <3>1. pc[t] = "tokening" /\ pc'[t] \in {"keep", "login"} /\ Kept
      BY <1>2, <1>4, <2>3, <2>8 DEF TokenAnswer
    <3> QED BY <2>5, <3>1 DEF Inside, Refresh
  <2>9. CASE TokenFails(t)
    <3>1. pc[t] = "tokening" /\ pc'[t] = "login" /\ Kept
      BY <1>2, <1>4, <2>9 DEF TokenFails
    <3> QED BY <2>5, <3>1 DEF Inside, Refresh
  <2>10. CASE SendLogin(t)
    <3>1. pc[t] = "login" /\ pc'[t] = "logging" /\ Within /\ call'[t].via = "login"
      BY <1>0, <1>2, <2>10 DEF SendLogin, Call
    <3> QED BY <2>5, <3>1 DEF Inside, Refresh
  <2>11. CASE LoginAnswer(t)
    <3>1. pc[t] = "logging" /\ pc'[t] = "keep" /\ Kept /\ call[t].via = "login"
      BY <1>0, <1>2, <2>3, <2>11 DEF LoginAnswer, OnceAt
    <3> QED BY <2>5, <3>1 DEF Inside, Refresh
  <2>12. CASE LoginFails(t)
    BY <2>4, <2>12 DEF LoginFails
  <2>13. CASE KeepCookies(t)
    <3>1. pc[t] = "keep" /\ pc'[t] = "snap" /\ Kept
      BY <1>2, <1>4, <2>13 DEF KeepCookies
    <3> QED BY <2>5, <3>1 DEF Inside, Refresh
  <2>14. CASE SnapJar(t)
    <3>1. pc[t] = "snap" /\ pc'[t] = "save" /\ Kept
      BY <1>0, <1>2, <2>14 DEF SnapJar, Call
    <3> QED BY <2>5, <3>1 DEF Inside, Refresh
  <2>15. CASE Save(t)
    <3>1. /\ pc[t] = "save" /\ Kept
          /\ pc'[t] = IF call[t].from = "ensure" THEN "mark" ELSE "again"
      BY <1>2, <1>4, <2>15 DEF Save, ReauthReturns
    <3>2. CASE call[t].from = "ensure"
      BY <1>3, <3>1, <3>2 DEF Ahead, Inside, OnceAt, Refresh
    <3>3. CASE call[t].from = "gate"
      BY <1>3, <2>2, <3>1, <3>3 DEF Ahead, Inside, OnceAt, Refresh
    <3> QED BY <1>0, <3>2, <3>3
  <2>16. CASE SaveFails(t)
    <3>1. CASE call[t].via = "token"
      <4>1. pc[t] = "save" /\ pc'[t] = "login" /\ Kept
        BY <1>2, <1>4, <2>16, <3>1 DEF SaveFails
      <4> QED BY <2>5, <3>1, <4>1 DEF Inside, Refresh
    <3>2. CASE call[t].via # "token"
      BY <2>4, <2>16, <3>2 DEF SaveFails
    <3> QED BY <3>1, <3>2
  <2> QED BY <1>6, <2>6, <2>7, <2>8, <2>9, <2>10, <2>11, <2>12, <2>13, <2>14, <2>15, <2>16
      DEF Reauthenticate
<1>7. CASE Request(t)
  <2>1. CASE SendRequest(t)
    <3>1. pc[t] = "api" /\ pc'[t] = "calling" /\ Kept
      BY <1>0, <1>2, <2>1 DEF SendRequest, Call
    <3> QED BY <1>3, <3>1 DEF Ahead, OnceAt, Refresh
  <2>2. CASE ResendRequest(t)
    <3>1. pc[t] = "again" /\ pc'[t] = "calling" /\ Kept /\ call[t].reauthed
      BY <1>0, <1>2, <2>2 DEF ResendRequest, OnceAt, Call
    <3> QED BY <1>3, <3>1 DEF Ahead, OnceAt, Refresh
  <2>3. CASE RequestAnswer(t) \/ RequestFails(t)
    BY <1>1, <2>3 DEF RequestAnswer, RequestFails, Outcomes
  <2>4. CASE RequestForbidden(t)
    <3>1. CASE call[t].reauthed
      BY <1>1, <2>4, <3>1 DEF RequestForbidden, Outcomes
    <3>2. CASE ~call[t].reauthed
      <4>1. /\ pc[t] = "calling" /\ pc'[t] = "lock"
            /\ call'[t].left = call[t].left /\ call'[t].reauthed
        BY <1>0, <1>2, <2>4, <3>2 DEF RequestForbidden, Call
      <4> QED BY <1>3, <3>2, <4>1 DEF Ahead, OnceAt, Refresh
    <3> QED BY <3>1, <3>2
  <2>5. CASE Lock(t)
    <3>1. pc[t] = "lock" /\ call[t].reauthed
      BY <1>0, <2>5 DEF Lock, OnceAt
    <3>2. CASE epoch = call[t].epochAt
      <4>1. /\ pc'[t] = "reauth" /\ call'[t].from = "gate"
            /\ call'[t].left = call[t].left /\ call'[t].reauthed
        BY <1>0, <1>2, <2>5, <3>1, <3>2 DEF Lock, Call
      <4> QED BY <1>3, <3>1, <4>1 DEF Ahead, Inside, OnceAt, Refresh
    <3>3. CASE epoch # call[t].epochAt
      <4>1. pc'[t] = "again" /\ Kept
        BY <1>2, <1>4, <2>5, <3>3 DEF Lock
      <4> QED BY <1>3, <3>1, <4>1 DEF Ahead, OnceAt, Refresh
    <3> QED BY <3>2, <3>3
  <2> QED BY <1>7, <2>1, <2>2, <2>3, <2>4, <2>5 DEF Request
<1>8. CASE Logout(t)
  <2>1. CASE SendLogout(t)
    <3>1. pc[t] = "out" /\ pc'[t] = "leaving" /\ Kept
      BY <1>0, <1>2, <2>1 DEF SendLogout, Call
    <3> QED BY <1>3, <3>1 DEF Ahead, OnceAt, Refresh
  <2>2. CASE LogoutAnswer(t)
    <3>1. Spoil \/ call' = call
      BY <2>2 DEF LogoutAnswer
    <3>2. call'[t].left = call[t].left
      BY <1>0, <3>1 DEF Spoil, Call
    <3>3. pc[t] = "leaving" /\ pc'[t] = "clear"
      BY <1>2, <2>2 DEF LogoutAnswer
    <3> QED BY <1>3, <3>2, <3>3 DEF Ahead, OnceAt, Refresh
  <2>3. CASE LogoutFails(t)
    BY <1>1, <2>3 DEF LogoutFails, Outcomes
  <2>4. CASE ClearJar(t)
    <3>1. call'[t].left = call[t].left
      BY <1>0, <2>4 DEF ClearJar, Spoil, Call
    <3>2. pc[t] = "clear" /\ pc'[t] = "erase"
      BY <1>2, <2>4 DEF ClearJar
    <3> QED BY <1>3, <3>1, <3>2 DEF Ahead, OnceAt, Refresh
  <2>5. CASE EraseStore(t)
    BY <1>1, <2>5 DEF EraseStore, Outcomes
  <2> QED BY <1>8, <2>1, <2>2, <2>3, <2>4, <2>5 DEF Logout
<1> QED BY <1>5, <1>6, <1>7, <1>8 DEF Progress

(* What leaves a goroutine alone leaves it its rank. *)
LEMMA UntouchedCounts ==
  ASSUME NEW u \in Threads, Untouched(u)
  PROVE  Left(u)' = Left(u) /\ (OnceAt(pc'[u], call'[u]) <=> OnceAt(pc[u], call[u]))
<1>1. Ahead(pc'[u], call'[u]) = Ahead(pc[u], call[u])
  BY DEF Untouched, Ahead
<1> QED BY <1>1 DEF Untouched, Left, OnceAt

(* An operation ends after at most 30 steps of its goroutine, whatever is  *)
(* lost, refused or expired and whatever the others do: neither the 403    *)
(* branch nor the two ways to log in make a loop of ensureSession and the  *)
(* request.  That it takes these steps is EveryOperationEnds.              *)
THEOREM OperationsAreFinite == Spec => OperationsEnd
<1>1. Init => Once
  <2>1. ASSUME Init, NEW t \in Threads
        PROVE  pc[t] \in {"ensure", "idle", "out"}
    BY <2>1 DEF Init, Entry
  <2> QED BY <2>1 DEF Once, Refresh
<1>2. IInv /\ Once /\ [Next]_vars =>
        /\ Once'
        /\ \A t \in Threads :
             /\ Progress(t) => Left(t)' < Left(t)
             /\ ~Progress(t) /\ ~Tick(t) => Left(t)' = Left(t)
  <2> SUFFICES ASSUME IInv, Once, [Next]_vars, NEW t \in Threads
               PROVE  /\ OnceAt(pc'[t], call'[t])
                      /\ Progress(t) => Left(t)' < Left(t)
                      /\ ~Progress(t) /\ ~Tick(t) => Left(t)' = Left(t)
    BY DEF Once, OnceAt
  <2>1. OnceAt(pc[t], call[t]) /\ TypeOK /\ Mutex
    BY DEF Once, OnceAt, IInv
  <2>2. CASE Progress(t)
    BY <2>1, <2>2, OwnStepCounts
  <2>3. CASE ~Progress(t) /\ \E u \in Threads : Progress(u)
    BY <2>1, <2>3, OthersStand, UntouchedCounts
  <2>4. CASE ~Progress(t) /\ Environment
    <3>1. CASE Untouched(t)
      BY <2>1, <2>4, <3>1, UntouchedCounts
    <3>2. CASE pc[t] = "idle" /\ pc'[t] \in {"ensure", "done"} /\ call'[t] = call[t]
      <4>1. OnceAt(pc'[t], call'[t])
        BY <3>2 DEF OnceAt, Refresh
      <4>2. pc'[t] = "ensure" => Tick(t)
        <5> SUFFICES ASSUME pc'[t] = "ensure" PROVE Tick(t)
          OBVIOUS
        <5>1. pc \in [Threads -> Places]
          BY <2>1 DEF TypeOK
        <5>2. \E u \in Keepers : Tick(u) \/ KeepAliveExits(u)
          BY <2>4, <3>2 DEF Environment, Expire, Stop, Lapse, Block, Unblock, AllDone, vars
        <5>3. PICK u \in Keepers : Tick(u) \/ KeepAliveExits(u)
          BY <5>2
        <5> QED BY <3>2, <5>1, <5>3 DEF Tick, KeepAliveExits, Go, Threads
      <4>3. pc'[t] = "done" => Left(t)' = Left(t)
        BY <3>2 DEF Left, Ahead, Refresh
      <4> QED BY <2>4, <3>2, <4>1, <4>2, <4>3
    <3> QED BY <2>1, <2>4, <3>1, <3>2, EnvironmentStep
  <2> QED BY <2>2, <2>3, <2>4, Steps
<1>3. IInv => \A t \in Threads : Left(t) \in 0..(31 * MaxCalls)
  <2> SUFFICES ASSUME TypeOK, NEW t \in Threads PROVE Left(t) \in 0..(31 * MaxCalls)
    BY DEF IInv
  <2>1. MaxCalls \in Nat \ {0} /\ call[t].left \in 0..MaxCalls - 1
    BY SessionAssumption DEF SessionAssumption, TypeOK, Call
  <2>2. Ahead(pc[t], call[t]) \in 0..30
    BY AheadRange
  <2> QED BY <2>1, <2>2 DEF Left
<1> QED BY <1>1, <1>2, <1>3, Invariant, PTL DEF Spec, OperationsEnd

=============================================================================
