---------------------------- MODULE SessionClient ----------------------------
(***************************************************************************)
(* The session handling of a Client shared by several goroutines           *)
(* (src/fileee/auth.go, keepalive.go, loadCookiesIntoJar, the 403 branch   *)
(* of transport.go): the cookie jar, the session store and the freshness   *)
(* window under concurrent service calls (EnsureSession, then the API      *)
(* request), keepalive pings (RefreshSession) and Logout.                  *)
(*                                                                         *)
(* Every HTTP exchange is two steps, sending with the cookies the jar      *)
(* holds at that moment and the answer; what RoundTrip does inside an      *)
(* exchange is module Transport.  start, existent and login are one        *)
(* exchange here: the first two hold no session state.                     *)
(***************************************************************************)
EXTENDS Naturals

CONSTANTS
  Callers,    \* goroutines that make service calls, one after the other
  MaxCalls,   \* bound on the service calls of a caller
  Keepers,    \* keepalive goroutines
  Leavers,    \* goroutines that call Logout once
  Freshness,  \* TRUE: WithSessionFreshness is set
  Expirable,  \* sessions the server may expire (bounds the environment)
  Blockable,  \* TRUE: the server may block the account, once
  MaxFaults,  \* bound on lost exchanges, refused logins and store errors
  NoOne       \* the value of reauthMu while it is free

Threads == Callers \cup Keepers \cup Leavers

ASSUME SessionAssumption ==
  /\ Callers \cap Keepers = {}
  /\ Callers \cap Leavers = {}
  /\ Keepers \cap Leavers = {}
  /\ MaxCalls \in Nat \ {0}
  /\ Freshness \in BOOLEAN
  /\ Blockable \in BOOLEAN
  /\ Expirable \subseteq Nat
  /\ MaxFaults \in Nat
  /\ NoOne \notin Threads

VARIABLES
  pc,         \* pc[t]: where goroutine t is
  call,       \* call[t]: t's local state, a record of type Call
  reauthMu,   \* owner of the transport's mutex
  epoch,      \* the transport's reauthEpoch
  jar,        \* the shared cookie jar
  store,      \* the session store
  fresh,      \* TRUE: now is before verifiedUntil
  stopped,    \* TRUE: the keepalive's stop function was called
  live,       \* sessions the server accepts
  valid,      \* rememberMe tokens the server accepts
  issued,     \* number of logins the server answered with a session
  block,      \* the server's block of the account: "ahead", "on" or "over"
  faults      \* number of faults so far

gate   == <<reauthMu, epoch>>
server == <<live, valid, issued, block>>
vars == <<pc, call, gate, jar, store, fresh, stopped, server, faults>>

(* What a jar or a stored Session holds: the login its session cookie      *)
(* comes from and the login its rememberMe cookie comes from, 0 for none.  *)
Cookies == [sess : Nat, tok : Nat]
Empty   == [sess |-> 0, tok |-> 0]

Places ==
  {"ensure", "fill", "probe", "probing", "mark", "reauth", "tokening",
   "login", "logging", "keep", "snap", "save", "api", "again", "calling",
   "lock", "out", "leaving", "clear", "erase", "idle", "done"}

(* Inside reauthenticate, whoever called it.                               *)
Refresh == {"reauth", "tokening", "login", "logging", "keep", "snap", "save"}

(* sent: the cookies of the request in flight; local: cookies held in a    *)
(* local variable; via: the login path in use; from: who called            *)
(* reauthenticate; reauthed and epochAt: the locals of RoundTrip; outcome: *)
(* how the last operation ended; left: the calls a caller still makes.     *)
(* standing is history: whether the server confirmed the goroutine's       *)
(* session, and whether a session ended since.                             *)
Call ==
  [sent : Cookies, local : Cookies, via : {"token", "login"},
   from : {"ensure", "gate"}, reauthed : BOOLEAN, epochAt : Nat,
   outcome : {"none", "ok", "forbidden", "blocked", "error"},
   left : 0..MaxCalls - 1,
   standing : {"unknown", "confirmed", "ended"}]

NoCall ==
  [sent |-> Empty, local |-> Empty, via |-> "token", from |-> "ensure",
   reauthed |-> FALSE, epochAt |-> 0, outcome |-> "none",
   left |-> 0, standing |-> "unknown"]

TypeOK ==
  /\ pc \in [Threads -> Places]
  /\ call \in [Threads -> Call]
  /\ reauthMu \in Threads \cup {NoOne}
  /\ epoch \in Nat
  /\ jar \in Cookies /\ store \in Cookies
  /\ fresh \in BOOLEAN /\ (fresh => Freshness)
  /\ stopped \in BOOLEAN
  /\ live \subseteq 1..issued /\ valid \subseteq 1..issued
  /\ issued \in Nat
  /\ block \in {"ahead", "on", "over"}
  /\ faults \in 0..MaxFaults

Entry(t) ==
  IF t \in Callers THEN "ensure" ELSE IF t \in Keepers THEN "idle" ELSE "out"

(* NewClient loaded the store's session, if any, into the jar; it may have *)
(* expired since it was saved, its rememberMe token too.                   *)
Init ==
  /\ pc = [t \in Threads |-> Entry(t)]
  /\ call = [t \in Threads |->
               [NoCall EXCEPT !.left = IF t \in Callers THEN MaxCalls - 1 ELSE 0]]
  /\ reauthMu = NoOne
  /\ epoch = 0
  /\ store \in {Empty, [sess |-> 1, tok |-> 1]}
  /\ jar = store
  /\ fresh = FALSE
  /\ stopped = FALSE
  /\ live \in {{}, {store.sess} \ {0}}
  /\ valid \in {{}, {store.tok} \ {0}}
  /\ issued = 1
  /\ block = IF Blockable THEN "ahead" ELSE "over"
  /\ faults = 0

-----------------------------------------------------------------------------
(* Helpers.  A definition called Faulty_x is a plausible mistake in x, used *)
(* to show that the properties can fail.                                   *)

Go(t, place) == pc' = [pc EXCEPT ![t] = place]

(* A failed ping ends the keepalive.                                       *)
Faulty_Finish(t, how) ==
  IF t \in Keepers /\ how # "error"
  THEN Go(t, "idle") /\ call' = [call EXCEPT ![t] = NoCall]
  ELSE /\ Go(t, "done")
       /\ call' = [call EXCEPT ![t] = [NoCall EXCEPT !.outcome = how]]

(* The operation of t is over; a keepalive drops the outcome and waits for *)
(* its next tick, a caller goes on to its next call.                       *)
Finish(t, how) ==
  IF t \in Keepers
  THEN Go(t, "idle") /\ call' = [call EXCEPT ![t] = NoCall]
  ELSE LET left == call[t].left IN
       /\ Go(t, IF left = 0 THEN "done" ELSE "ensure")
       /\ call' = [call EXCEPT ![t] =
                     [NoCall EXCEPT !.outcome = how,
                                    !.left = IF left = 0 THEN 0 ELSE left - 1]]

(* ensureSession returned nil: a service call goes on to its request.      *)
Ensured(t) ==
  IF t \in Keepers
  THEN Finish(t, "ok")
  ELSE Go(t, "api") /\ UNCHANGED call

(* CookieJar.SetCookies replaces the cookies it is given, by name, and     *)
(* leaves the others.                                                      *)
SetCookies(c) ==
  jar' = [sess |-> IF c.sess # 0 THEN c.sess ELSE jar.sess,
          tok  |-> IF c.tok  # 0 THEN c.tok  ELSE jar.tok]

(* limiter.Wait lets no request of a stopped keepalive through.            *)
CanSend(t) == ~(t \in Keepers /\ stopped)

Fault == faults < MaxFaults /\ faults' = faults + 1

(* An exchange gets no answer: lost on the way, or ended by the context of *)
(* a keepalive that was stopped.                                           *)
Lost(t) == IF CanSend(t) THEN Fault ELSE UNCHANGED faults

(* A session ended: what a goroutine was told of its session is void.      *)
Spoil ==
  call' = [t \in Threads |->
             [call[t] EXCEPT !.standing = IF @ = "confirmed" THEN "ended" ELSE @]]

-----------------------------------------------------------------------------
(* ensureSession(force); a keepalive forces.                               *)

(* isFresh: no round trip inside the freshness window.                     *)
SkipFresh(t) ==
  /\ pc[t] = "ensure"
  /\ fresh /\ t \notin Keepers
  /\ Ensured(t)
  /\ UNCHANGED <<gate, jar, store, fresh, stopped, server, faults>>

Load(t) ==
  /\ pc[t] = "ensure"
  /\ ~fresh \/ t \in Keepers
  /\ call' = [call EXCEPT ![t].local = store]
  /\ Go(t, "fill")
  /\ UNCHANGED <<gate, jar, store, fresh, stopped, server, faults>>

LoadFails(t) ==
  /\ pc[t] = "ensure"
  /\ ~fresh \/ t \in Keepers
  /\ Fault
  /\ Finish(t, "error")
  /\ UNCHANGED <<gate, jar, store, fresh, stopped, server>>

(* loadCookiesIntoJar, unless the stored session is missing or empty.      *)
Fill(t) ==
  /\ pc[t] = "fill"
  /\ SetCookies(call[t].local)
  /\ Go(t, IF call[t].local = Empty THEN "reauth" ELSE "probe")
  /\ call' = [call EXCEPT ![t].local = Empty]
  /\ UNCHANGED <<gate, store, fresh, stopped, server, faults>>

(* GET /api/f/user-session with the jar's cookies.                         *)
SendProbe(t) ==
  /\ pc[t] = "probe"
  /\ CanSend(t)
  /\ call' = [call EXCEPT ![t].sent = jar]
  /\ Go(t, "probing")
  /\ UNCHANGED <<gate, jar, store, fresh, stopped, server, faults>>

(* The answer: authorized is looked at first, secondsBlocked only then.    *)
ProbeAnswer(t) ==
  /\ pc[t] = "probing"
  /\ \/ /\ call[t].sent.sess \in live /\ block = "on"
        /\ Finish(t, "blocked")
     \/ /\ call[t].sent.sess \in live /\ block # "on"
        /\ call' = [call EXCEPT ![t].sent = Empty, ![t].standing = "confirmed"]
        /\ Go(t, "mark")
     \/ /\ call[t].sent.sess \notin live
        /\ call' = [call EXCEPT ![t].sent = Empty, ![t].standing = "unknown"]
        /\ Go(t, "reauth")
  /\ UNCHANGED <<gate, jar, store, fresh, stopped, server, faults>>

(* An error of user-session taken for an authorized session.               *)
Faulty_ProbeFails(t) ==
  /\ pc[t] = "probing"
  /\ Lost(t)
  /\ Go(t, "mark")
  /\ UNCHANGED <<call, gate, jar, store, fresh, stopped, server>>

(* user-session failed for whatever reason: ensureSession reauthenticates. *)
ProbeFails(t) ==
  /\ \/ pc[t] = "probe" /\ ~CanSend(t) /\ UNCHANGED faults
     \/ pc[t] = "probing" /\ Lost(t)
  /\ Go(t, "reauth")
  /\ UNCHANGED <<call, gate, jar, store, fresh, stopped, server>>

Faulty_MarkFresh(t) ==
  /\ pc[t] = "mark"
  /\ fresh' = TRUE
  /\ Ensured(t)
  /\ UNCHANGED <<gate, jar, store, stopped, server, faults>>

(* markFresh, and ensureSession returns nil.                               *)
MarkFresh(t) ==
  /\ pc[t] = "mark"
  /\ fresh' = Freshness
  /\ Ensured(t)
  /\ UNCHANGED <<gate, jar, store, stopped, server, faults>>

-----------------------------------------------------------------------------
(* reauthenticate: tokenLogin, then login.                                 *)

(* reauthenticate returns nil to ensureSession, or to the 403 branch.      *)
ReauthReturns(t) ==
  IF call[t].from = "ensure"
  THEN Go(t, "mark") /\ UNCHANGED gate
  ELSE Go(t, "again") /\ epoch' = epoch + 1 /\ reauthMu' = NoOne

(* The mutex stays locked on the error path.                               *)
Faulty_ReauthFails(t) == Finish(t, "error") /\ UNCHANGED gate

ReauthFails(t) ==
  /\ Finish(t, "error")
  /\ UNCHANGED epoch
  /\ IF call[t].from = "ensure" THEN UNCHANGED reauthMu ELSE reauthMu' = NoOne

(* tokenLogin needs a rememberMe cookie in the jar.                        *)
SendToken(t) ==
  /\ pc[t] = "reauth"
  /\ jar.tok # 0 /\ CanSend(t)
  /\ call' = [call EXCEPT ![t].sent = jar, ![t].via = "token"]
  /\ Go(t, "tokening")
  /\ UNCHANGED <<gate, jar, store, fresh, stopped, server, faults>>

(* No full login after a tokenLogin that could not be sent.                *)
Faulty_SkipToken(t) ==
  /\ pc[t] = "reauth"
  /\ jar.tok = 0
  /\ Go(t, "login")
  /\ UNCHANGED <<call, gate, jar, store, fresh, stopped, server, faults>>

SkipToken(t) ==
  /\ pc[t] = "reauth"
  /\ jar.tok = 0 \/ ~CanSend(t)
  /\ Go(t, "login")
  /\ UNCHANGED <<call, gate, jar, store, fresh, stopped, server, faults>>

(* The server opens a session; the answer carries its cookie, after a full *)
(* login also a new rememberMe token.                                      *)
OpenSession(t, withToken) ==
  /\ issued' = issued + 1
  /\ live' = live \cup {issued + 1}
  /\ valid' = IF withToken THEN valid \cup {issued + 1} ELSE valid
  /\ call' = [call EXCEPT
                 ![t].local = [sess |-> issued + 1,
                               tok |-> IF withToken THEN issued + 1 ELSE 0],
                 ![t].standing = "confirmed"]

TokenAnswer(t) ==
  /\ pc[t] = "tokening"
  /\ IF call[t].sent.tok \in valid /\ block # "on"
     THEN OpenSession(t, FALSE) /\ Go(t, "keep")
     ELSE Go(t, "login") /\ UNCHANGED <<call, issued, live, valid>>
  /\ UNCHANGED <<gate, jar, store, fresh, stopped, block, faults>>

TokenFails(t) ==
  /\ pc[t] = "tokening"
  /\ Lost(t)
  /\ Go(t, "login")
  /\ UNCHANGED <<call, gate, jar, store, fresh, stopped, server>>

(* start, existent and login with the password and the TOTP code.          *)
SendLogin(t) ==
  /\ pc[t] = "login"
  /\ CanSend(t)
  /\ call' = [call EXCEPT ![t].via = "login"]
  /\ Go(t, "logging")
  /\ UNCHANGED <<gate, jar, store, fresh, stopped, server, faults>>

LoginAnswer(t) ==
  /\ pc[t] = "logging"
  /\ block # "on"
  /\ OpenSession(t, TRUE)
  /\ Go(t, "keep")
  /\ UNCHANGED <<gate, jar, store, fresh, stopped, block, faults>>

LoginFails(t) ==
  /\ \/ pc[t] = "login" /\ ~CanSend(t) /\ UNCHANGED faults
     \/ pc[t] = "logging" /\ block = "on" /\ UNCHANGED faults
     \/ pc[t] = "logging" /\ Lost(t)
  /\ ReauthFails(t)
  /\ UNCHANGED <<jar, store, fresh, stopped, server>>

(* A login through a client that has no jar.                               *)
Faulty_KeepCookies(t) ==
  /\ pc[t] = "keep"
  /\ Go(t, "snap")
  /\ UNCHANGED <<call, gate, jar, store, fresh, stopped, server, faults>>

(* http.Client puts the answer's cookies into the jar.                     *)
KeepCookies(t) ==
  /\ pc[t] = "keep"
  /\ SetCookies(call[t].local)
  /\ Go(t, "snap")
  /\ UNCHANGED <<call, gate, store, fresh, stopped, server, faults>>

(* persistSession saves only the cookies of the login's answer.            *)
Faulty_SnapJar(t) ==
  /\ pc[t] = "snap"
  /\ Go(t, "save")
  /\ UNCHANGED <<call, gate, jar, store, fresh, stopped, server, faults>>

(* persistSession reads the jar ...                                        *)
SnapJar(t) ==
  /\ pc[t] = "snap"
  /\ call' = [call EXCEPT ![t].local = jar]
  /\ Go(t, "save")
  /\ UNCHANGED <<gate, jar, store, fresh, stopped, server, faults>>

(* ... and saves what it read.                                             *)
Save(t) ==
  /\ pc[t] = "save"
  /\ store' = call[t].local
  /\ ReauthReturns(t)
  /\ UNCHANGED <<call, jar, fresh, stopped, server, faults>>

(* A session that cannot be saved counts as a failed login.                *)
SaveFails(t) ==
  /\ pc[t] = "save"
  /\ Fault
  /\ IF call[t].via = "token"
     THEN Go(t, "login") /\ UNCHANGED <<call, gate>>
     ELSE ReauthFails(t)
  /\ UNCHANGED <<jar, store, fresh, stopped, server>>

-----------------------------------------------------------------------------
(* The API request of a service call, and the 403 branch of RoundTrip.     *)

(* http.Client writes the Cookie header, RoundTrip snapshots the epoch.    *)
SendRequest(t) ==
  /\ pc[t] = "api"
  /\ call' = [call EXCEPT ![t].sent = jar, ![t].epochAt = epoch]
  /\ Go(t, "calling")
  /\ UNCHANGED <<gate, jar, store, fresh, stopped, server, faults>>

(* The retry inside RoundTrip: a new snapshot, the same Cookie header.     *)
ResendRequest(t) ==
  /\ pc[t] = "again"
  /\ call' = [call EXCEPT ![t].epochAt = epoch]
  /\ Go(t, "calling")
  /\ UNCHANGED <<gate, jar, store, fresh, stopped, server, faults>>

RequestAnswer(t) ==
  /\ pc[t] = "calling"
  /\ call[t].sent.sess \in live
  /\ Finish(t, "ok")
  /\ UNCHANGED <<gate, jar, store, fresh, stopped, server, faults>>

RequestForbidden(t) ==
  /\ pc[t] = "calling"
  /\ call[t].sent.sess \notin live
  /\ IF call[t].reauthed
     THEN Finish(t, "forbidden")
     ELSE /\ call' = [call EXCEPT ![t].reauthed = TRUE]
          /\ Go(t, "lock")
  /\ UNCHANGED <<gate, jar, store, fresh, stopped, server, faults>>

RequestFails(t) ==
  /\ pc[t] = "calling"
  /\ Fault
  /\ Finish(t, "error")
  /\ UNCHANGED <<gate, jar, store, fresh, stopped, server>>

(* reauthMu, then a refresh of this request's own or another one's.        *)
Lock(t) ==
  /\ pc[t] = "lock"
  /\ reauthMu = NoOne
  /\ IF epoch = call[t].epochAt
     THEN /\ reauthMu' = t
          /\ call' = [call EXCEPT ![t].from = "gate"]
          /\ Go(t, "reauth")
     ELSE Go(t, "again") /\ UNCHANGED <<call, reauthMu>>
  /\ UNCHANGED <<epoch, jar, store, fresh, stopped, server, faults>>

-----------------------------------------------------------------------------
(* logout.                                                                 *)

SendLogout(t) ==
  /\ pc[t] = "out"
  /\ call' = [call EXCEPT ![t].sent = jar]
  /\ Go(t, "leaving")
  /\ UNCHANGED <<gate, jar, store, fresh, stopped, server, faults>>

(* Any answer will do: logout does not look at its status.  Normally the   *)
(* server has revoked the session and the token of the request, but it may *)
(* also have refused (a 403, a 5xx).                                       *)
LogoutAnswer(t) ==
  /\ pc[t] = "leaving"
  /\ Go(t, "clear")
  /\ \/ /\ live' = live \ {call[t].sent.sess}
        /\ valid' = valid \ {call[t].sent.tok}
        /\ Spoil
        /\ UNCHANGED faults
     \/ /\ Fault
        /\ UNCHANGED <<call, live, valid>>
  /\ UNCHANGED <<gate, jar, store, fresh, stopped, issued, block>>

(* No answer: nothing is cleared locally.                                  *)
LogoutFails(t) ==
  /\ pc[t] = "leaving"
  /\ Fault
  /\ Finish(t, "error")
  /\ UNCHANGED <<gate, jar, store, fresh, stopped, server>>

(* clearJar expires the cookies of the base URL, whoever stored them.      *)
ClearJar(t) ==
  /\ pc[t] = "clear"
  /\ jar' = Empty
  /\ Spoil
  /\ Go(t, "erase")
  /\ UNCHANGED <<gate, store, fresh, stopped, server, faults>>

EraseStore(t) ==
  /\ pc[t] = "erase"
  /\ \/ store' = Empty /\ Finish(t, "ok") /\ UNCHANGED faults
     \/ UNCHANGED store /\ Finish(t, "error") /\ Fault
  /\ UNCHANGED <<gate, jar, fresh, stopped, server>>

-----------------------------------------------------------------------------
(* The keepalive's ticker and its stop function; time and the server.      *)

(* A tick that is due when the stop function is called may still be taken: *)
(* select chooses among ready channels.                                    *)
Tick(t) ==
  /\ pc[t] = "idle"
  /\ Go(t, "ensure")
  /\ UNCHANGED <<call, gate, jar, store, fresh, stopped, server, faults>>

KeepAliveExits(t) ==
  /\ pc[t] = "idle"
  /\ stopped
  /\ Go(t, "done")
  /\ UNCHANGED <<call, gate, jar, store, fresh, stopped, server, faults>>

Stop ==
  /\ Keepers # {} /\ ~stopped
  /\ stopped' = TRUE
  /\ UNCHANGED <<pc, call, gate, jar, store, fresh, server, faults>>

(* The freshness window ends.                                              *)
Lapse ==
  /\ fresh
  /\ fresh' = FALSE
  /\ UNCHANGED <<pc, call, gate, jar, store, stopped, server, faults>>

Expire(k) ==
  /\ k \in Expirable \cap live
  /\ live' = live \ {k}
  /\ Spoil
  /\ UNCHANGED <<pc, gate, jar, store, fresh, stopped, valid, issued, block,
                 faults>>

Block ==
  /\ block = "ahead"
  /\ block' = "on"
  /\ UNCHANGED <<pc, call, gate, jar, store, fresh, stopped, live, valid,
                 issued, faults>>

(* The seconds of the block are over.                                      *)
Unblock ==
  /\ block = "on"
  /\ block' = "over"
  /\ UNCHANGED <<pc, call, gate, jar, store, fresh, stopped, live, valid,
                 issued, faults>>

AllDone ==
  /\ \A t \in Threads : pc[t] = "done"
  /\ UNCHANGED vars

EnsureSession(t) ==
  \/ SkipFresh(t) \/ Load(t) \/ LoadFails(t) \/ Fill(t)
  \/ SendProbe(t) \/ ProbeAnswer(t) \/ ProbeFails(t) \/ MarkFresh(t)

Reauthenticate(t) ==
  \/ SendToken(t) \/ SkipToken(t) \/ TokenAnswer(t) \/ TokenFails(t)
  \/ SendLogin(t) \/ LoginAnswer(t) \/ LoginFails(t)
  \/ KeepCookies(t) \/ SnapJar(t) \/ Save(t) \/ SaveFails(t)

Request(t) ==
  \/ SendRequest(t) \/ ResendRequest(t) \/ RequestAnswer(t)
  \/ RequestForbidden(t) \/ RequestFails(t) \/ Lock(t)

Logout(t) ==
  \/ SendLogout(t) \/ LogoutAnswer(t) \/ LogoutFails(t)
  \/ ClearJar(t) \/ EraseStore(t)

(* A step of goroutine t, the answers to its requests included.            *)
Progress(t) == EnsureSession(t) \/ Reauthenticate(t) \/ Request(t) \/ Logout(t)

Next ==
  \/ \E t \in Threads : Progress(t)
  \/ \E t \in Keepers : Tick(t) \/ KeepAliveExits(t)
  \/ \E k \in live : Expire(k)
  \/ Stop \/ Lapse \/ Block \/ Unblock
  \/ AllDone

Spec == Init /\ [][Next]_vars

(* Goroutines run, exchanges end (answered or failed), the ticker ticks;   *)
(* select, choosing at random, does not ignore a cancelled context for     *)
(* ever.                                                                   *)
FairSpec ==
  /\ Spec
  /\ \A t \in Threads : WF_vars(Progress(t))
  /\ \A t \in Keepers : WF_vars(Tick(t)) /\ SF_vars(KeepAliveExits(t))

-----------------------------------------------------------------------------
(* Properties.                                                             *)

(* The freshness window, which lets later calls skip the check, is only    *)
(* opened by an operation the server confirmed a session to: never after   *)
(* a lost probe or a failed login.                                         *)
WindowNeedsConfirmation ==
  \A t \in Threads : pc[t] = "mark" => call[t].standing \in {"confirmed", "ended"}

(* auth.go:280-282: EnsureSession "stellt sicher, dass eine gültige Session *)
(* existiert".  The request of a caller whose session the server confirmed *)
(* is refused only if a session ended in between or a logout cleared the   *)
(* jar.                                                                    *)
EnsuredSessionHolds ==
  \A t \in Callers :
    /\ pc[t] = "lock"
    /\ \A l \in Leavers : pc[l] \notin {"erase", "done"}
    => call[t].standing # "confirmed"

(* No operation hangs: service calls and logouts end, also when exchanges  *)
(* are lost, and a keepalive ends after its stop function was called.      *)
EveryOperationEnds ==
  /\ \A t \in Callers \cup Leavers : <>(pc[t] = "done")
  /\ \A t \in Keepers : stopped ~> pc[t] = "done"

(* A keepalive that is not stopped ends with a session the server accepts, *)
(* in the jar and in the store, once faults, blocks and expiries cease: a  *)
(* failed ping does not end it, and no racing call spoils its session for  *)
(* good.                                                                   *)
KeepAliveKeepsWarm ==
  Keepers # {} =>
    <>[](\/ stopped
         \/ block = "on"
         \/ jar.sess \in live /\ store.sess \in live)

(* The rememberMe token, which spares the password and the second factor,  *)
(* is not lost from the store by a login that answers without one; only a  *)
(* logout that cleared the jar takes it away.                              *)
TokenStaysStored ==
  [][store.tok # 0 /\ store'.tok = 0 =>
       \E t \in Leavers : pc[t] \in {"erase", "done"}]_vars

(* reauthMu is held just while its owner runs the reauthenticate of its    *)
(* own 403, in the epoch its refused attempt began in: no other 403's      *)
(* refresh runs or succeeds meanwhile, and every way out of the branch,    *)
(* the failing ones too, unlocks it.  A refresh ensureSession runs         *)
(* (auth.go:307) may go on beside it: it takes no mutex, moves no epoch.   *)
MutexHeldByRefresher ==
  \A t \in Threads :
    /\ reauthMu = t <=> pc[t] \in Refresh /\ call[t].from = "gate"
    /\ reauthMu = t => call[t].epochAt = epoch

(* auth.go:397-399: after Logout "ein anschließendes EnsureSession führt   *)
(* damit zwingend einen vollen Reauth-Zyklus durch": no call skips the     *)
(* check while the client holds no session because it logged out.          *)
LogoutForcesReauth ==
  [][\A t \in Callers :
       /\ pc[t] = "ensure" /\ pc'[t] = "api"
       /\ \E l \in Leavers : call[l].outcome = "ok"
       => jar # Empty]_vars

=============================================================================
