------------------------------ MODULE Transport ------------------------------
(***************************************************************************)
(* rateLimitedTransport.RoundTrip (src/fileee/transport.go) under          *)
(* concurrent callers.  Each request runs the loop "limiter, epoch         *)
(* snapshot, clone and token, send, classify"; a first 403 takes reauthMu  *)
(* and either runs authClient.reauthenticate or shares a refresh that      *)
(* succeeded meanwhile.  reauthenticate sends its handshake through the    *)
(* SAME transport, so a request owns two frames of the loop: the caller's  *)
(* ("main") and, while it holds the mutex, the handshake's ("shake").      *)
(*                                                                         *)
(* A login session is a number: the value of its cookies and of its XSRF   *)
(* token.  The server (external) issues them in order and may expire each. *)
(***************************************************************************)
EXTENDS Naturals

CONSTANTS
  Requests,    \* goroutines that call the client, one request each
  Mutating,    \* those whose method is POST, PUT or DELETE
  Denied,      \* those the server refuses with 403 whatever the session
  Cancellable, \* those whose context may be cancelled
  Expirable,   \* the sessions that may expire (bounds the environment)
  MaxAttempts, \* ExponentialBackoff.MaxAttempts
  NoOne        \* the value of reauthMu while it is free

ASSUME TransportAssumption ==
  /\ Mutating \subseteq Requests
  /\ Denied \subseteq Requests
  /\ Cancellable \subseteq Requests
  /\ MaxAttempts \in Nat
  /\ NoOne \notin Requests

VARIABLES
  pc,          \* pc[f]: where frame f of the loop is
  attempt,     \* attempt[f]: the backoff counter
  reauthed,    \* reauthed[f]: f has used its one 403 retry
  epochAt,     \* epochAt[f]: epochAtAttempt of the running attempt
  result,      \* result[f]: what RoundTrip returned to f's caller
  reauthMu,    \* owner of the mutex, or NoOne
  reauthEpoch, \* number of refreshes that succeeded
  step,        \* step[r]: where r is in reauthenticate, "none" outside
  carried,     \* carried[r]: the session in the handshake's last answer
  cancelled,   \* requests whose context is done
  cookie,      \* cookie[r]: the session in r's Cookie header
  xsrf,        \* xsrf[r]: the session in r's x-xsrf-token header, 0 if none
  jar,         \* the session in the shared cookie jar
  live,        \* sessions the server accepts
  issued,      \* number of sessions the server issued
  sends,       \* history: sends[f], attempts of this RoundTrip that were sent
  sentAt,      \* history: sentAt[r], the epoch when r's last attempt was sent
  renewed      \* history: the sessions of the requests whose refresh succeeded

loopVars   == <<pc, attempt, reauthed, epochAt, result, sends>>
gateVars   == <<reauthMu, reauthEpoch, step, carried>>
headerVars == <<cookie, xsrf, sentAt, renewed>>
serverVars == <<live, issued>>
vars == <<loopVars, gateVars, headerVars, serverVars, jar, cancelled>>

Main(r)  == <<r, "main">>
Shake(r) == <<r, "shake">>
Frames   == Requests \X {"main", "shake"}
Owner(f) == f[1]

Places  == {"off", "wait", "snapped", "sent", "lock", "hold", "back", "done"}
Results == {"none", "answer", "forbidden", "busy", "error", "reauthErr"}
Steps   == {"none", "token", "saveToken", "start", "existent", "login", "saveLogin"}

TypeOK ==
  /\ pc \in [Frames -> Places]
  /\ attempt \in [Frames -> 0..MaxAttempts]
  /\ reauthed \in [Frames -> BOOLEAN]
  /\ epochAt \in [Frames -> Nat]
  /\ result \in [Frames -> Results]
  /\ sends \in [Frames -> Nat]
  /\ reauthMu \in Requests \cup {NoOne}
  /\ reauthEpoch \in Nat
  /\ step \in [Requests -> Steps]
  /\ carried \in [Requests -> Nat]
  /\ cancelled \subseteq Requests
  /\ cookie \in [Requests -> Nat]
  /\ xsrf \in [Requests -> Nat]
  /\ sentAt \in [Requests -> Nat]
  /\ renewed \subseteq Nat
  /\ jar \in Nat
  /\ live \subseteq Nat
  /\ issued \in Nat

(* NewClient loaded session 1 from the store; it may have expired since.   *)
Init ==
  /\ pc = [f \in Frames |-> "off"]
  /\ attempt = [f \in Frames |-> 0]
  /\ reauthed = [f \in Frames |-> FALSE]
  /\ epochAt = [f \in Frames |-> 0]
  /\ result = [f \in Frames |-> "none"]
  /\ sends = [f \in Frames |-> 0]
  /\ reauthMu = NoOne
  /\ reauthEpoch = 0
  /\ step = [r \in Requests |-> "none"]
  /\ carried = [r \in Requests |-> 0]
  /\ cancelled = {}
  /\ cookie = [r \in Requests |-> 0]
  /\ xsrf = [r \in Requests |-> 0]
  /\ sentAt = [r \in Requests |-> 0]
  /\ renewed = {}
  /\ jar = 1
  /\ live \in {{}, {1}}
  /\ issued = 1

-----------------------------------------------------------------------------
(* The loop of RoundTrip, for a frame f.  A definition called Faulty_x is  *)
(* a plausible mistake in x, used to show that the properties can fail.    *)

Faulty_ShouldRetry(f) == attempt[f] <= MaxAttempts

ShouldRetry(f) == attempt[f] < MaxAttempts

Faulty_isReauthSkipped(f) == FALSE

(* The handshake's context carries withSkipReauth (auth.go).               *)
isReauthSkipped(f) == f[2] = "shake"

Return(f, res) ==
  /\ pc' = [pc EXCEPT ![f] = "done"]
  /\ result' = [result EXCEPT ![f] = res]

(* http.Client.send: the Cookie header is written once, before RoundTrip,  *)
(* so every attempt of the call carries the session the jar held then.     *)
Call(r) ==
  /\ pc[Main(r)] = "off"
  /\ pc' = [pc EXCEPT ![Main(r)] = "wait"]
  /\ cookie' = [cookie EXCEPT ![r] = jar]
  /\ UNCHANGED <<attempt, reauthed, epochAt, result, sends, gateVars, xsrf,
                 sentAt, renewed, serverVars, jar, cancelled>>

(* Requests with a body: those that write, and the handshake's POSTs.      *)
HasBody(f) ==
  IF isReauthSkipped(f) THEN step[Owner(f)] \in {"token", "existent", "login"}
  ELSE Owner(f) \in Mutating

(* The body cannot be read (bodyProvider, before the loop) or not be read  *)
(* again for this attempt (cloneRequest): an error in either place.        *)
BodyFails(f) ==
  /\ HasBody(f)
  /\ \/ pc[f] = "wait" /\ attempt[f] = 0 /\ ~reauthed[f]
     \/ pc[f] = "snapped"
  /\ Return(f, "error")
  /\ UNCHANGED <<attempt, reauthed, epochAt, sends, gateVars, headerVars,
                 serverVars, jar, cancelled>>

(* limiter.Wait returns an error once the context is done.                 *)
WaitFails(f) ==
  /\ pc[f] = "wait"
  /\ Owner(f) \in cancelled
  /\ Return(f, "error")
  /\ UNCHANGED <<attempt, reauthed, epochAt, sends, gateVars, headerVars,
                 serverVars, jar, cancelled>>

(* limiter.Wait passes, then the lock-free snapshot of the epoch.          *)
Snapshot(f) ==
  /\ pc[f] = "wait"
  /\ Owner(f) \notin cancelled
  /\ epochAt' = [epochAt EXCEPT ![f] = reauthEpoch]
  /\ pc' = [pc EXCEPT ![f] = "snapped"]
  /\ UNCHANGED <<attempt, reauthed, result, sends, gateVars, headerVars,
                 serverVars, jar, cancelled>>

(* cloneRequest and injectXSRF, then base.RoundTrip takes the request.     *)
Transmit(f) ==
  /\ pc[f] = "snapped"
  /\ pc' = [pc EXCEPT ![f] = "sent"]
  /\ sends' = [sends EXCEPT ![f] = @ + 1]
  /\ IF f = Main(Owner(f))
     THEN /\ sentAt' = [sentAt EXCEPT ![Owner(f)] = reauthEpoch]
          /\ xsrf' = [xsrf EXCEPT ![Owner(f)] =
                        IF Owner(f) \in Mutating THEN jar ELSE 0]
     ELSE UNCHANGED <<sentAt, xsrf>>
  /\ UNCHANGED <<attempt, reauthed, epochAt, result, gateVars, cookie, renewed,
                 serverVars, jar, cancelled>>

(* A network error, a 429 or a 5xx: back off while attempts are left,      *)
(* otherwise hand the error or the response to the caller.                 *)
Unavailable(f, res) ==
  /\ pc[f] = "sent"
  /\ IF ShouldRetry(f)
     THEN /\ pc' = [pc EXCEPT ![f] = "back"]
          /\ UNCHANGED result
     ELSE Return(f, res)
  /\ UNCHANGED <<attempt, reauthed, epochAt, sends, gateVars, headerVars,
                 serverVars, jar, cancelled>>

NetworkError(f) == Unavailable(f, "error")
Busy(f) == Unavailable(f, "busy")

Backoff(f) ==
  /\ pc[f] = "back"
  /\ attempt' = [attempt EXCEPT ![f] = @ + 1]
  /\ pc' = [pc EXCEPT ![f] = "wait"]
  /\ UNCHANGED <<reauthed, epochAt, result, sends, gateVars, headerVars,
                 serverVars, jar, cancelled>>

(* Double submit: the token must be the one of the session in the cookie.  *)
Accepts(r) ==
  /\ r \notin Denied
  /\ cookie[r] \in live
  /\ r \in Mutating => xsrf[r] = cookie[r]

Answer(r) ==
  /\ pc[Main(r)] = "sent"
  /\ Accepts(r)
  /\ Return(Main(r), "answer")
  /\ UNCHANGED <<attempt, reauthed, epochAt, sends, gateVars, headerVars,
                 serverVars, jar, cancelled>>

(* The snapshot taken when the 403 arrives instead of before the attempt.  *)
Faulty_Forbidden(f) ==
  /\ pc[f] = "sent"
  /\ f = Main(Owner(f)) /\ ~Accepts(Owner(f)) /\ ~reauthed[f]
  /\ reauthed' = [reauthed EXCEPT ![f] = TRUE]
  /\ pc' = [pc EXCEPT ![f] = "lock"]
  /\ epochAt' = [epochAt EXCEPT ![f] = reauthEpoch]
  /\ UNCHANGED <<attempt, result, sends, gateVars, headerVars, serverVars, jar,
                 cancelled>>

(* A 403: the first one of a frame that may refresh goes to the mutex,     *)
(* any other one is returned.                                              *)
Forbidden(f) ==
  /\ pc[f] = "sent"
  /\ f = Main(Owner(f)) => ~Accepts(Owner(f))
  /\ IF ~reauthed[f] /\ ~isReauthSkipped(f)
     THEN /\ reauthed' = [reauthed EXCEPT ![f] = TRUE]
          /\ pc' = [pc EXCEPT ![f] = "lock"]
          /\ UNCHANGED result
     ELSE /\ Return(f, "forbidden")
          /\ UNCHANGED reauthed
  /\ UNCHANGED <<attempt, epochAt, sends, gateVars, headerVars, serverVars,
                 jar, cancelled>>

-----------------------------------------------------------------------------
(* The 403 branch and authClient.reauthenticate, run by the mutex holder.  *)

(* A RoundTrip of the handshake is over: its locals are gone.              *)
DropFrame(r) ==
  /\ attempt' = [attempt EXCEPT ![Shake(r)] = 0]
  /\ epochAt' = [epochAt EXCEPT ![Shake(r)] = 0]
  /\ sends' = [sends EXCEPT ![Shake(r)] = 0]

Faulty_SameEpoch(r) == TRUE

(* Nobody refreshed the session since r's attempt began.                   *)
SameEpoch(r) == reauthEpoch = epochAt[Main(r)]

(* reauthMu.Lock(), and the epoch moved on: Unlock and retry.              *)
ShareRefresh(r) ==
  /\ pc[Main(r)] = "lock"
  /\ reauthMu = NoOne
  /\ ~SameEpoch(r)
  /\ pc' = [pc EXCEPT ![Main(r)] = "wait"]
  /\ UNCHANGED <<attempt, reauthed, epochAt, result, sends, gateVars,
                 headerVars, serverVars, jar, cancelled>>

(* reauthMu.Lock(), and no refresh since the attempt: this request runs    *)
(* it.  tokenLogin needs a rememberMe cookie; without one login starts.    *)
BeginRefresh(r) ==
  /\ pc[Main(r)] = "lock"
  /\ reauthMu = NoOne
  /\ SameEpoch(r)
  /\ reauthMu' = r
  /\ \E s \in {"token", "start"} : step' = [step EXCEPT ![r] = s]
  /\ pc' = [pc EXCEPT ![Main(r)] = "hold", ![Shake(r)] = "wait"]
  /\ UNCHANGED <<attempt, reauthed, epochAt, result, sends, reauthEpoch, carried,
                 headerVars, serverVars, jar, cancelled>>

(* The server answers a handshake request with 200; a login also issues a  *)
(* session.                                                                *)
ShakeAnswer(r) ==
  /\ pc[Shake(r)] = "sent"
  /\ Return(Shake(r), "answer")
  /\ IF step[r] \in {"token", "login"}
     THEN /\ issued' = issued + 1
          /\ live' = live \cup {issued + 1}
          /\ carried' = [carried EXCEPT ![r] = issued + 1]
     ELSE UNCHANGED <<issued, live, carried>>
  /\ UNCHANGED <<attempt, reauthed, epochAt, sends, reauthMu, reauthEpoch,
                 step, headerVars, jar, cancelled>>

(* http.Client stores the cookies of a login's answer; persistSession next.*)
StoreCookies(r) ==
  /\ pc[Shake(r)] = "done"
  /\ result[Shake(r)] = "answer"
  /\ step[r] \in {"token", "login"}
  /\ jar' = carried[r]
  /\ carried' = [carried EXCEPT ![r] = 0]
  /\ step' = [step EXCEPT ![r] = IF @ = "token" THEN "saveToken" ELSE "saveLogin"]
  /\ pc' = [pc EXCEPT ![Shake(r)] = "off"]
  /\ result' = [result EXCEPT ![Shake(r)] = "none"]
  /\ DropFrame(r)
  /\ UNCHANGED <<reauthed, reauthMu, reauthEpoch, headerVars, serverVars,
                 cancelled>>

(* The next request of login: start after a failed tokenLogin (whatever    *)
(* failed in it), existent after any answer to start, login after a        *)
(* positive answer to existent.                                            *)
Follows(r, s) ==
  CASE s = "start"    -> \/ /\ step[r] = "token"
                            /\ pc[Shake(r)] = "done"
                            /\ result[Shake(r)] # "answer"
                         \/ step[r] = "saveToken"
    [] s = "existent" -> /\ step[r] = "start"
                         /\ pc[Shake(r)] = "done"
                         /\ result[Shake(r)] # "error"
    [] s = "login"    -> /\ step[r] = "existent"
                         /\ pc[Shake(r)] = "done"
                         /\ result[Shake(r)] = "answer"

NextStep(r, s) ==
  /\ pc[Main(r)] = "hold"
  /\ Follows(r, s)
  /\ step' = [step EXCEPT ![r] = s]
  /\ pc' = [pc EXCEPT ![Shake(r)] = "wait"]
  /\ result' = [result EXCEPT ![Shake(r)] = "none"]
  /\ DropFrame(r)
  /\ UNCHANGED <<reauthed, reauthMu, reauthEpoch, carried, headerVars,
                 serverVars, jar, cancelled>>

(* SessionStore.Save succeeded: reauth returns nil, the epoch advances and *)
(* the request is retried.                                                 *)
RefreshSucceeds(r) ==
  /\ step[r] \in {"saveToken", "saveLogin"}
  /\ reauthEpoch' = reauthEpoch + 1
  /\ reauthMu' = NoOne
  /\ step' = [step EXCEPT ![r] = "none"]
  /\ pc' = [pc EXCEPT ![Main(r)] = "wait"]
  /\ renewed' = renewed \cup {cookie[r]}
  /\ UNCHANGED <<attempt, reauthed, epochAt, result, sends, carried, cookie,
                 xsrf, sentAt, serverVars, jar, cancelled>>

(* login failed: no answer to start, an account or second factor that      *)
(* existent reports unusable, login refused, or the session not saved.     *)
LoginFailed(r) ==
  \/ /\ pc[Shake(r)] = "done"
     /\ \/ step[r] = "start" /\ result[Shake(r)] = "error"
        \/ step[r] = "existent"
        \/ step[r] = "login" /\ result[Shake(r)] # "answer"
  \/ step[r] = "saveLogin"

(* The error of reauth dropped: the request is retried all the same.       *)
Faulty_RefreshFails(r) ==
  /\ pc[Main(r)] = "hold"
  /\ LoginFailed(r)
  /\ reauthMu' = NoOne
  /\ step' = [step EXCEPT ![r] = "none"]
  /\ pc' = [pc EXCEPT ![Main(r)] = "wait", ![Shake(r)] = "off"]
  /\ result' = [result EXCEPT ![Shake(r)] = "none"]
  /\ DropFrame(r)
  /\ UNCHANGED <<reauthed, reauthEpoch, carried, headerVars, serverVars, jar,
                 cancelled>>

(* reauth returned an error: Unlock and return it.                         *)
RefreshFails(r) ==
  /\ pc[Main(r)] = "hold"
  /\ LoginFailed(r)
  /\ reauthMu' = NoOne
  /\ step' = [step EXCEPT ![r] = "none"]
  /\ pc' = [pc EXCEPT ![Main(r)] = "done", ![Shake(r)] = "off"]
  /\ result' = [result EXCEPT ![Main(r)] = "reauthErr", ![Shake(r)] = "none"]
  /\ DropFrame(r)
  /\ UNCHANGED <<reauthed, reauthEpoch, carried, headerVars, serverVars, jar,
                 cancelled>>

-----------------------------------------------------------------------------
(* The environment.                                                        *)

Expire(s) ==
  /\ s \in Expirable \cap live
  /\ live' = live \ {s}
  /\ UNCHANGED <<loopVars, gateVars, headerVars, issued, jar, cancelled>>

Cancel(r) ==
  /\ r \in Cancellable \ cancelled
  /\ pc[Main(r)] \notin {"off", "done"}
  /\ cancelled' = cancelled \cup {r}
  /\ UNCHANGED <<loopVars, gateVars, headerVars, serverVars, jar>>

(* Every call has returned: nothing is left to do.                         *)
AllReturned ==
  /\ \A r \in Requests : pc[Main(r)] = "done"
  /\ UNCHANGED vars

Loop(f) ==
  \/ BodyFails(f) \/ WaitFails(f) \/ Snapshot(f) \/ Transmit(f) \/ Backoff(f)
  \/ NetworkError(f) \/ Busy(f) \/ Forbidden(f)

Handshake(r) ==
  \/ ShakeAnswer(r) \/ StoreCookies(r) \/ RefreshSucceeds(r) \/ RefreshFails(r)
  \/ \E s \in {"start", "existent", "login"} : NextStep(r, s)

(* A step of goroutine r, the network's answers to it included.            *)
Progress(r) ==
  \/ Loop(Main(r)) \/ Loop(Shake(r)) \/ Answer(r)
  \/ ShareRefresh(r) \/ BeginRefresh(r) \/ Handshake(r)

Next ==
  \/ \E r \in Requests : Call(r) \/ Progress(r) \/ Cancel(r)
  \/ \E s \in live : Expire(s)
  \/ AllReturned

Spec == Init /\ [][Next]_vars

(* The Go scheduler runs every goroutine, sync.Mutex starves none, backoff *)
(* delays are finite and the base transport ends every exchange.           *)
FairSpec == Spec /\ \A r \in Requests : WF_vars(Progress(r))

-----------------------------------------------------------------------------
(* Properties.                                                             *)

(* A RoundTrip sends a request at most MaxAttempts + 1 times, once more if *)
(* it used its 403 retry; a handshake request never has that extra one.    *)
(* Neither a refresh nor a run of failures gives a call a fresh budget.    *)
SendsBounded ==
  \A f \in Frames :
    sends[f] <= MaxAttempts + 1 + (IF reauthed[f] THEN 1 ELSE 0)

(* At most one goroutine is inside reauthenticate, it owns reauthMu, and   *)
(* nobody refreshed the session since its refused attempt began.           *)
RefreshesCurrentEpoch ==
  \A r \in Requests :
    pc[Main(r)] = "hold" => reauthMu = r /\ epochAt[Main(r)] = reauthEpoch

(* Of the requests in flight while a refresh succeeds none refreshes       *)
(* again: whoever refreshes sent its refused attempt in the epoch that     *)
(* still is.  That rests on the order "snapshot, then send"; a snapshot    *)
(* taken when the answer arrives shows an epoch the attempt is too old     *)
(* for.  Of requests that are not sent yet it says nothing (see            *)
(* ExpiredSessionRefreshedOnce).                                           *)
InFlightShareRefresh ==
  \A r \in Requests :
    pc[Main(r)] = "hold" => sentAt[r] = reauthEpoch

(* A caller sees a raw 403 only after a refresh succeeded and the request  *)
(* was sent again in the epoch that refresh began.                         *)
ForbiddenOnlyAfterRetry ==
  \A r \in Requests :
    result[Main(r)] = "forbidden" =>
      /\ reauthed[Main(r)]
      /\ epochAt[Main(r)] > 0
      /\ sends[Main(r)] > 1

(* No goroutine hangs: neither on the mutex, which the handshake runs      *)
(* under, nor in the retry loop.                                           *)
EveryCallReturns ==
  \A r \in Requests : pc[Main(r)] # "off" ~> pc[Main(r)] = "done"

(* The 403 branch is the gate of ReauthGate.                               *)
Turn(r) ==
  CASE result[Main(r)] = "reauthErr" -> "failed"
    [] pc[Main(r)] = "lock"          -> "refused"
    [] pc[Main(r)] = "hold"          -> "refreshing"
    [] OTHER -> IF reauthed[Main(r)] THEN "renewed" ELSE "trying"

Gate == INSTANCE ReauthGate WITH
  epoch <- reauthEpoch,
  owner <- reauthMu,
  seen  <- [r \in Requests |-> epochAt[Main(r)]],
  turn  <- [r \in Requests |-> Turn(r)]

GateSpec == Gate!Spec

(* README.md:161-163: the client refreshes once "und wiederholt danach den *)
(* Original-Request"; transport.go:50-51: the retry runs "mit dem (im      *)
(* gemeinsamen Cookie-Jar bereits aktualisierten) frischen Zustand".  So a *)
(* request the account may make, sent again after a refresh, is refused    *)
(* only if the session then in the jar had expired once more.              *)
RetryUsesRefreshedSession ==
  \A r \in Mutating \ Denied :
    result[Main(r)] = "forbidden" => xsrf[r] \notin live

(* README.md:163-165: parallel requests that run into a 403 "im selben     *)
(* abgelaufenen Session-Fenster [...] teilen sich diesen einen Re-Auth     *)
(* (kein Stampede)"; transport.go:51-53 says so of "N gleichzeitige        *)
(* Requests" that "dieselbe abgelaufene Session treffen".  So nobody       *)
(* refreshes for a session, the one of the Cookie header, for which        *)
(* another request's refresh succeeded already.                            *)
ExpiredSessionRefreshedOnce ==
  \A r \in Requests : pc[Main(r)] = "hold" => cookie[r] \notin renewed

=============================================================================
