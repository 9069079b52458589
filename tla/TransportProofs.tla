---------------------------- MODULE TransportProofs ----------------------------
(***************************************************************************)
(* Proofs about Transport, for any number of requests, any backoff budget  *)
(* and any server: the loop's send budget, the refresh gate, that the      *)
(* transport implements ReauthGate, and what ReauthGate promises by itself.*)
(*                                                                         *)
(* The safety properties are not inductive: a request that holds the mutex *)
(* has an epoch of its own, an attempt it sent and a handshake frame, and each  *)
(* of them is only right because of where the request was before.  IInv    *)
(* adds what is true on the way, frame by frame.                           *)
(***************************************************************************)
EXTENDS Transport, TLAPS

Extra(f) == IF reauthed[f] THEN 1 ELSE 0

(* What a frame has sent so far, by its place in the loop.                 *)
Budget ==
  \A f \in Frames :
    /\ sends[f] <= MaxAttempts + 1 + Extra(f)
    /\ pc[f] = "off" => sends[f] = 0
    /\ pc[f] \in {"wait", "snapped"} => sends[f] <= attempt[f] + Extra(f)
    /\ pc[f] = "sent" => sends[f] <= attempt[f] + 1 + Extra(f)
    /\ pc[f] = "back" =>
         sends[f] <= attempt[f] + 1 + Extra(f) /\ attempt[f] < MaxAttempts
    /\ pc[f] \in {"lock", "hold"} => reauthed[f] /\ sends[f] <= attempt[f] + 1

(* The mutex, the request that holds it and its handshake go together.     *)
MutexAndHandshake ==
  \A r \in Requests :
    /\ pc[Main(r)] = "hold" <=> reauthMu = r
    /\ step[r] # "none" => reauthMu = r
    /\ pc[Shake(r)] # "off" => step[r] # "none"
    /\ pc[Shake(r)] \notin {"lock", "hold"}
    /\ ~reauthed[Shake(r)]
    /\ step[r] \in {"saveToken", "saveLogin"} => pc[Shake(r)] = "off"

(* No snapshot and no sending is ahead of the epoch, and a request is sent *)
(* after its snapshot.                                                     *)
Epochs ==
  \A r \in Requests :
    /\ epochAt[Main(r)] <= reauthEpoch
    /\ sentAt[r] <= reauthEpoch
    /\ pc[Main(r)] \in {"sent", "lock", "hold"} => epochAt[Main(r)] <= sentAt[r]
    /\ pc[Main(r)] = "hold" => epochAt[Main(r)] = reauthEpoch

(* A request that used its retry does so after a refresh.                  *)
Retried ==
  \A r \in Requests :
    LET m == Main(r) IN
    /\ result[m] # "none" => pc[m] = "done"
    /\ pc[m] \in {"sent", "back", "lock", "hold"} => sends[m] >= 1
    /\ reauthed[m] =>
         /\ sends[m] >= 1
         /\ pc[m] \in {"wait", "snapped", "sent", "back"} => reauthEpoch > 0
         /\ pc[m] \in {"snapped", "sent"} => epochAt[m] > 0
         /\ pc[m] = "sent" => sends[m] > 1
    /\ result[m] = "forbidden" => reauthed[m] /\ epochAt[m] > 0 /\ sends[m] > 1

IInv == TypeOK /\ Budget /\ MutexAndHandshake /\ Epochs /\ Retried

-----------------------------------------------------------------------------
(* The two frames of a request are different, and no other request's; only *)
(* the handshake's is marked withSkipReauth.                               *)
LEMMA FrameFacts ==
  /\ \A r \in Requests :
       /\ Main(r) \in Frames /\ Owner(Main(r)) = r /\ ~isReauthSkipped(Main(r))
       /\ Shake(r) \in Frames /\ Owner(Shake(r)) = r /\ isReauthSkipped(Shake(r))
  /\ \A r, q \in Requests :
       /\ Main(r) # Shake(q)
       /\ Main(r) = Main(q) => r = q
       /\ Shake(r) = Shake(q) => r = q
  /\ \A f \in Frames :
       Owner(f) \in Requests /\ (f = Main(Owner(f)) \/ f = Shake(Owner(f)))
BY DEF Main, Shake, Owner, Frames, isReauthSkipped

(* What a step can be, with the actions of a frame apart from those of a   *)
(* request.                                                                *)
LEMMA StepCases ==
  ASSUME [Next]_vars
  PROVE  \/ \E f \in Frames :
              \/ BodyFails(f) \/ WaitFails(f) \/ Snapshot(f) \/ Transmit(f) \/ Backoff(f)
              \/ NetworkError(f) \/ Busy(f) \/ Forbidden(f)
         \/ \E r \in Requests :
              \/ Call(r) \/ Answer(r) \/ ShareRefresh(r) \/ BeginRefresh(r)
              \/ ShakeAnswer(r) \/ StoreCookies(r) \/ RefreshSucceeds(r)
              \/ RefreshFails(r) \/ Cancel(r)
         \/ \E r \in Requests :
              \E s \in {"start", "existent", "login"} : NextStep(r, s)
         \/ \E s : Expire(s)
         \/ UNCHANGED vars
BY FrameFacts DEF Next, Progress, Loop, Handshake, AllReturned

(* Every step preserves the types. *)
LEMMA TypeStep ==
  IInv /\ [Next]_vars => TypeOK'
<1> SUFFICES ASSUME IInv, [Next]_vars PROVE TypeOK'
  OBVIOUS
<1> USE FrameFacts, TransportAssumption DEF IInv, TypeOK, Places, Results, Steps, loopVars, gateVars, headerVars, serverVars
<1>0. ASSUME NEW f \in Frames, BodyFails(f) PROVE TypeOK'
  BY <1>0 DEF BodyFails, Return
<1>1. ASSUME NEW f \in Frames, WaitFails(f) PROVE TypeOK'
  BY <1>1 DEF WaitFails, Return
<1>2. ASSUME NEW f \in Frames, Snapshot(f) PROVE TypeOK'
  BY <1>2 DEF Snapshot
<1>3. ASSUME NEW f \in Frames, Transmit(f) PROVE TypeOK'
  <2>1. sentAt' \in [Requests -> Nat] /\ xsrf' \in [Requests -> Nat]
    <3>1. CASE f = Main(Owner(f))
      BY <1>3, <3>1 DEF Transmit
    <3>2. CASE f # Main(Owner(f))
      BY <1>3, <3>2 DEF Transmit
    <3> QED
      BY <3>1, <3>2
  <2>2. pc' \in [Frames -> Places] /\ sends' \in [Frames -> Nat]
    BY <1>3 DEF Transmit
  <2> QED
    BY <2>1, <2>2, <1>3 DEF Transmit
<1>4. ASSUME NEW f \in Frames, Backoff(f) PROVE TypeOK'
  BY <1>4 DEF Backoff, Budget
<1>5. ASSUME NEW f \in Frames, NetworkError(f) PROVE TypeOK'
  BY <1>5 DEF NetworkError, Unavailable, ShouldRetry, Return
<1>6. ASSUME NEW f \in Frames, Busy(f) PROVE TypeOK'
  BY <1>6 DEF Busy, Unavailable, ShouldRetry, Return
<1>7. ASSUME NEW f \in Frames, Forbidden(f) PROVE TypeOK'
  BY <1>7 DEF Forbidden, Return
<1>8. ASSUME NEW r \in Requests, Call(r) PROVE TypeOK'
  BY <1>8 DEF Call
<1>9. ASSUME NEW r \in Requests, Answer(r) PROVE TypeOK'
  BY <1>9 DEF Answer, Return
<1>10. ASSUME NEW r \in Requests, ShareRefresh(r) PROVE TypeOK'
  BY <1>10 DEF ShareRefresh, SameEpoch
<1>11. ASSUME NEW r \in Requests, BeginRefresh(r) PROVE TypeOK'
  BY <1>11 DEF BeginRefresh, SameEpoch
<1>12. ASSUME NEW r \in Requests, ShakeAnswer(r) PROVE TypeOK'
  <2>1. issued' \in Nat /\ issued + 1 \in Nat /\ carried' \in [Requests -> Nat]
    BY <1>12 DEF ShakeAnswer
  <2>2. live' = live \/ live' = live \cup {issued + 1}
    BY <1>12 DEF ShakeAnswer
  <2>3. live' \subseteq Nat
    BY <2>1, <2>2
  <2> QED
    BY <2>1, <2>3, <1>12 DEF ShakeAnswer, Return
<1>13. ASSUME NEW r \in Requests, StoreCookies(r) PROVE TypeOK'
  BY <1>13 DEF StoreCookies, DropFrame
<1>14. ASSUME NEW r \in Requests, RefreshSucceeds(r) PROVE TypeOK'
  <2>1. reauthEpoch' \in Nat /\ step' \in [Requests -> Steps]
    BY <1>14 DEF RefreshSucceeds
  <2>2. pc' \in [Frames -> Places]
    BY <1>14 DEF RefreshSucceeds
  <2>3. cookie[r] \in Nat /\ renewed' = renewed \cup {cookie[r]}
    BY <1>14 DEF RefreshSucceeds
  <2>4. renewed' \subseteq Nat
    BY <2>3
  <2> QED
    BY <2>1, <2>2, <2>4, <1>14 DEF RefreshSucceeds
<1>15. ASSUME NEW r \in Requests, RefreshFails(r) PROVE TypeOK'
  <2>1. /\ attempt' \in [Frames -> 0..MaxAttempts]
        /\ epochAt' \in [Frames -> Nat] /\ sends' \in [Frames -> Nat]
    BY <1>15 DEF RefreshFails, DropFrame
  <2>2. /\ pc' \in [Frames -> Places] /\ result' \in [Frames -> Results]
        /\ step' \in [Requests -> Steps] /\ reauthMu' \in Requests \cup {NoOne}
    BY <1>15 DEF RefreshFails
  <2> QED
    BY <2>1, <2>2, <1>15 DEF RefreshFails
<1>16. ASSUME NEW r \in Requests, Cancel(r) PROVE TypeOK'
  BY <1>16 DEF Cancel
<1>17. ASSUME NEW r \in Requests, NEW s \in {"start", "existent", "login"},
              NextStep(r, s)
       PROVE  TypeOK'
  BY <1>17 DEF NextStep, Follows, DropFrame
<1>18. ASSUME NEW s, Expire(s) PROVE TypeOK'
  BY <1>18 DEF Expire
<1>19. CASE UNCHANGED vars
  BY <1>19 DEF vars
<1> QED
  BY <1>0, <1>1, <1>2, <1>3, <1>4, <1>5, <1>6, <1>7, <1>8, <1>9, <1>10, <1>11, <1>12, <1>13, <1>14, <1>15, <1>16, <1>17, <1>18, <1>19,
     StepCases

(* Every step keeps the send budget. *)
LEMMA BudgetStep ==
  IInv /\ [Next]_vars => Budget'
<1> SUFFICES ASSUME IInv, [Next]_vars PROVE Budget'
  OBVIOUS
<1> USE FrameFacts, TransportAssumption DEF IInv, TypeOK, Budget, MutexAndHandshake, Extra, loopVars, gateVars, headerVars, serverVars
<1>0. ASSUME NEW f \in Frames, BodyFails(f) PROVE Budget'
  BY <1>0 DEF BodyFails, Return
<1>1. ASSUME NEW f \in Frames, WaitFails(f) PROVE Budget'
  BY <1>1 DEF WaitFails, Return
<1>2. ASSUME NEW f \in Frames, Snapshot(f) PROVE Budget'
  BY <1>2 DEF Snapshot
<1>3. ASSUME NEW f \in Frames, Transmit(f) PROVE Budget'
  BY <1>3 DEF Transmit
<1>4. ASSUME NEW f \in Frames, Backoff(f) PROVE Budget'
  BY <1>4 DEF Backoff
<1>5. ASSUME NEW f \in Frames, NetworkError(f) PROVE Budget'
  BY <1>5 DEF NetworkError, Unavailable, ShouldRetry, Return
<1>6. ASSUME NEW f \in Frames, Busy(f) PROVE Budget'
  BY <1>6 DEF Busy, Unavailable, ShouldRetry, Return
<1>7. ASSUME NEW f \in Frames, Forbidden(f) PROVE Budget'
  BY <1>7 DEF Forbidden, Return
<1>8. ASSUME NEW r \in Requests, Call(r) PROVE Budget'
  BY <1>8 DEF Call
<1>9. ASSUME NEW r \in Requests, Answer(r) PROVE Budget'
  BY <1>9 DEF Answer, Return
<1>10. ASSUME NEW r \in Requests, ShareRefresh(r) PROVE Budget'
  BY <1>10 DEF ShareRefresh, SameEpoch
<1>11. ASSUME NEW r \in Requests, BeginRefresh(r) PROVE Budget'
  BY <1>11 DEF BeginRefresh, SameEpoch
<1>12. ASSUME NEW r \in Requests, ShakeAnswer(r) PROVE Budget'
  BY <1>12 DEF ShakeAnswer, Return
<1>13. ASSUME NEW r \in Requests, StoreCookies(r) PROVE Budget'
  BY <1>13 DEF StoreCookies, DropFrame
<1>14. ASSUME NEW r \in Requests, RefreshSucceeds(r) PROVE Budget'
  BY <1>14 DEF RefreshSucceeds
<1>15. ASSUME NEW r \in Requests, RefreshFails(r) PROVE Budget'
  BY <1>15 DEF RefreshFails, LoginFailed, DropFrame
<1>16. ASSUME NEW r \in Requests, Cancel(r) PROVE Budget'
  BY <1>16 DEF Cancel
<1>17. ASSUME NEW r \in Requests, NEW s \in {"start", "existent", "login"},
              NextStep(r, s)
       PROVE  Budget'
  BY <1>17 DEF NextStep, Follows, DropFrame
<1>18. ASSUME NEW s, Expire(s) PROVE Budget'
  BY <1>18 DEF Expire
<1>19. CASE UNCHANGED vars
  BY <1>19 DEF vars
<1> QED
  BY <1>0, <1>1, <1>2, <1>3, <1>4, <1>5, <1>6, <1>7, <1>8, <1>9, <1>10, <1>11, <1>12, <1>13, <1>14, <1>15, <1>16, <1>17, <1>18, <1>19,
     StepCases

(* Every step keeps the mutex, its owner and the handshake together. *)
LEMMA MutexStep ==
  IInv /\ [Next]_vars => MutexAndHandshake'
<1> SUFFICES ASSUME IInv, [Next]_vars PROVE MutexAndHandshake'
  OBVIOUS
<1> USE FrameFacts, TransportAssumption DEF IInv, TypeOK, MutexAndHandshake, loopVars, gateVars, headerVars, serverVars
<1>0. ASSUME NEW f \in Frames, BodyFails(f) PROVE MutexAndHandshake'
  BY <1>0 DEF BodyFails, Return
<1>1. ASSUME NEW f \in Frames, WaitFails(f) PROVE MutexAndHandshake'
  BY <1>1 DEF WaitFails, Return
<1>2. ASSUME NEW f \in Frames, Snapshot(f) PROVE MutexAndHandshake'
  BY <1>2 DEF Snapshot
<1>3. ASSUME NEW f \in Frames, Transmit(f) PROVE MutexAndHandshake'
  BY <1>3 DEF Transmit
<1>4. ASSUME NEW f \in Frames, Backoff(f) PROVE MutexAndHandshake'
  BY <1>4 DEF Backoff
<1>5. ASSUME NEW f \in Frames, NetworkError(f) PROVE MutexAndHandshake'
  BY <1>5 DEF NetworkError, Unavailable, ShouldRetry, Return
<1>6. ASSUME NEW f \in Frames, Busy(f) PROVE MutexAndHandshake'
  BY <1>6 DEF Busy, Unavailable, ShouldRetry, Return
<1>7. ASSUME NEW f \in Frames, Forbidden(f) PROVE MutexAndHandshake'
  BY <1>7 DEF Forbidden, Return
<1>8. ASSUME NEW r \in Requests, Call(r) PROVE MutexAndHandshake'
  BY <1>8 DEF Call
<1>9. ASSUME NEW r \in Requests, Answer(r) PROVE MutexAndHandshake'
  BY <1>9 DEF Answer, Return
<1>10. ASSUME NEW r \in Requests, ShareRefresh(r) PROVE MutexAndHandshake'
  BY <1>10 DEF ShareRefresh, SameEpoch
<1>11. ASSUME NEW r \in Requests, BeginRefresh(r) PROVE MutexAndHandshake'
  BY <1>11 DEF BeginRefresh, SameEpoch
<1>12. ASSUME NEW r \in Requests, ShakeAnswer(r) PROVE MutexAndHandshake'
  BY <1>12 DEF ShakeAnswer, Return
<1>13. ASSUME NEW r \in Requests, StoreCookies(r) PROVE MutexAndHandshake'
  BY <1>13 DEF StoreCookies, DropFrame
<1>14. ASSUME NEW r \in Requests, RefreshSucceeds(r) PROVE MutexAndHandshake'
  BY <1>14 DEF RefreshSucceeds
<1>15. ASSUME NEW r \in Requests, RefreshFails(r) PROVE MutexAndHandshake'
  BY <1>15 DEF RefreshFails, LoginFailed, DropFrame
<1>16. ASSUME NEW r \in Requests, Cancel(r) PROVE MutexAndHandshake'
  BY <1>16 DEF Cancel
<1>17. ASSUME NEW r \in Requests, NEW s \in {"start", "existent", "login"},
              NextStep(r, s)
       PROVE  MutexAndHandshake'
  BY <1>17 DEF NextStep, Follows, DropFrame
<1>18. ASSUME NEW s, Expire(s) PROVE MutexAndHandshake'
  BY <1>18 DEF Expire
<1>19. CASE UNCHANGED vars
  BY <1>19 DEF vars
<1> QED
  BY <1>0, <1>1, <1>2, <1>3, <1>4, <1>5, <1>6, <1>7, <1>8, <1>9, <1>10, <1>11, <1>12, <1>13, <1>14, <1>15, <1>16, <1>17, <1>18, <1>19,
     StepCases

(* Every step keeps the snapshots behind the epoch. *)
LEMMA EpochsStep ==
  IInv /\ [Next]_vars => Epochs'
<1> SUFFICES ASSUME IInv, [Next]_vars PROVE Epochs'
  OBVIOUS
<1> USE FrameFacts, TransportAssumption DEF IInv, TypeOK, MutexAndHandshake, Epochs, loopVars, gateVars, headerVars, serverVars
<1>0. ASSUME NEW f \in Frames, BodyFails(f) PROVE Epochs'
  BY <1>0 DEF BodyFails, Return
<1>1. ASSUME NEW f \in Frames, WaitFails(f) PROVE Epochs'
  BY <1>1 DEF WaitFails, Return
<1>2. ASSUME NEW f \in Frames, Snapshot(f) PROVE Epochs'
  BY <1>2 DEF Snapshot
<1>3. ASSUME NEW f \in Frames, Transmit(f) PROVE Epochs'
  BY <1>3 DEF Transmit
<1>4. ASSUME NEW f \in Frames, Backoff(f) PROVE Epochs'
  BY <1>4 DEF Backoff
<1>5. ASSUME NEW f \in Frames, NetworkError(f) PROVE Epochs'
  BY <1>5 DEF NetworkError, Unavailable, ShouldRetry, Return
<1>6. ASSUME NEW f \in Frames, Busy(f) PROVE Epochs'
  BY <1>6 DEF Busy, Unavailable, ShouldRetry, Return
<1>7. ASSUME NEW f \in Frames, Forbidden(f) PROVE Epochs'
  BY <1>7 DEF Forbidden, Return
<1>8. ASSUME NEW r \in Requests, Call(r) PROVE Epochs'
  BY <1>8 DEF Call
<1>9. ASSUME NEW r \in Requests, Answer(r) PROVE Epochs'
  BY <1>9 DEF Answer, Return
<1>10. ASSUME NEW r \in Requests, ShareRefresh(r) PROVE Epochs'
  BY <1>10 DEF ShareRefresh, SameEpoch
<1>11. ASSUME NEW r \in Requests, BeginRefresh(r) PROVE Epochs'
  BY <1>11 DEF BeginRefresh, SameEpoch
<1>12. ASSUME NEW r \in Requests, ShakeAnswer(r) PROVE Epochs'
  BY <1>12 DEF ShakeAnswer, Return
<1>13. ASSUME NEW r \in Requests, StoreCookies(r) PROVE Epochs'
  BY <1>13 DEF StoreCookies, DropFrame
<1>14. ASSUME NEW r \in Requests, RefreshSucceeds(r) PROVE Epochs'
  BY <1>14 DEF RefreshSucceeds
<1>15. ASSUME NEW r \in Requests, RefreshFails(r) PROVE Epochs'
  BY <1>15 DEF RefreshFails, LoginFailed, DropFrame
<1>16. ASSUME NEW r \in Requests, Cancel(r) PROVE Epochs'
  BY <1>16 DEF Cancel
<1>17. ASSUME NEW r \in Requests, NEW s \in {"start", "existent", "login"},
              NextStep(r, s)
       PROVE  Epochs'
  BY <1>17 DEF NextStep, Follows, DropFrame
<1>18. ASSUME NEW s, Expire(s) PROVE Epochs'
  BY <1>18 DEF Expire
<1>19. CASE UNCHANGED vars
  BY <1>19 DEF vars
<1> QED
  BY <1>0, <1>1, <1>2, <1>3, <1>4, <1>5, <1>6, <1>7, <1>8, <1>9, <1>10, <1>11, <1>12, <1>13, <1>14, <1>15, <1>16, <1>17, <1>18, <1>19,
     StepCases

(* A request is sent again only after a refresh. *)
LEMMA RetriedStep ==
  IInv /\ [Next]_vars => Retried'
<1> SUFFICES ASSUME IInv, [Next]_vars PROVE Retried'
  OBVIOUS
<1> USE FrameFacts, TransportAssumption DEF IInv, TypeOK, Budget, MutexAndHandshake, Epochs, Retried, loopVars, gateVars, headerVars, serverVars
<1>0. ASSUME NEW f \in Frames, BodyFails(f) PROVE Retried'
  BY <1>0 DEF BodyFails, Return
<1>1. ASSUME NEW f \in Frames, WaitFails(f) PROVE Retried'
  BY <1>1 DEF WaitFails, Return
<1>2. ASSUME NEW f \in Frames, Snapshot(f) PROVE Retried'
  BY <1>2 DEF Snapshot
<1>3. ASSUME NEW f \in Frames, Transmit(f) PROVE Retried'
  BY <1>3 DEF Transmit
<1>4. ASSUME NEW f \in Frames, Backoff(f) PROVE Retried'
  BY <1>4 DEF Backoff
<1>5. ASSUME NEW f \in Frames, NetworkError(f) PROVE Retried'
  BY <1>5 DEF NetworkError, Unavailable, ShouldRetry, Return
<1>6. ASSUME NEW f \in Frames, Busy(f) PROVE Retried'
  BY <1>6 DEF Busy, Unavailable, ShouldRetry, Return
<1>7. ASSUME NEW f \in Frames, Forbidden(f) PROVE Retried'
  BY <1>7 DEF Forbidden, Return
<1>8. ASSUME NEW r \in Requests, Call(r) PROVE Retried'
  BY <1>8 DEF Call
<1>9. ASSUME NEW r \in Requests, Answer(r) PROVE Retried'
  BY <1>9 DEF Answer, Return
<1>10. ASSUME NEW r \in Requests, ShareRefresh(r) PROVE Retried'
  BY <1>10 DEF ShareRefresh, SameEpoch
<1>11. ASSUME NEW r \in Requests, BeginRefresh(r) PROVE Retried'
  BY <1>11 DEF BeginRefresh, SameEpoch
<1>12. ASSUME NEW r \in Requests, ShakeAnswer(r) PROVE Retried'
  BY <1>12 DEF ShakeAnswer, Return
<1>13. ASSUME NEW r \in Requests, StoreCookies(r) PROVE Retried'
  BY <1>13 DEF StoreCookies, DropFrame
<1>14. ASSUME NEW r \in Requests, RefreshSucceeds(r) PROVE Retried'
  BY <1>14 DEF RefreshSucceeds
<1>15. ASSUME NEW r \in Requests, RefreshFails(r) PROVE Retried'
  BY <1>15 DEF RefreshFails, LoginFailed, DropFrame
<1>16. ASSUME NEW r \in Requests, Cancel(r) PROVE Retried'
  BY <1>16 DEF Cancel
<1>17. ASSUME NEW r \in Requests, NEW s \in {"start", "existent", "login"},
              NextStep(r, s)
       PROVE  Retried'
  BY <1>17 DEF NextStep, Follows, DropFrame
<1>18. ASSUME NEW s, Expire(s) PROVE Retried'
  BY <1>18 DEF Expire
<1>19. CASE UNCHANGED vars
  BY <1>19 DEF vars
<1> QED
  BY <1>0, <1>1, <1>2, <1>3, <1>4, <1>5, <1>6, <1>7, <1>8, <1>9, <1>10, <1>11, <1>12, <1>13, <1>14, <1>15, <1>16, <1>17, <1>18, <1>19,
     StepCases

(* IInv is an invariant of every instance. *)
THEOREM Invariance == Spec => []IInv
<1>1. Init => IInv
  BY FrameFacts, TransportAssumption
  DEF Init, IInv, TypeOK, Places, Results, Steps, Budget, Extra,
      MutexAndHandshake, Epochs, Retried
<1>2. IInv /\ [Next]_vars => IInv'
  BY TypeStep, BudgetStep, MutexStep, EpochsStep, RetriedStep DEF IInv
<1> QED
  BY <1>1, <1>2, PTL DEF Spec

(* The variables keep their types whatever the number of requests, the     *)
(* backoff budget and the sessions the server expires.                     *)
THEOREM TypeCorrect == Spec => []TypeOK
<1>1. IInv => TypeOK
  BY DEF IInv
<1> QED
  BY <1>1, Invariance, PTL

(* No RoundTrip, of a caller or of a handshake, sends its request more     *)
(* than MaxAttempts + 1 times, plus once after a 403.                      *)
THEOREM SendBudget == Spec => []SendsBounded
<1>1. IInv => SendsBounded
  BY DEF IInv, Budget, Extra, SendsBounded
<1> QED
  BY <1>1, Invariance, PTL

(* reauthenticate runs in one goroutine at a time, for the epoch of its    *)
(* own refused attempt.                                                    *)
THEOREM ExclusiveRefresh == Spec => []RefreshesCurrentEpoch
<1>1. IInv => RefreshesCurrentEpoch
  BY DEF IInv, MutexAndHandshake, Epochs, RefreshesCurrentEpoch
<1> QED
  BY <1>1, Invariance, PTL

(* Whoever refreshes sent its refused attempt after the last refresh       *)
(* succeeded: a refresh that succeeds serves every request in flight.      *)
THEOREM RefreshServesInFlight == Spec => []InFlightShareRefresh
<1>1. IInv => InFlightShareRefresh
  BY DEF IInv, TypeOK, Epochs, InFlightShareRefresh
<1> QED
  BY <1>1, Invariance, PTL

(* A caller sees a 403 only of a request sent again after a refresh.       *)
THEOREM ForbiddenIsFinal == Spec => []ForbiddenOnlyAfterRetry
<1>1. IInv => ForbiddenOnlyAfterRetry
  BY DEF IInv, Retried, ForbiddenOnlyAfterRetry
<1> QED
  BY <1>1, Invariance, PTL

-----------------------------------------------------------------------------
(* A function that differs from another one at one place. *)
LEMMA UpdateAt ==
  ASSUME NEW S, NEW g, NEW h, NEW r \in S, NEW v,
         g = [q \in S |-> g[q]], h = [q \in S |-> h[q]],
         \A q \in S : h[q] = IF q = r THEN v ELSE g[q]
  PROVE  h = [g EXCEPT ![r] = v]
OBVIOUS

(* Transport implements ReauthGate: an attempt's snapshot is the gate's    *)
(* Attempt, a first 403 its Refuse, the three ways through the mutex its   *)
(* Share, Succeed and Fail; every other step leaves the gate alone.        *)
LEMMA GateStep ==
  IInv /\ [Next]_vars => [Gate!Next]_Gate!vars
<1> SUFFICES ASSUME IInv, [Next]_vars PROVE [Gate!Next]_Gate!vars
  OBVIOUS
<1> USE FrameFacts, TransportAssumption
    DEF IInv, TypeOK, MutexAndHandshake, Epochs, Retried, Turn, Gate!Next, Gate!vars,
        loopVars, gateVars, headerVars, serverVars
<1> DEFINE seen == [r \in Requests |-> epochAt[Main(r)]]
           turn == [r \in Requests |-> Turn(r)]
<1>a. /\ seen = [r \in Requests |-> seen[r]] /\ seen' = [r \in Requests |-> seen'[r]]
      /\ turn = [r \in Requests |-> turn[r]] /\ turn' = [r \in Requests |-> turn'[r]]
  OBVIOUS
<1>0. ASSUME NEW f \in Frames, BodyFails(f) PROVE [Gate!Next]_Gate!vars
  BY <1>0 DEF BodyFails, Return
<1>1. ASSUME NEW f \in Frames, WaitFails(f) PROVE [Gate!Next]_Gate!vars
  BY <1>1 DEF WaitFails, Return
<1>2. ASSUME NEW f \in Frames, Snapshot(f) PROVE [Gate!Next]_Gate!vars
  <2>1. CASE f = Main(Owner(f))
    <3> DEFINE r == Owner(f)
    <3>1. Turn(r) \in {"trying", "renewed"} /\ turn' = turn
      BY <1>2, <2>1 DEF Snapshot
    <3>2. \A q \in Requests : seen'[q] = IF q = r THEN reauthEpoch ELSE seen[q]
      BY <1>2, <2>1 DEF Snapshot
    <3>3. seen' = [seen EXCEPT ![r] = reauthEpoch]
      <4> HIDE DEF seen, r
      <4> QED
        BY <3>2, <1>a, UpdateAt
    <3> QED
      BY <1>2, <2>1, <3>1, <3>3 DEF Snapshot, Gate!Attempt
  <2>2. CASE f = Shake(Owner(f))
    BY <1>2, <2>2 DEF Snapshot
  <2> QED
    BY <2>1, <2>2
<1>3. ASSUME NEW f \in Frames, Transmit(f) PROVE [Gate!Next]_Gate!vars
  BY <1>3 DEF Transmit
<1>4. ASSUME NEW f \in Frames, Backoff(f) PROVE [Gate!Next]_Gate!vars
  BY <1>4 DEF Backoff
<1>5. ASSUME NEW f \in Frames, NetworkError(f) PROVE [Gate!Next]_Gate!vars
  BY <1>5 DEF NetworkError, Unavailable, Return
<1>6. ASSUME NEW f \in Frames, Busy(f) PROVE [Gate!Next]_Gate!vars
  BY <1>6 DEF Busy, Unavailable, Return
<1>7. ASSUME NEW f \in Frames, Forbidden(f) PROVE [Gate!Next]_Gate!vars
  <2>1. CASE f = Main(Owner(f)) /\ ~reauthed[f]
    <3> DEFINE r == Owner(f)
    <3>1. turn[r] = "trying"
      BY <1>7, <2>1 DEF Forbidden
    <3>2. \A q \in Requests : turn'[q] = IF q = r THEN "refused" ELSE turn[q]
      BY <1>7, <2>1 DEF Forbidden
    <3>3. turn' = [turn EXCEPT ![r] = "refused"]
      <4> HIDE DEF turn, r
      <4> QED
        BY <3>2, <1>a, UpdateAt
    <3>4. seen' = seen
      BY <1>7 DEF Forbidden
    <3> QED
      BY <1>7, <2>1, <3>1, <3>3, <3>4 DEF Forbidden, Gate!Refuse
  <2>2. CASE f = Main(Owner(f)) /\ reauthed[f]
    BY <1>7, <2>2 DEF Forbidden, Return
  <2>3. CASE f = Shake(Owner(f))
    BY <1>7, <2>3 DEF Forbidden, Return
  <2> QED
    BY <2>1, <2>2, <2>3
<1>8. ASSUME NEW r \in Requests, Call(r) PROVE [Gate!Next]_Gate!vars
  BY <1>8 DEF Call
<1>9. ASSUME NEW r \in Requests, Answer(r) PROVE [Gate!Next]_Gate!vars
  BY <1>9 DEF Answer, Return
<1>10. ASSUME NEW r \in Requests, ShareRefresh(r) PROVE [Gate!Next]_Gate!vars
  BY <1>10 DEF ShareRefresh, SameEpoch, Gate!Share
<1>11. ASSUME NEW r \in Requests, BeginRefresh(r) PROVE [Gate!Next]_Gate!vars
  <2>1. turn[r] = "refused"
    BY <1>11 DEF BeginRefresh, SameEpoch
  <2>2. \A q \in Requests : turn'[q] = IF q = r THEN "refreshing" ELSE turn[q]
    BY <1>11 DEF BeginRefresh, SameEpoch
  <2>3. turn' = [turn EXCEPT ![r] = "refreshing"]
    <3> HIDE DEF turn
    <3> QED
      BY <2>2, <1>a, UpdateAt
  <2>4. seen' = seen
    BY <1>11 DEF BeginRefresh, SameEpoch
  <2> QED
    BY <1>11, <2>1, <2>3, <2>4 DEF BeginRefresh, SameEpoch, Gate!Begin
<1>12. ASSUME NEW r \in Requests, ShakeAnswer(r) PROVE [Gate!Next]_Gate!vars
  BY <1>12 DEF ShakeAnswer, Return
<1>13. ASSUME NEW r \in Requests, StoreCookies(r) PROVE [Gate!Next]_Gate!vars
  BY <1>13 DEF StoreCookies, DropFrame
<1>14. ASSUME NEW r \in Requests, RefreshSucceeds(r) PROVE [Gate!Next]_Gate!vars
  <2>1. turn[r] = "refreshing"
    BY <1>14 DEF RefreshSucceeds
  <2>2. \A q \in Requests : turn'[q] = IF q = r THEN "renewed" ELSE turn[q]
    BY <1>14 DEF RefreshSucceeds, Budget
  <2>3. turn' = [turn EXCEPT ![r] = "renewed"]
    <3> HIDE DEF turn
    <3> QED
      BY <2>2, <1>a, UpdateAt
  <2>4. seen' = seen
    BY <1>14 DEF RefreshSucceeds
  <2> QED
    BY <1>14, <2>1, <2>3, <2>4 DEF RefreshSucceeds, Gate!Succeed
<1>15. ASSUME NEW r \in Requests, RefreshFails(r) PROVE [Gate!Next]_Gate!vars
  <2>1. turn[r] = "refreshing"
    BY <1>15 DEF RefreshFails, LoginFailed, DropFrame
  <2>2. \A q \in Requests : turn'[q] = IF q = r THEN "failed" ELSE turn[q]
    BY <1>15 DEF RefreshFails, LoginFailed, DropFrame
  <2>3. turn' = [turn EXCEPT ![r] = "failed"]
    <3> HIDE DEF turn
    <3> QED
      BY <2>2, <1>a, UpdateAt
  <2>4. seen' = seen
    BY <1>15 DEF RefreshFails, LoginFailed, DropFrame
  <2> QED
    BY <1>15, <2>1, <2>3, <2>4 DEF RefreshFails, LoginFailed, DropFrame, Gate!Fail
<1>16. ASSUME NEW r \in Requests, Cancel(r) PROVE [Gate!Next]_Gate!vars
  BY <1>16 DEF Cancel
<1>17. ASSUME NEW r \in Requests, NEW s \in {"start", "existent", "login"},
              NextStep(r, s)
       PROVE  [Gate!Next]_Gate!vars
  BY <1>17 DEF NextStep, DropFrame
<1>18. ASSUME NEW s, Expire(s) PROVE [Gate!Next]_Gate!vars
  BY <1>18 DEF Expire
<1>19. CASE UNCHANGED vars
  BY <1>19 DEF vars
<1> QED
  BY <1>0, <1>1, <1>2, <1>3, <1>4, <1>5, <1>6, <1>7, <1>8, <1>9, <1>10, <1>11, <1>12, <1>13, <1>14, <1>15, <1>16, <1>17, <1>18, <1>19,
     StepCases

(* Every behaviour of the transport, seen through the refinement mapping,  *)
(* is one of the gate: RoundTrip's 403 branch keeps the gate's promise     *)
(* whatever else the transport does.                                       *)
THEOREM ImplementsGate == Spec => GateSpec
<1>1. Init => Gate!Init
  BY FrameFacts DEF Init, Gate!Init, Turn
<1>2. IInv /\ [Next]_vars => [Gate!Next]_Gate!vars
  BY GateStep
<1> QED
  BY <1>1, <1>2, Invariance, PTL DEF Spec, GateSpec, Gate!Spec

-----------------------------------------------------------------------------
(* Termination, as far as it is safety: how many steps a call has left.    *)

(* The steps a frame has left in the place where it is; a sleep comes      *)
(* before one attempt more.                                                *)
Ahead(place) ==
  CASE place = "wait"    -> 4
    [] place = "snapped" -> 3
    [] place = "sent"    -> 2
    [] place = "back"    -> 1
    [] OTHER             -> 0

(* Each attempt that is left costs the four steps of the loop once more.   *)
Rounds(f) ==
  IF pc[f] \in {"off", "done"} THEN 0
  ELSE 4 * (MaxAttempts - attempt[f]) + Ahead(pc[f])

(* More than one request of the handshake takes.                           *)
OneRequest == 4 * MaxAttempts + 5

(* What is left of reauthenticate after its current request.               *)
After(s) ==
  CASE s = "token"     -> 6 * OneRequest
    [] s = "saveToken" -> 5 * OneRequest
    [] s = "start"     -> 4 * OneRequest
    [] s = "existent"  -> 3 * OneRequest
    [] s = "login"     -> 2 * OneRequest
    [] s = "saveLogin" -> OneRequest
    [] OTHER           -> 0

(* The 403 branch: before it, at the mutex, and behind it.                 *)
Branch(r) ==
  IF pc[Main(r)] = "lock" THEN 7 * OneRequest + 6
  ELSE IF pc[Main(r)] = "hold" THEN 5
  ELSE IF reauthed[Main(r)] THEN 0
  ELSE 7 * OneRequest + 5

(* At most this many steps has the call of r left.                         *)
Left(r) ==
  IF pc[Main(r)] \in {"off", "done"} THEN 0
  ELSE Rounds(Main(r)) + Branch(r) + After(step[r]) + Rounds(Shake(r))

(* A call's own steps use up what it has left, and no other step touches   *)
(* that.                                                                   *)
CallsEnd ==
  /\ [](\A r \in Requests : Left(r) \in 0..(32 * MaxAttempts + 44))
  /\ [][\A r \in Requests :
          /\ Progress(r) => Left(r)' < Left(r)
          /\ ~Call(r) /\ ~Progress(r) => Left(r)' = Left(r)]_vars

(* The loop's rank is a number below that of one request. *)
LEMMA RoundsRange ==
  ASSUME NEW place, NEW a \in 0..MaxAttempts
  PROVE  (IF place \in {"off", "done"} THEN 0
          ELSE 4 * (MaxAttempts - a) + Ahead(place)) \in 0..(4 * MaxAttempts + 4)
<1>1. Ahead(place) \in 0..4
  BY DEF Ahead
<1> QED
  BY <1>1, TransportAssumption DEF TransportAssumption

(* The ranks are numbers, and a call begins with at most so many.          *)
LEMMA RankFacts ==
  ASSUME IInv, NEW r \in Requests
  PROVE  /\ Rounds(Main(r)) \in 0..(4 * MaxAttempts + 4)
         /\ Rounds(Shake(r)) \in 0..(4 * MaxAttempts + 4)
         /\ OneRequest \in Nat /\ OneRequest = 4 * MaxAttempts + 5
         /\ After(step[r]) \in 0..(6 * OneRequest)
         /\ Branch(r) \in Nat
         /\ Left(r) \in 0..(32 * MaxAttempts + 44)
<1> USE TransportAssumption, FrameFacts
<1>1. MaxAttempts \in Nat /\ OneRequest = 4 * MaxAttempts + 5 /\ OneRequest \in Nat
  BY DEF OneRequest
<1>2. ASSUME NEW f \in Frames PROVE Rounds(f) \in 0..(4 * MaxAttempts + 4)
  <2>1. attempt[f] \in 0..MaxAttempts
    BY DEF IInv, TypeOK
  <2> QED
    BY <2>1, RoundsRange DEF Rounds
<1>3. After(step[r]) \in 0..(6 * OneRequest)
  BY <1>1 DEF After
<1>4. Branch(r) \in Nat
  BY <1>1 DEF Branch
<1>5. Left(r) \in 0..(32 * MaxAttempts + 44)
  <2>1. CASE pc[Main(r)] \in {"off", "done"}
    BY <1>1, <2>1 DEF Left
  <2>2. CASE pc[Main(r)] = "hold"
    <3>1. Branch(r) = 5
      BY <2>2 DEF Branch
    <3>2. Rounds(Main(r)) \in 0..(4 * MaxAttempts)
      <4>1. attempt[Main(r)] \in 0..MaxAttempts
        BY DEF IInv, TypeOK
      <4> QED
        BY <1>1, <2>2, <4>1 DEF Rounds, Ahead
    <3>3. Rounds(Shake(r)) \in 0..(4 * MaxAttempts + 4)
      BY <1>2
    <3>4. Left(r) = Rounds(Main(r)) + 5 + After(step[r]) + Rounds(Shake(r))
      BY <2>2, <3>1 DEF Left
    <3> HIDE DEF Left
    <3> QED
      BY <1>1, <1>3, <3>2, <3>3, <3>4
  <2>3. CASE pc[Main(r)] \notin {"off", "done", "hold"}
    <3>1. step[r] = "none" /\ pc[Shake(r)] = "off"
      BY <2>3 DEF IInv, TypeOK, Steps, MutexAndHandshake
    <3>2. After(step[r]) = 0 /\ Rounds(Shake(r)) = 0
      BY <3>1 DEF After, Rounds
    <3>3. Rounds(Main(r)) + Branch(r) \in 0..(32 * MaxAttempts + 44)
      <4>1. attempt[Main(r)] \in 0..MaxAttempts
        BY DEF IInv, TypeOK
      <4> QED
        BY <1>1, <2>3, <4>1 DEF Rounds, Ahead, Branch
    <3>4. Left(r) = Rounds(Main(r)) + Branch(r)
      BY <1>1, <1>2, <1>4, <2>3, <3>2 DEF Left
    <3> QED
      BY <3>3, <3>4
  <2> QED
    BY <2>1, <2>2, <2>3
<1> QED
  BY <1>1, <1>2, <1>3, <1>4, <1>5

(* What a step of one request leaves to another one.                       *)
LEMMA OthersStand ==
  ASSUME IInv, NEW q \in Requests, Call(q) \/ Progress(q), NEW r \in Requests, r # q
  PROVE  Left(r)' = Left(r)
<1> USE FrameFacts DEF IInv, TypeOK, loopVars, gateVars, headerVars, serverVars
<1>1. ASSUME NEW f \in Frames, Owner(f) = q, Loop(f)
      PROVE  /\ pc'[Main(r)] = pc[Main(r)] /\ pc'[Shake(r)] = pc[Shake(r)]
             /\ attempt'[Main(r)] = attempt[Main(r)] /\ attempt'[Shake(r)] = attempt[Shake(r)]
             /\ reauthed'[Main(r)] = reauthed[Main(r)] /\ step'[r] = step[r]
  <2>1. f # Main(r) /\ f # Shake(r)
    BY <1>1
  <2> QED
    BY <1>1, <2>1
       DEF Loop, BodyFails, WaitFails, Snapshot, Transmit, Backoff, NetworkError, Busy, Unavailable,
           Forbidden, Return
<1>2. ASSUME Handshake(q)
      PROVE  /\ pc'[Main(r)] = pc[Main(r)] /\ pc'[Shake(r)] = pc[Shake(r)]
             /\ attempt'[Main(r)] = attempt[Main(r)] /\ attempt'[Shake(r)] = attempt[Shake(r)]
             /\ reauthed'[Main(r)] = reauthed[Main(r)] /\ step'[r] = step[r]
  BY <1>2
     DEF Handshake, ShakeAnswer, StoreCookies, RefreshSucceeds, RefreshFails, NextStep,
         DropFrame, Return
<1>3. ASSUME Call(q) \/ Answer(q) \/ ShareRefresh(q) \/ BeginRefresh(q)
      PROVE  /\ pc'[Main(r)] = pc[Main(r)] /\ pc'[Shake(r)] = pc[Shake(r)]
             /\ attempt'[Main(r)] = attempt[Main(r)] /\ attempt'[Shake(r)] = attempt[Shake(r)]
             /\ reauthed'[Main(r)] = reauthed[Main(r)] /\ step'[r] = step[r]
  BY <1>3 DEF Call, Answer, Return, ShareRefresh, BeginRefresh
<1>4. /\ pc'[Main(r)] = pc[Main(r)] /\ pc'[Shake(r)] = pc[Shake(r)]
      /\ attempt'[Main(r)] = attempt[Main(r)] /\ attempt'[Shake(r)] = attempt[Shake(r)]
      /\ reauthed'[Main(r)] = reauthed[Main(r)] /\ step'[r] = step[r]
  BY <1>1, <1>2, <1>3 DEF Progress
<1> QED
  BY <1>4 DEF Left, Rounds, Branch

(* A step of the loop takes one from what its frame has left, but for the  *)
(* 403 that opens the branch.                                              *)
LEMMA LoopCounts ==
  ASSUME IInv, NEW f \in Frames, Loop(f)
  PROVE  /\ \A g \in Frames : g # f => pc'[g] = pc[g]
         /\ \A g \in Frames : g # f => attempt'[g] = attempt[g]
         /\ \A g \in Frames : g # f => reauthed'[g] = reauthed[g]
         /\ pc[f] \notin {"off", "done"} /\ step' = step
         /\ \/ Rounds(f)' < Rounds(f) /\ reauthed' = reauthed /\ pc[f] \notin {"lock", "hold"}
               /\ pc'[f] \notin {"off", "lock", "hold"}
            \/ /\ pc[f] = "sent" /\ pc'[f] = "lock" /\ ~reauthed[f] /\ f = Main(Owner(f))
               /\ attempt' = attempt
<1> USE FrameFacts, TransportAssumption
    DEF IInv, TypeOK, loopVars, gateVars, headerVars, serverVars
<1>1. attempt[f] \in 0..MaxAttempts /\ MaxAttempts \in Nat
  OBVIOUS
<1>0. CASE BodyFails(f)
  BY <1>1, <1>0 DEF BodyFails, Return, Rounds, Ahead
<1>2. CASE WaitFails(f)
  BY <1>1, <1>2 DEF WaitFails, Return, Rounds, Ahead
<1>3. CASE Snapshot(f)
  BY <1>1, <1>3 DEF Snapshot, Rounds, Ahead
<1>4. CASE Transmit(f)
  BY <1>1, <1>4 DEF Transmit, Rounds, Ahead
<1>5. CASE Backoff(f)
  <2>1. attempt[f] + 1 \in 0..MaxAttempts
    BY <1>1, <1>5 DEF Backoff, Budget
  <2>2. pc[f] = "back" /\ pc'[f] = "wait" /\ attempt'[f] = attempt[f] + 1
    BY <1>5 DEF Backoff
  <2>3. Rounds(f) = 4 * (MaxAttempts - attempt[f]) + 1
    BY <2>2 DEF Rounds, Ahead
  <2>4. Rounds(f)' = 4 * (MaxAttempts - (attempt[f] + 1)) + 4
    BY <2>2 DEF Rounds, Ahead
  <2>5. Rounds(f)' < Rounds(f)
    BY <1>1, <2>3, <2>4
  <2> QED
    BY <1>5, <2>2, <2>5 DEF Backoff
<1>6. CASE NetworkError(f) \/ Busy(f)
  BY <1>1, <1>6 DEF NetworkError, Busy, Unavailable, Return, Rounds, Ahead
<1>7. CASE Forbidden(f)
  <2>1. CASE ~reauthed[f] /\ ~isReauthSkipped(f)
    BY <1>7, <2>1 DEF Forbidden
  <2>2. CASE ~(~reauthed[f] /\ ~isReauthSkipped(f))
    BY <1>1, <1>7, <2>2 DEF Forbidden, Return, Rounds, Ahead
  <2> QED
    BY <2>1, <2>2
<1> QED
  BY <1>0, <1>2, <1>3, <1>4, <1>5, <1>6, <1>7 DEF Loop

(* Every step of a goroutine takes at least one from what it has left.     *)
LEMMA ProgressCounts ==
  ASSUME IInv, IInv', NEW r \in Requests, Progress(r)
  PROVE  Left(r)' < Left(r)
<1> USE FrameFacts, TransportAssumption DEF TransportAssumption
<1> DEFINE m == Main(r)
           s == Shake(r)
<1>1. /\ m \in Frames /\ s \in Frames /\ m # s /\ Owner(m) = r /\ Owner(s) = r
      /\ MaxAttempts \in Nat /\ OneRequest \in Nat /\ OneRequest = 4 * MaxAttempts + 5
      /\ \A x : After(x) \in Nat
  BY DEF OneRequest, After
<1>2. \A f \in Frames :
        /\ Rounds(f) \in 0..(4 * MaxAttempts + 4)
        /\ Rounds(f)' \in 0..(4 * MaxAttempts + 4)
  <2>1. \A f \in Frames : attempt[f] \in 0..MaxAttempts /\ attempt'[f] \in 0..MaxAttempts
    BY DEF IInv, TypeOK
  <2> QED
    BY <2>1, RoundsRange DEF Rounds
<1>3. Branch(r) \in Nat /\ Branch(r)' \in Nat
  BY <1>1 DEF Branch
<1>4. /\ pc[s] # "off" => step[r] # "none"
      /\ step[r] # "none" => pc[m] = "hold"
      /\ step[r] \in {"saveToken", "saveLogin"} => pc[s] = "off"
      /\ pc[m] \in {"lock", "hold"} => reauthed[m]
      /\ pc \in [Frames -> Places] /\ reauthed \in [Frames -> BOOLEAN]
      /\ attempt \in [Frames -> 0..MaxAttempts]
      /\ step \in [Requests -> Steps] /\ result \in [Frames -> Results]
  BY DEF IInv, TypeOK, Budget, MutexAndHandshake
(* The whole rank, of a call that runs.  A call that returned has none.    *)
<1>5. /\ pc[m] \notin {"off", "done"} =>
           Left(r) = Rounds(m) + Branch(r) + After(step[r]) + Rounds(s)
      /\ \/ Left(r)' = 0
         \/ Left(r)' = Rounds(m)' + Branch(r)' + After(step'[r]) + Rounds(s)'
  BY DEF Left
<1>6. CASE Loop(m)
  <2>1. /\ pc'[s] = pc[s] /\ attempt'[s] = attempt[s] /\ step' = step
        /\ pc[m] \notin {"off", "done"}
        /\ \/ Rounds(m)' < Rounds(m) /\ reauthed' = reauthed /\ pc[m] \notin {"lock", "hold"}
              /\ pc'[m] \notin {"off", "lock", "hold"}
           \/ pc[m] = "sent" /\ pc'[m] = "lock" /\ ~reauthed[m] /\ attempt' = attempt
    BY <1>1, <1>6, LoopCounts
  <2>2. Rounds(s)' = Rounds(s)
    BY <2>1 DEF Rounds
  <2>3. CASE Rounds(m)' < Rounds(m) /\ Branch(r)' = Branch(r)
    <3> HIDE DEF m, s
    <3> QED
      BY <1>1, <1>2, <1>3, <1>5, <2>1, <2>2, <2>3
  <2>4. CASE pc[m] = "sent" /\ pc'[m] = "lock" /\ ~reauthed[m] /\ attempt' = attempt
    <3>1. Branch(r) = 7 * OneRequest + 5 /\ Branch(r)' = 7 * OneRequest + 6
      BY <2>4 DEF Branch, OneRequest
    <3>2. Rounds(m)' + 2 = Rounds(m)
      BY <1>1, <1>4, <2>4 DEF Rounds, Ahead
    <3> HIDE DEF m, s
    <3> QED
      BY <1>1, <1>2, <1>5, <2>1, <2>2, <3>1, <3>2
  <2> QED
    BY <2>1, <2>3, <2>4 DEF Branch
<1>7. CASE Loop(s)
  <2>1. /\ pc'[m] = pc[m] /\ attempt'[m] = attempt[m] /\ reauthed'[m] = reauthed[m]
        /\ step' = step /\ pc[s] # "off" /\ Rounds(s)' < Rounds(s)
    BY <1>1, <1>7, LoopCounts
  <2>2. pc[m] = "hold" /\ Rounds(m)' = Rounds(m) /\ Branch(r)' = Branch(r)
    BY <1>4, <2>1 DEF Rounds, Branch
  <2> HIDE DEF m, s
  <2> QED
    BY <1>1, <1>2, <1>3, <1>5, <2>1, <2>2
<1>8. CASE Answer(r)
  <2>1. pc[m] = "sent" /\ pc'[m] = "done"
    BY <1>1, <1>4, <1>8 DEF Answer, Return
  <2>2. Rounds(m) > 0 /\ Left(r)' = 0
    BY <1>1, <1>4, <2>1 DEF Rounds, Ahead, Left
  <2> HIDE DEF m, s
  <2> QED
    BY <1>1, <1>2, <1>3, <1>5, <2>1, <2>2
<1>9. CASE ShareRefresh(r)
  <2>1. /\ pc[m] = "lock" /\ pc'[m] = "wait" /\ pc'[s] = pc[s] /\ step' = step
        /\ attempt' = attempt /\ reauthed'[m]
    BY <1>1, <1>4, <1>9 DEF ShareRefresh, loopVars, gateVars
  <2>2. /\ Branch(r) = 7 * OneRequest + 6 /\ Branch(r)' = 0 /\ Rounds(s)' = Rounds(s)
        /\ Rounds(m)' = Rounds(m) + 4
    BY <1>1, <1>4, <2>1 DEF Branch, Rounds, Ahead
  <2> HIDE DEF m, s
  <2> QED
    BY <1>1, <1>2, <1>5, <2>1, <2>2
<1>10. CASE BeginRefresh(r)
  <2>1. /\ pc[m] = "lock" /\ pc'[m] = "hold" /\ step'[r] \in {"token", "start"}
        /\ attempt' = attempt
    BY <1>1, <1>4, <1>10 DEF BeginRefresh
  <2>2. /\ Branch(r) = 7 * OneRequest + 6 /\ Branch(r)' = 5 /\ Rounds(m)' = Rounds(m)
        /\ After(step'[r]) <= 6 * OneRequest
    BY <1>1, <1>4, <2>1 DEF Branch, Rounds, Ahead, After
  <2> HIDE DEF m, s
  <2> QED
    BY <1>1, <1>2, <1>5, <2>1, <2>2
(* The handshake: its goroutine stands at hold.                            *)
<1>11. CASE ShakeAnswer(r)
  <2>1. /\ pc[s] = "sent" /\ pc'[s] = "done" /\ pc'[m] = pc[m] /\ step' = step
        /\ attempt' = attempt /\ reauthed' = reauthed
    BY <1>1, <1>4, <1>11 DEF ShakeAnswer, Return
  <2>2. /\ pc[m] = "hold" /\ Rounds(m)' = Rounds(m) /\ Branch(r)' = Branch(r)
        /\ Rounds(s) > 0 /\ Rounds(s)' = 0
    BY <1>1, <1>4, <2>1 DEF Branch, Rounds, Ahead
  <2> HIDE DEF m, s
  <2> QED
    BY <1>1, <1>2, <1>3, <1>5, <2>1, <2>2
<1>12. CASE StoreCookies(r)
  <2>1. /\ pc[s] = "done" /\ pc'[s] = "off" /\ pc'[m] = pc[m] /\ reauthed' = reauthed
        /\ attempt'[m] = attempt[m]
        /\ \/ step[r] = "token" /\ step'[r] = "saveToken"
           \/ step[r] = "login" /\ step'[r] = "saveLogin"
    BY <1>1, <1>4, <1>12 DEF StoreCookies, DropFrame
  <2>2. /\ pc[m] = "hold" /\ Rounds(m)' = Rounds(m) /\ Branch(r)' = Branch(r)
        /\ Rounds(s)' = 0 /\ After(step[r]) >= After(step'[r]) + OneRequest
    BY <1>1, <1>4, <2>1 DEF Branch, Rounds, After
  <2> HIDE DEF m, s
  <2> QED
    BY <1>1, <1>2, <1>3, <1>5, <2>1, <2>2
<1>13. CASE RefreshSucceeds(r)
  <2>1. /\ step[r] \in {"saveToken", "saveLogin"} /\ step'[r] = "none"
        /\ pc[m] = "hold" /\ pc'[m] = "wait" /\ pc[s] = "off" /\ pc'[s] = "off"
        /\ attempt' = attempt /\ reauthed'[m]
    BY <1>1, <1>4, <1>13 DEF RefreshSucceeds
  <2>2. /\ Rounds(m)' = Rounds(m) + 4 /\ Branch(r) = 5 /\ Branch(r)' = 0
        /\ Rounds(s)' = 0 /\ After(step'[r]) = 0
    BY <1>1, <1>4, <2>1 DEF Branch, Rounds, Ahead, After
  <2> HIDE DEF m, s
  <2> QED
    BY <1>1, <1>2, <1>5, <2>1, <2>2
<1>14. CASE RefreshFails(r)
  <2>1. pc[m] = "hold" /\ pc'[m] = "done"
    BY <1>1, <1>4, <1>14 DEF RefreshFails
  <2>2. Branch(r) = 5 /\ Left(r)' = 0
    BY <2>1 DEF Branch, Left
  <2> HIDE DEF m, s
  <2> QED
    BY <1>1, <1>2, <1>5, <2>1, <2>2
<1>15. ASSUME NEW k \in {"start", "existent", "login"}, NextStep(r, k)
       PROVE  Left(r)' < Left(r)
  <2>1. /\ pc[m] = "hold" /\ pc'[m] = "hold" /\ step'[r] = k
        /\ attempt'[m] = attempt[m] /\ reauthed' = reauthed
        /\ \/ k = "start" /\ step[r] \in {"token", "saveToken"}
           \/ k = "existent" /\ step[r] = "start"
           \/ k = "login" /\ step[r] = "existent"
    BY <1>1, <1>4, <1>15 DEF NextStep, Follows, DropFrame
  <2>2. /\ Rounds(m)' = Rounds(m) /\ Branch(r)' = Branch(r)
        /\ After(step[r]) >= After(step'[r]) + OneRequest
    BY <1>1, <1>4, <2>1 DEF Branch, Rounds, After
  <2> HIDE DEF m, s
  <2> QED
    BY <1>1, <1>2, <1>3, <1>5, <2>1, <2>2
<1> QED
  BY <1>6, <1>7, <1>8, <1>9, <1>10, <1>11, <1>12, <1>13, <1>14, <1>15
     DEF Progress, Handshake

(* A call ends after at most 32 * MaxAttempts + 44 steps of its goroutine, *)
(* with whatever the server answers and whatever the others do: the two    *)
(* kinds of retry in RoundTrip, and the handshake inside one of them, make *)
(* no endless loop.  That it takes these steps is EveryCallReturns.        *)
THEOREM LoopTerminates == Spec => CallsEnd
<1>1. IInv => \A r \in Requests : Left(r) \in 0..(32 * MaxAttempts + 44)
  BY RankFacts
<1>2. IInv /\ IInv' /\ [Next]_vars =>
        \A r \in Requests :
          /\ Progress(r) => Left(r)' < Left(r)
          /\ ~Call(r) /\ ~Progress(r) => Left(r)' = Left(r)
  <2> SUFFICES ASSUME IInv, IInv', [Next]_vars, NEW r \in Requests
               PROVE  /\ Progress(r) => Left(r)' < Left(r)
                      /\ ~Call(r) /\ ~Progress(r) => Left(r)' = Left(r)
    OBVIOUS
  <2>1. Progress(r) => Left(r)' < Left(r)
    BY ProgressCounts
  <2>2. ASSUME NEW q \in Requests, Call(q) \/ Progress(q), q # r PROVE Left(r)' = Left(r)
    BY <2>2, OthersStand
  <2>3. ASSUME (\E q \in Requests : Cancel(q)) \/ (\E x \in live : Expire(x)) \/ UNCHANGED vars
        PROVE  Left(r)' = Left(r)
    <3>1. pc' = pc /\ attempt' = attempt /\ reauthed' = reauthed /\ step' = step
      BY <2>3 DEF Cancel, Expire, vars, loopVars, gateVars
    <3> QED
      BY <3>1 DEF Left, Rounds, Branch
  <2> QED
    BY <2>1, <2>2, <2>3 DEF Next, AllReturned
<1> QED
  BY <1>1, <1>2, Invariance, PTL DEF Spec, CallsEnd

-----------------------------------------------------------------------------
(* The gate by itself, whatever implements it: variables of its own.       *)

VARIABLES
  epoch,      \* epoch, owner, seen and turn of ReauthGate
  owner,
  seen,
  turn

AnyGate == INSTANCE ReauthGate

(* The owner is the request that refreshes, and the epoch stands still     *)
(* while there is one: without the first part two requests could refresh   *)
(* and the epoch move under one of them.                                   *)
GateInv ==
  /\ AnyGate!TypeOK
  /\ \A r \in Requests : turn[r] = "refreshing" <=> owner = r
  /\ AnyGate!RefreshesCurrentEpoch

(* Every step of the gate preserves GateInv. *)
LEMMA GateInvStep ==
  ASSUME GateInv, [AnyGate!Next]_AnyGate!vars
  PROVE  GateInv'
<1> USE TransportAssumption
    DEF GateInv, AnyGate!TypeOK, AnyGate!Turns, AnyGate!RefreshesCurrentEpoch
<1>1. ASSUME NEW r \in Requests, AnyGate!Attempt(r) PROVE GateInv'
  BY <1>1 DEF AnyGate!Attempt
<1>2. ASSUME NEW r \in Requests, AnyGate!Refuse(r) PROVE GateInv'
  BY <1>2 DEF AnyGate!Refuse
<1>3. ASSUME NEW r \in Requests, AnyGate!Share(r) PROVE GateInv'
  BY <1>3 DEF AnyGate!Share
<1>4. ASSUME NEW r \in Requests, AnyGate!Begin(r) PROVE GateInv'
  BY <1>4 DEF AnyGate!Begin
<1>5. ASSUME NEW r \in Requests, AnyGate!Succeed(r) PROVE GateInv'
  BY <1>5 DEF AnyGate!Succeed
<1>6. ASSUME NEW r \in Requests, AnyGate!Fail(r) PROVE GateInv'
  BY <1>6 DEF AnyGate!Fail
<1>7. CASE UNCHANGED AnyGate!vars
  BY <1>7 DEF AnyGate!vars
<1> QED
  BY <1>1, <1>2, <1>3, <1>4, <1>5, <1>6, <1>7 DEF AnyGate!Next

(* At most one request refreshes the session, for the epoch its refused    *)
(* attempt belongs to (the reauthEpoch and reauthMu check of RoundTrip):   *)
(* what ReauthGate promises of every implementation.                       *)
THEOREM GateKeepsPromise == AnyGate!Spec => []AnyGate!RefreshesCurrentEpoch
<1>1. AnyGate!Init => GateInv
  BY TransportAssumption
     DEF AnyGate!Init, GateInv, AnyGate!TypeOK, AnyGate!Turns,
         AnyGate!RefreshesCurrentEpoch
<1>2. GateInv /\ [AnyGate!Next]_AnyGate!vars => GateInv'
  BY GateInvStep
<1>3. GateInv => AnyGate!RefreshesCurrentEpoch
  BY DEF GateInv
<1> QED
  BY <1>1, <1>2, <1>3, PTL DEF AnyGate!Spec

=============================================================================
