--------------------------- MODULE ExportsProofs ---------------------------
(***************************************************************************)
(* A context that is done ends ExportZIP and WaitForProcess within one     *)
(* delay of the backoff, whatever the width of durations, the settings and *)
(* the server's answers; and the delays, computed with a shift that may    *)
(* run over, are the ones the settings mean.                               *)
(***************************************************************************)
EXTENDS Exports, FiniteSetTheorems, TLAPS

-----------------------------------------------------------------------------
(* Arithmetic of the backoff.                                              *)

(* Powers of two are positive: they count the subsets of an interval.      *)
LEMMA PowersOfTwo ==
  ASSUME NEW n \in Nat
  PROVE  2^n \in Nat \ {0}
<1> DEFINE S == 1..n
<1>1. IsFiniteSet(S) /\ Cardinality(S) = n
  BY FS_Interval
<1>2. IsFiniteSet(SUBSET S) /\ Cardinality(SUBSET S) = 2^n
  BY <1>1, FS_SUBSET
<1>3. Cardinality(SUBSET S) \in Nat
  BY <1>2, FS_CardinalityType
<1>4. Cardinality(SUBSET S) # 0
  <2>1. SUBSET S # {}
    BY {} \in SUBSET S
  <2> QED
    BY <1>2, <2>1, FS_EmptySet
<1> QED
  BY <1>2, <1>3, <1>4

(* A subset of 1..m+n is a subset of 1..m and one of the rest.             *)
LEMMA PowersAdd ==
  ASSUME NEW m \in Nat, NEW n \in Nat
  PROVE  2^(m + n) = 2^m * 2^n
<1> DEFINE A == 1..m
           B == (m + 1)..(m + n)
           C == 1..(m + n)
           f == [p \in (SUBSET A) \X (SUBSET B) |-> p[1] \cup p[2]]
<1>1. /\ IsFiniteSet(A) /\ Cardinality(A) = m
      /\ IsFiniteSet(B) /\ Cardinality(B) = n
      /\ IsFiniteSet(C) /\ Cardinality(C) = m + n
  <2>1. 1 \in Int /\ m \in Int /\ m + 1 \in Int /\ m + n \in Int
    OBVIOUS
  <2>2. IsFiniteSet(A) /\ Cardinality(A) = IF 1 > m THEN 0 ELSE m - 1 + 1
    BY <2>1, FS_Interval
  <2>3. IsFiniteSet(B) /\ Cardinality(B) = IF m + 1 > m + n THEN 0 ELSE m + n - (m + 1) + 1
    BY <2>1, FS_Interval
  <2>4. IsFiniteSet(C) /\ Cardinality(C) = IF 1 > m + n THEN 0 ELSE m + n - 1 + 1
    BY <2>1, FS_Interval
  <2> QED BY <2>2, <2>3, <2>4
<1>2. C = A \cup B /\ A \cap B = {}
  OBVIOUS
<1> HIDE DEF A, B, C
<1>3. /\ IsFiniteSet(SUBSET A) /\ Cardinality(SUBSET A) = 2^m
      /\ IsFiniteSet(SUBSET B) /\ Cardinality(SUBSET B) = 2^n
      /\ Cardinality(SUBSET C) = 2^(m + n)
  BY <1>1, FS_SUBSET
<1>4. f \in Bijection((SUBSET A) \X (SUBSET B), SUBSET C)
  <2>1. f \in [(SUBSET A) \X (SUBSET B) -> SUBSET C]
    BY <1>2
  <2>2. ASSUME NEW a \in SUBSET A, NEW b \in SUBSET B
        PROVE  f[<<a, b>>] = a \cup b
    OBVIOUS
  <2>3. ASSUME NEW a \in SUBSET A, NEW b \in SUBSET B
        PROVE  a = f[<<a, b>>] \cap A /\ b = f[<<a, b>>] \cap B
    BY <1>2, <2>2
  <2>4. IsInjective(f)
    <3>1. ASSUME NEW p \in (SUBSET A) \X (SUBSET B), NEW q \in (SUBSET A) \X (SUBSET B),
                 f[p] = f[q]
          PROVE  p = q
      <4>1. PICK a \in SUBSET A, b \in SUBSET B : p = <<a, b>>
        OBVIOUS
      <4>2. PICK c \in SUBSET A, d \in SUBSET B : q = <<c, d>>
        OBVIOUS
      <4>3. f[<<a, b>>] = f[<<c, d>>]
        BY <3>1, <4>1, <4>2
      <4>4. a = f[<<a, b>>] \cap A /\ b = f[<<a, b>>] \cap B
        BY <2>3
      <4>5. c = f[<<c, d>>] \cap A /\ d = f[<<c, d>>] \cap B
        BY <2>3
      <4> QED BY <4>1, <4>2, <4>3, <4>4, <4>5
    <3> QED BY <3>1 DEF IsInjective
  <2>5. ASSUME NEW c \in SUBSET C
        PROVE  \E p \in (SUBSET A) \X (SUBSET B) : f[p] = c
    <3>1. c \cap A \in SUBSET A /\ c \cap B \in SUBSET B /\ (c \cap A) \cup (c \cap B) = c
      BY <1>2
    <3>2. f[<<c \cap A, c \cap B>>] = c
      BY <2>2, <3>1
    <3> QED BY <3>1, <3>2
  <2> QED BY <2>1, <2>4, <2>5 DEF Bijection, Injection, Surjection
<1>5. ExistsBijection((SUBSET A) \X (SUBSET B), SUBSET C)
  BY <1>4 DEF ExistsBijection
<1>6. /\ IsFiniteSet((SUBSET A) \X (SUBSET B))
      /\ Cardinality((SUBSET A) \X (SUBSET B)) = 2^m * 2^n
  BY <1>3, FS_Product
<1> QED BY <1>3, <1>5, <1>6, FS_Bijection

(* What is left of a multiple of p modulo a multiple of p.                 *)
LEMMA Residue ==
  ASSUME NEW p \in Nat \ {0}, NEW b \in Nat, NEW r \in Nat \ {0},
         (b * p) % (p * r) # 0
  PROVE  (b * p) % (p * r) >= p
<1> DEFINE x == b * p
           y == p * r
           q == x \div y
           k == b - r * q
<1>1. x \in Nat /\ y \in Nat \ {0}
  OBVIOUS
<1>2. q \in Int /\ x = y * q + (x % y) /\ x % y \in 0..y - 1
  <2> HIDE DEF x, y
  <2> QED BY <1>1
<1>3. x % y = p * k
  BY <1>1, <1>2
<1>4. k \in Int
  BY <1>2
<1>5. k >= 1
  <2>1. ASSUME k <= 0 PROVE p * k <= 0
    BY <1>4, <2>1
  <2> QED BY <1>1, <1>2, <1>3, <1>4, <2>1
<1>6. p * k >= p
  <2> HIDE DEF k
  <2> QED BY <1>4, <1>5
<1> QED BY <1>3, <1>6

(* Residues of numbers below, and of multiples.                            *)
LEMMA Small ==
  ASSUME NEW x \in Nat, NEW y \in Nat \ {0}, x < y
  PROVE  x % y = x
<1> DEFINE q == x \div y
<1>1. q \in Int /\ x = y * q + (x % y) /\ x % y \in 0..y - 1
  OBVIOUS
<1> HIDE DEF q
<1>2. ~(q >= 1) /\ ~(q <= -1)
  BY <1>1
<1>3. q = 0
  BY <1>1, <1>2
<1> QED BY <1>1, <1>3

LEMMA Multiple ==
  ASSUME NEW y \in Nat \ {0}, NEW k \in Nat
  PROVE  (y * k) % y = 0
<1> DEFINE x == y * k
           q == x \div y
<1>1. x \in Nat /\ q \in Int /\ x = y * q + (x % y) /\ x % y \in 0..y - 1
  OBVIOUS
<1>2. x % y = y * (k - q)
  BY <1>1
<1> HIDE DEF x, q
<1>3. ~(k - q >= 1) /\ ~(k - q <= -1)
  BY <1>1, <1>2
<1>4. k - q = 0
  BY <1>1, <1>3
<1>5. x % y = 0
  BY <1>2, <1>4
<1> QED BY <1>5 DEF x

(* A power of two divides the larger ones.                                 *)
LEMMA PowersDivide ==
  ASSUME NEW m \in Nat, NEW n \in Nat, m <= n
  PROVE  \E r \in Nat \ {0} : 2^n = 2^m * r
<1>1. n - m \in Nat /\ n = m + (n - m)
  OBVIOUS
<1>2. 2^n = 2^m * 2^(n - m)
  BY <1>1, PowersAdd
<1>3. 2^(n - m) \in Nat \ {0}
  BY <1>1, PowersOfTwo
<1> QED BY <1>2, <1>3

(* NextDelay draws from the upper half of the exact delay, capped: a shift *)
(* that runs over leaves no number in 1..policy.max, as what is left of    *)
(* base * 2^n is zero, negative, or at least 2^n, and DelaysFit puts       *)
(* policy.max below 2^n then.                                              *)
LEMMA DelayExact ==
  ASSUME policy \in [base : BaseDelays, max : MaxDelays], NEW n \in Nat
  PROVE  LET exact == policy.base * 2^n
             cap == IF exact > policy.max THEN policy.max ELSE exact IN
         NextDelay(n) \subseteq (cap \div 2)..cap
<1> DEFINE b == policy.base
           max == policy.max
           p == 2^n
           half == 2^(Width - 1)
           modulus == 2^Width
           bits == (b * p) % modulus
           delay == IF bits < half THEN bits ELSE bits - modulus
           taken == IF delay > max \/ delay <= 0 THEN max ELSE delay
           cap == IF b * p > max THEN max ELSE b * p
<1>1. /\ b \in Nat \ {0} /\ max \in Nat /\ b * max < half
      /\ Width \in Nat \ {0}
  BY ExportsAssumption, DelaysFit
<1>2. p \in Nat \ {0} /\ half \in Nat \ {0} /\ modulus = 2 * half
  <2>1. Width - 1 \in Nat /\ 1 \in Nat /\ Width = Width - 1 + 1
    BY <1>1
  <2>2. modulus = half * 2^1
    BY <2>1, PowersAdd
  <2>3. 2^1 = 2
    OBVIOUS
  <2>4. p \in Nat \ {0} /\ half \in Nat \ {0}
    BY <2>1, PowersOfTwo
  <2> QED BY <2>2, <2>3, <2>4
<1>3. NextDelay(n) = Jittered(taken)
  BY DEF NextDelay, Shifted
<1>4. bits = 0 \/ bits >= p
  <2>1. CASE n <= Width
    <3>1. PICK r \in Nat \ {0} : modulus = p * r
      BY <1>1, <2>1, PowersDivide
    <3> HIDE DEF p, modulus, b
    <3> QED BY <1>1, <1>2, <3>1, Residue
  <2>2. CASE n > Width
    <3>1. PICK r \in Nat \ {0} : p = modulus * r
      <4>1. Width \in Nat /\ Width <= n
        BY <1>1, <2>2
      <4> QED BY <4>1, PowersDivide
    <3> HIDE DEF p, modulus, b
    <3>2. modulus \in Nat \ {0} /\ b * r \in Nat /\ b * p = modulus * (b * r)
      BY <1>1, <1>2, <3>1
    <3>3. (modulus * (b * r)) % modulus = 0
      BY <3>2, Multiple
    <3> QED BY <3>2, <3>3
  <2> QED BY <1>1, <2>1, <2>2
<1> HIDE DEF p, half, modulus, b, max
<1>5. bits \in 0..modulus - 1
  BY <1>1, <1>2
<1>6. taken = cap
  <2>1. CASE b * p < half
    <3>1. b * p \in 0..modulus - 1 /\ b * p > 0
      BY <1>1, <1>2, <2>1
    <3>2. bits = b * p
      <4>1. b * p \in Nat /\ modulus \in Nat \ {0} /\ b * p < modulus
        BY <1>2, <3>1
      <4> QED BY <4>1, Small
    <3> QED BY <1>1, <1>2, <2>1, <3>1, <3>2
  <2>2. CASE b * p >= half
    <3>1. p > max
      BY <1>1, <1>2, <2>2
    <3>2. b * p >= p
      BY <1>1, <1>2
    <3>3. b * p > max
      BY <1>1, <1>2, <3>1, <3>2
    <3> HIDE DEF bits
    <3>4. delay > max \/ delay <= 0
      BY <1>1, <1>2, <1>4, <1>5, <3>1
    <3> QED BY <3>3, <3>4
  <2> QED BY <1>1, <1>2, <2>1, <2>2
<1>7. cap \in Nat
  BY <1>1, <1>2
<1> HIDE DEF taken
<1>8. Jittered(cap) \subseteq (cap \div 2)..cap
  <2> HIDE DEF cap
  <2> QED BY <1>7 DEF Jittered
<1> QED BY <1>3, <1>6, <1>8 DEF cap, b, max, p

(* A shifted delay is a number, be it negative or too small.               *)
LEMMA ShiftedType ==
  ASSUME NEW base \in Nat, NEW n \in Nat
  PROVE  Shifted(base, n) \in Int
<1> DEFINE power == 2^n
           modulus == 2^Width
           half == 2^(Width - 1)
<1>1. power \in Nat
  BY PowersOfTwo
<1>2. modulus \in Nat \ {0}
  BY PowersOfTwo, ExportsAssumption
<1>3. half \in Nat
  BY PowersOfTwo, ExportsAssumption
<1>4. base * power \in Nat
  BY <1>1
<1> HIDE DEF power, modulus, half
<1>5. (base * power) % modulus \in Int
  BY <1>2, <1>4
<1>6. (IF (base * power) % modulus < half
       THEN (base * power) % modulus ELSE ((base * power) % modulus) - modulus) \in Int
  BY <1>2, <1>3, <1>5
<1> QED
  BY <1>6 DEF Shifted, power, modulus, half

(* No delay is negative or longer than MaxDelay.                           *)
LEMMA DelayRange ==
  ASSUME policy \in [base : BaseDelays, max : MaxDelays], NEW n \in Nat
  PROVE  NextDelay(n) \subseteq 0..policy.max
<1> DEFINE delay == Shifted(policy.base, n)
           capped == IF delay > policy.max \/ delay <= 0 THEN policy.max ELSE delay
<1>1. policy.base \in Nat /\ policy.max \in Nat
  BY ExportsAssumption
<1>2. delay \in Int
  BY <1>1, ShiftedType
<1> HIDE DEF delay
<1>3. capped \in 0..policy.max
  BY <1>1, <1>2
<1>4. NextDelay(n) = Jittered(capped)
  BY DEF NextDelay, delay
<1> HIDE DEF capped
<1>5. Jittered(capped) \subseteq 0..policy.max
  <2> SUFFICES ASSUME NEW j \in 0..(capped \div 2)
               PROVE  capped \div 2 + j \in 0..policy.max
    BY DEF Jittered
  <2> QED
    BY <1>1, <1>3
<1> QED
  BY <1>4, <1>5

-----------------------------------------------------------------------------
(* The inductive invariant.                                                *)

(* How many exports the attempts so far can have started.                  *)
StartedBound ==
  /\ op = "export" /\ pc \in {"start", "sent"} => started <= attempt
  /\ op = "export" /\ pc = "sleep" => started <= attempt + 1
  /\ pc = "select" => op = "wait"
  /\ pc = "sleep" => attempt < MaxAttempts

(* After the deadline only a sleep goes on, and it sleeps no longer than   *)
(* what is left of one delay.                                              *)
Overrun ==
  /\ late > 0 => left = 0
  /\ pc \in {"sent", "select"} => late = 0
  /\ pc = "sleep" => late + timer <= policy.max
  /\ late <= policy.max

IInv == TypeOK /\ StartedBound /\ Overrun

LEMMA InitInv == Init => IInv
<1> SUFFICES ASSUME Init PROVE IInv
  OBVIOUS
<1>1. policy.max \in Nat
  BY ExportsAssumption DEF Init
<1> QED
  BY <1>1, ExportsAssumption DEF Init, IInv, TypeOK, StartedBound, Overrun, Never, Terminal

LEMMA StepInv == IInv /\ [Next]_vars => IInv'
<1> SUFFICES ASSUME IInv, [Next]_vars PROVE IInv'
  OBVIOUS
<1> USE ExportsAssumption DEF IInv, TypeOK, StartedBound, Overrun, Never, Terminal
<1>0. policy.max \in Nat
  OBVIOUS
<1>1. CASE Start
  BY <1>0, <1>1 DEF Start, Return, Admits
<1>2. CASE Unanswered
  <2>1. CASE ShouldRetry
    <3>1. timer' \in 0..policy.max
      BY <1>2, <2>1, DelayRange DEF Unanswered
    <3> QED
      BY <1>0, <1>2, <2>1, <3>1 DEF Unanswered, MayStart, ShouldRetry
  <2>2. CASE ~ShouldRetry
    BY <1>0, <1>2, <2>2 DEF Unanswered, MayStart, Return
  <2> QED
    BY <2>1, <2>2
<1>3. CASE Awake
  BY <1>0, <1>3 DEF Awake
<1>4. CASE Refused
  BY <1>0, <1>4 DEF Refused, MayStart, Return
<1>5. CASE Exported
  BY <1>0, <1>5 DEF Exported
<1>6. CASE Polled
  BY <1>0, <1>6 DEF Polled, Return, Pause
<1>7. CASE Select
  BY <1>0, <1>7 DEF Select, Return
<1>8. CASE Tick
  BY <1>0, <1>8 DEF Tick, Waits
<1>9. CASE Proceed
  BY <1>0, <1>9 DEF Proceed, callVars
<1>10. CASE UNCHANGED vars
  BY <1>0, <1>10 DEF vars, callVars
<1> QED
  BY <1>1, <1>2, <1>3, <1>4, <1>5, <1>6, <1>7, <1>8, <1>9, <1>10 DEF Next, Step, Respond

THEOREM Invariance == Spec => []IInv
<1>1. Init => IInv
  BY InitInv
<1>2. IInv /\ [Next]_vars => IInv'
  BY StepInv
<1> QED
  BY <1>1, <1>2, PTL DEF Spec

-----------------------------------------------------------------------------
(* Theorems.                                                               *)

(* For any settings of the backoff the variables keep their types: among   *)
(* them, one ExportZIP starts at most MaxAttempts + 1 exports.             *)
THEOREM TypeCorrect == Spec => []TypeOK
<1>1. IInv => TypeOK
  BY DEF IInv
<1> QED
  BY <1>1, Invariance, PTL

(* The caller of ExportZIP or WaitForProcess whose context is done gets    *)
(* its error after at most one delay of the backoff, for any settings.     *)
THEOREM DeadlineOverrun == Spec => []ReturnsSoonAfterDeadline
<1>1. IInv => ReturnsSoonAfterDeadline
  BY DEF IInv, Overrun, ReturnsSoonAfterDeadline
<1> QED
  BY <1>1, Invariance, PTL

(* RoundTrip waits what the backoff means: exactly the upper half of       *)
(* BaseDelay times a power of two, capped at MaxDelay, for every width of  *)
(* a duration, every setting that fits and every number of attempts.       *)
THEOREM DelaysAreExact == Spec => DelaysBounded
<1>1. IInv /\ [Next]_vars =>
        [pc # "sleep" /\ pc' = "sleep" =>
           LET exact == policy.base * 2^attempt
               cap == IF exact > policy.max THEN policy.max ELSE exact IN
           timer' \in (cap \div 2)..cap]_vars
  <2> SUFFICES ASSUME IInv, Next, pc # "sleep", pc' = "sleep"
               PROVE  LET exact == policy.base * 2^attempt
                          cap == IF exact > policy.max THEN policy.max ELSE exact IN
                      timer' \in (cap \div 2)..cap
    OBVIOUS
  <2>1. Unanswered /\ ShouldRetry
    BY DEF Next, Step, Respond, Start, Awake, Select, Unanswered, Refused, Exported, Polled,
       Tick, Proceed, Return, callVars
  <2>2. timer' \in NextDelay(attempt)
    BY <2>1 DEF Unanswered
  <2>3. attempt \in Nat /\ policy \in [base : BaseDelays, max : MaxDelays]
    BY ExportsAssumption DEF IInv, TypeOK
  <2> QED BY <2>2, <2>3, DelayExact
<1> QED
  BY <1>1, Invariance, PTL DEF Spec, DelaysBounded

-----------------------------------------------------------------------------
(* The end of an export, as far as it is safety.                           *)

(* More than an attempt takes, with the sleep after it.                    *)
OneAttempt == policy.max + 3

(* The steps until Get returns, its attempts so far taken off; pause is    *)
(* what an unfinished wait in the select counts for.                       *)
Ahead(pause) ==
  CASE pc = "start"  -> OneAttempt * (MaxAttempts - attempt) + 4
    [] pc = "sent"   -> OneAttempt * (MaxAttempts - attempt) + 3
    [] pc = "sleep"  -> OneAttempt * (MaxAttempts - attempt - 1) + 5 + timer
    [] pc = "select" -> pause
    [] OTHER         -> 0

OneGet == OneAttempt * MaxAttempts + 5

(* Under a deadline: each poll but the last takes a tick, and each tick    *)
(* brings the deadline nearer.                                             *)
ToDeadline ==
  (2 * OneGet) * left
    + Ahead(IF timer = 0 THEN OneGet ELSE 1)
    + (IF op = "export" /\ pc # "done" THEN OneGet ELSE 0)

(* Once the process has ended: the next poll sees it.                      *)
ToResult == Ahead(OneGet + timer)

(* ExportZIP and WaitForProcess end by steps of their own, of the clock    *)
(* before a deadline, of the server's answers when the process has ended.  *)
EndIsNear ==
  /\ [](/\ left # Never => ToDeadline \in Nat
        /\ ToResult \in Nat)
  /\ [][/\ left # Never =>
             /\ Step \/ Respond \/ Tick => ToDeadline' < ToDeadline
             /\ Proceed => ToDeadline' = ToDeadline
        /\ status \in Terminal =>
             /\ Step \/ Respond => ToResult' < ToResult
             /\ Tick => ToResult' <= ToResult]_vars

(* Before the export began there is no process. *)
Unborn == op = "export" => status = "none"

LEMMA UnbornStep ==
  ASSUME Unborn, [Next]_vars
  PROVE  Unborn'
<1> QED
  BY DEF Unborn, Next, Step, Respond, Start, Awake, Select, Unanswered, Refused, Exported,
     Polled, Tick, Proceed, Return, vars, callVars

(* One attempt less is OneAttempt less. *)
LEMMA Products ==
  ASSUME NEW c \in Nat, NEW m \in Nat, NEW a \in 0..m
  PROVE  /\ c * m \in Nat /\ c * (m - a) \in Nat /\ c * (m - a) <= c * m
         /\ c * (m - 0) = c * m
         /\ a < m => /\ c * (m - a - 1) \in Nat
                     /\ c * (m - a) = c * (m - a - 1) + c
                     /\ c * (m - (a + 1)) = c * (m - a - 1)
<1>1. PICK d \in Nat : m = a + d
  <2>1. m - a \in Nat /\ m = a + (m - a)
    OBVIOUS
  <2> QED BY <2>1
<1>2. c * m = c * a + c * d /\ c * a \in Nat /\ c * d \in Nat /\ m - a = d
  BY <1>1
<1>3. ASSUME a < m
      PROVE  /\ c * (m - a - 1) \in Nat
             /\ c * (m - a) = c * (m - a - 1) + c
             /\ c * (m - (a + 1)) = c * (m - a - 1)
  <2>1. d - 1 \in Nat /\ m - a - 1 = d - 1 /\ m - (a + 1) = d - 1
    BY <1>1, <1>3
  <2>2. PICK e \in Nat : d = e + 1
    BY <2>1
  <2>3. c * d = c * e + c /\ c * e \in Nat /\ d - 1 = e
    BY <2>2
  <2> QED BY <1>2, <2>1, <2>3
<1> QED BY <1>2, <1>3

(* The numbers of a state, and of what is left of a deadline. *)
LEMMA Ranks ==
  ASSUME IInv
  PROVE  LET P == OneAttempt * (MaxAttempts - attempt)
             Q == OneAttempt * (MaxAttempts - attempt - 1) IN
         /\ attempt \in 0..MaxAttempts /\ timer \in Nat /\ policy.max \in Nat
         /\ OneAttempt = policy.max + 3 /\ OneGet \in Nat /\ OneGet >= 5
         /\ P \in Nat /\ P + 5 <= OneGet
         /\ OneAttempt * (MaxAttempts - 0) \in Nat
         /\ OneAttempt * (MaxAttempts - 0) + 5 = OneGet
         /\ attempt < MaxAttempts =>
              /\ Q \in Nat /\ P = Q + OneAttempt
              /\ OneAttempt * (MaxAttempts - (attempt + 1)) = Q
         /\ pc = "sleep" => attempt < MaxAttempts /\ timer <= policy.max
         /\ Pause \in Nat /\ Pause > 0
<1>1. /\ attempt \in 0..MaxAttempts /\ MaxAttempts \in Nat /\ timer \in Nat /\ policy.max \in Nat
      /\ pc = "sleep" => attempt < MaxAttempts /\ timer <= policy.max
      /\ Pause \in Nat /\ Pause > 0
  <2>1. policy.max \in Nat /\ timer \in Nat /\ attempt \in 0..MaxAttempts /\ MaxAttempts \in Nat
    BY ExportsAssumption DEF IInv, TypeOK
  <2>2. pc = "sleep" => attempt < MaxAttempts /\ timer <= policy.max
    BY <2>1 DEF IInv, TypeOK, StartedBound, Overrun
  <2>3. Pause \in Nat /\ Pause > 0
    BY ExportsAssumption DEF IInv, TypeOK, Pause
  <2> QED BY <2>1, <2>2, <2>3
<1>2. OneAttempt \in Nat /\ OneAttempt = policy.max + 3
  BY <1>1 DEF OneAttempt
<1>3. OneGet = OneAttempt * MaxAttempts + 5
  BY DEF OneGet
<1> HIDE DEF OneAttempt, OneGet
<1> QED BY <1>1, <1>2, <1>3, Products

LEMMA RanksRange ==
  ASSUME IInv
  PROVE  /\ left # Never => ToDeadline \in Nat
         /\ ToResult \in Nat
         /\ Ahead(IF timer = 0 THEN OneGet ELSE 1) \in Nat
<1>1. ASSUME NEW p \in Nat PROVE Ahead(p) \in Nat
  BY <1>1, Ranks DEF Ahead
<1>2. Ahead(IF timer = 0 THEN OneGet ELSE 1) \in Nat /\ ToResult \in Nat
  BY <1>1, Ranks DEF ToResult
<1>3. ASSUME left # Never PROVE (2 * OneGet) * left \in Nat
  <2>1. left \in Nat /\ 2 * OneGet \in Nat
    BY <1>3, Ranks DEF IInv, TypeOK
  <2> QED BY <2>1
<1> HIDE DEF Ahead, OneGet
<1> QED BY <1>2, <1>3, Ranks DEF ToDeadline

(* What a tick takes away, of the two sums under ToDeadline. *)
LEMMA Sums ==
  ASSUME NEW d \in Nat, NEW e \in Nat, NEW k \in Nat, NEW l \in Nat, NEW x \in Nat
  PROVE  /\ e < d => e + x < d + x
         /\ e < k + d => l + e + x < l + k + d + x
OBVIOUS

(* The caller's steps, and the answers to its requests. *)
LEMMA StepNears ==
  ASSUME IInv, Unborn, Step \/ Respond
  PROVE  /\ left # Never => ToDeadline' < ToDeadline
         /\ status \in Terminal => ToResult' < ToResult
<1> DEFINE P == OneAttempt * (MaxAttempts - attempt)
           Q == OneAttempt * (MaxAttempts - attempt - 1)
           D == Ahead(IF timer = 0 THEN OneGet ELSE 1)
           X == IF op = "export" /\ pc # "done" THEN OneGet ELSE 0
           L == (2 * OneGet) * left
<1>0. /\ policy' = policy /\ left' = left
      /\ OneAttempt' = OneAttempt /\ OneGet' = OneGet /\ L' = L
  BY DEF Step, Respond, Start, Awake, Select, Unanswered, Refused, Exported, Polled,
     OneAttempt, OneGet
<1>1. /\ timer \in Nat /\ policy.max \in Nat
      /\ OneAttempt = policy.max + 3 /\ OneGet \in Nat /\ OneGet >= 5
      /\ P \in Nat /\ P + 5 <= OneGet
      /\ OneAttempt * (MaxAttempts - 0) \in Nat
      /\ OneAttempt * (MaxAttempts - 0) + 5 = OneGet
      /\ attempt < MaxAttempts =>
           /\ Q \in Nat /\ P = Q + OneAttempt
           /\ OneAttempt * (MaxAttempts - (attempt + 1)) = Q
      /\ pc = "sleep" => attempt < MaxAttempts /\ timer <= policy.max
      /\ Pause \in Nat /\ Pause > 0
  BY Ranks
<1>2. left # Never => L \in Nat
  <2>1. ASSUME left # Never PROVE left \in Nat /\ 2 * OneGet \in Nat
    BY <1>1, <2>1 DEF IInv, TypeOK
  <2> QED BY <2>1
<1>3. ToDeadline = L + D + X /\ ToDeadline' = L' + D' + X'
  BY DEF ToDeadline
<1>4. D \in Nat /\ X \in {0, OneGet}
  BY RanksRange
<1> DEFINE Nearer == /\ left # Never => ToDeadline' < ToDeadline
                     /\ status \in Terminal => ToResult' < ToResult
<1> SUFFICES Nearer
  OBVIOUS
(* It is enough that D goes down, and X does not go up. *)
<1>5. ASSUME D' \in Nat, D' < D, X' = X \/ X' = 0, ToResult' < ToResult PROVE Nearer
  <2> HIDE DEF D, X, L
  <2> QED BY <1>0, <1>1, <1>2, <1>3, <1>4, <1>5
<1> HIDE DEF L
(* A call that returns. *)
<1>6. ASSUME NEW how, Return(how), pc # "done", D > 0, ToResult > 0 PROVE Nearer
  <2>1. D' = 0 /\ ToResult' = 0 /\ X' = 0
    BY <1>6 DEF Return, Ahead, ToResult
  <2> HIDE DEF D, X
  <2> QED BY <1>5, <1>6, <2>1
<1> HIDE DEF Nearer
<1>7. CASE Start
  <2>1. pc = "start" /\ D = P + 4 /\ ToResult = P + 4
    BY <1>7 DEF Start, Ahead, ToResult
  <2>2. CASE \E how \in {"error"} : Return(how)
    <3>1. Return("error")
      BY <2>2
    <3> HIDE DEF D
    <3> QED BY <1>1, <1>6, <2>1, <3>1
  <2>3. CASE ~Return("error")
    <3>1. pc' = "sent" /\ UNCHANGED <<op, attempt, timer>>
      BY <1>7, <2>3 DEF Start
    <3>2. D' = P + 3 /\ ToResult' = P + 3 /\ X' = X
      BY <1>0, <2>1, <3>1 DEF Ahead, ToResult
    <3> HIDE DEF D, X
    <3> QED BY <1>1, <1>5, <2>1, <3>2
  <2> QED BY <2>2, <2>3
<1>8. CASE Unanswered
  <2>1. pc = "sent" /\ D = P + 3 /\ ToResult = P + 3
    BY <1>8 DEF Unanswered, Ahead, ToResult
  <2>2. CASE ~ShouldRetry
    <3>1. Return("error")
      BY <1>8, <2>2 DEF Unanswered
    <3> HIDE DEF D
    <3> QED BY <1>1, <1>6, <2>1, <3>1
  <2>3. CASE ShouldRetry
    <3>1. /\ pc' = "sleep" /\ op' = op /\ attempt' = attempt /\ attempt < MaxAttempts
          /\ timer' \in 0..policy.max
      BY <1>8, <2>3, DelayRange, ExportsAssumption DEF Unanswered, ShouldRetry, IInv, TypeOK
    <3>2. D' = Q + 5 + timer' /\ ToResult' = Q + 5 + timer' /\ X' = X
      BY <1>0, <2>1, <3>1 DEF Ahead, ToResult
    <3> HIDE DEF D, X, P, Q
    <3> QED BY <1>1, <1>5, <2>1, <3>1, <3>2
  <2> QED BY <2>2, <2>3
<1>9. CASE Awake
  <2>1. /\ pc = "sleep" /\ timer = 0 /\ pc' = "start" /\ attempt' = attempt + 1
        /\ UNCHANGED <<op, timer>>
    BY <1>9 DEF Awake
  <2>2. D = Q + 5 /\ ToResult = Q + 5
    BY <1>1, <2>1 DEF Ahead, ToResult
  <2>3. D' = Q + 4 /\ ToResult' = Q + 4 /\ X' = X
    BY <1>0, <1>1, <2>1 DEF Ahead, ToResult
  <2> HIDE DEF D, X, Q
  <2> QED BY <1>1, <1>5, <2>1, <2>2, <2>3
<1>10. CASE Refused
  <2>1. pc = "sent" /\ D = P + 3 /\ ToResult = P + 3 /\ Return("error")
    BY <1>10 DEF Refused, Ahead, ToResult
  <2> HIDE DEF D
  <2> QED BY <1>1, <1>6, <2>1
<1>11. CASE Exported
  <2>1. pc = "sent" /\ op = "export" /\ pc' = "start" /\ op' = "wait" /\ attempt' = 0
    BY <1>11 DEF Exported
  <2>2. D = P + 3 /\ X = OneGet /\ X' = 0 /\ D' = OneAttempt * (MaxAttempts - 0) + 4
    BY <1>0, <2>1 DEF Ahead
  <2>3. status \notin Terminal
    BY <2>1 DEF Unborn, Terminal
  <2> HIDE DEF D, X, P
  <2> QED BY <1>0, <1>1, <1>2, <1>3, <2>2, <2>3 DEF Nearer
<1>12. CASE Polled
  <2>1. pc = "sent" /\ D = P + 3 /\ ToResult = P + 3
    BY <1>12 DEF Polled, Ahead, ToResult
  <2>2. CASE IsTerminal(status)
    <3>1. Return("process")
      BY <1>12, <2>2 DEF Polled
    <3> HIDE DEF D
    <3> QED BY <1>1, <1>6, <2>1, <3>1
  <2>3. CASE ~IsTerminal(status)
    <3>1. /\ status \notin Terminal /\ pc' = "select" /\ op' = op /\ timer' # 0
      BY <1>1, <1>12, <2>3 DEF Polled, IsTerminal, Terminal
    <3>2. D' = 1 /\ X' = X
      BY <1>0, <2>1, <3>1 DEF Ahead
    <3> HIDE DEF D, X, P
    <3> QED BY <1>0, <1>1, <1>2, <1>3, <1>4, <2>1, <3>1, <3>2 DEF Nearer
  <2> QED BY <2>2, <2>3
<1>13. CASE Select
  <2>1. /\ pc = "select" /\ ToResult = OneGet + timer
        /\ D = IF timer = 0 THEN OneGet ELSE 1
    BY <1>13 DEF Select, Ahead, ToResult
  <2>2. CASE \E how \in {"error"} : Return(how)
    <3>1. Return("error")
      BY <2>2
    <3> HIDE DEF D
    <3> QED BY <1>1, <1>6, <2>1, <3>1
  <2>3. CASE ~Return("error")
    <3>1. timer = 0 /\ pc' = "start" /\ attempt' = 0 /\ UNCHANGED <<op, timer>>
      BY <1>13, <2>3 DEF Select
    <3>2. /\ D' = OneAttempt * (MaxAttempts - 0) + 4 /\ ToResult' = D' /\ X' = X
      BY <1>0, <2>1, <3>1 DEF Ahead, ToResult
    <3> HIDE DEF D, X
    <3> QED BY <1>1, <1>5, <2>1, <3>1, <3>2
  <2> QED BY <2>2, <2>3
<1> QED BY <1>7, <1>8, <1>9, <1>10, <1>11, <1>12, <1>13 DEF Step, Respond

(* The clock: it brings the deadline nearer, and the end of a sleep. *)
LEMMA TickNears ==
  ASSUME IInv, Tick
  PROVE  /\ left # Never => ToDeadline' < ToDeadline
         /\ ToResult' <= ToResult
<1> DEFINE Q == OneAttempt * (MaxAttempts - attempt - 1)
           D == Ahead(IF timer = 0 THEN OneGet ELSE 1)
           X == IF op = "export" /\ pc # "done" THEN OneGet ELSE 0
           K == 2 * OneGet
<1>0. /\ policy' = policy /\ op' = op /\ pc' = pc /\ attempt' = attempt
      /\ left' = (IF left > 0 THEN left - 1 ELSE left)
      /\ timer' = (IF timer > 0 THEN timer - 1 ELSE 0)
      /\ OneAttempt' = OneAttempt /\ OneGet' = OneGet /\ X' = X /\ K' = K
      /\ \/ pc = "sent" /\ left # 0
         \/ pc = "sleep" /\ timer > 0
         \/ pc = "select" /\ timer > 0 /\ left # 0
  BY DEF Tick, Waits, OneAttempt, OneGet
<1>1. /\ timer \in Nat /\ OneGet \in Nat /\ OneGet >= 5
      /\ pc = "sleep" => Q \in Nat
  BY Ranks
<1>2. D \in Nat /\ X \in Nat /\ ToResult \in Nat /\ OneGet \in Nat
  BY <1>1, RanksRange
<1>3. ToDeadline = K * left + D + X /\ ToDeadline' = K * left' + D' + X
  BY <1>0 DEF ToDeadline
<1>4. /\ D' \in Nat
      /\ D' <= D \/ D' <= OneGet
      /\ pc = "sleep" => D' < D
      /\ ToResult' <= ToResult
  <2>1. CASE pc = "sent"
    <3>1. D' = D /\ ToResult' = ToResult
      BY <1>0, <2>1 DEF Ahead, ToResult
    <3> HIDE DEF D
    <3> QED BY <1>2, <2>1, <3>1
  <2>2. CASE pc = "sleep"
    <3>1. /\ D = Q + 5 + timer /\ ToResult = Q + 5 + timer
          /\ D' = Q + 5 + timer' /\ ToResult' = Q + 5 + timer'
          /\ timer' = timer - 1 /\ timer > 0
      BY <1>0, <2>2 DEF Ahead, ToResult
    <3> HIDE DEF D, Q
    <3> QED BY <1>1, <2>2, <3>1
  <2>3. CASE pc = "select"
    <3>1. /\ ToResult = OneGet + timer /\ ToResult' = OneGet + timer'
          /\ D' = (IF timer' = 0 THEN OneGet ELSE 1)
          /\ timer' = timer - 1 /\ timer > 0
      BY <1>0, <2>3 DEF Ahead, ToResult
    <3> HIDE DEF D
    <3> QED BY <1>1, <2>3, <3>1
  <2> QED BY <1>0, <2>1, <2>2, <2>3
<1> HIDE DEF D, X
<1>5. ASSUME left # Never PROVE ToDeadline' < ToDeadline
  <2>1. left \in Nat /\ K \in Nat /\ K >= OneGet + 5
    BY <1>1, <1>5 DEF IInv, TypeOK
  <2> HIDE DEF K
  <2>2. CASE left = 0
    <3>1. left' = 0 /\ pc = "sleep" /\ K * 0 = 0
      BY <1>0, <2>1, <2>2
    <3>2. ToDeadline = D + X /\ ToDeadline' = D' + X
      BY <1>2, <1>3, <1>4, <2>2, <3>1
    <3>3. D \in Nat /\ D' \in Nat /\ X \in Nat /\ D' < D
      BY <1>2, <1>4, <3>1
    <3>4. D' + X < D + X
      BY <3>3, Sums
    <3> QED BY <3>2, <3>4
  <2>3. CASE left > 0
    <3>1. PICK l \in Nat : left = l + 1
      <4>1. left - 1 \in Nat /\ left = (left - 1) + 1
        BY <2>1, <2>3
      <4> QED BY <4>1
    <3>2. left' = l
      BY <1>0, <2>3, <3>1
    <3>3. K * left = K * l + K /\ K * l \in Nat
      BY <2>1, <3>1
    <3>4. ToDeadline = K * l + K + D + X /\ ToDeadline' = K * l + D' + X
      BY <1>3, <3>2, <3>3
    <3>5. D \in Nat /\ D' \in Nat /\ X \in Nat /\ D' < K + D
      BY <1>2, <1>4, <2>1
    <3>6. K * l + D' + X < K * l + K + D + X
      BY <2>1, <3>3, <3>5, Sums
    <3> QED BY <3>4, <3>6
  <2> QED BY <2>1, <2>2, <2>3
<1> QED BY <1>4, <1>5

(* WaitEnds as far as it is safety: for any settings, a caller under a     *)
(* deadline has a number of steps and ticks left that each of them makes   *)
(* smaller, whatever the server answers and whatever becomes of the        *)
(* process; once the process has ended it has a number of steps left that  *)
(* no tick makes bigger.                                                   *)
THEOREM ExportsEnd == Spec => EndIsNear
<1>1. Init => Unborn
  BY DEF Init, Unborn
<1>2. IInv => /\ left # Never => ToDeadline \in Nat
              /\ ToResult \in Nat
  BY RanksRange
<1>3. IInv /\ Unborn /\ [Next]_vars =>
        /\ Unborn'
        /\ [/\ left # Never =>
                 /\ Step \/ Respond \/ Tick => ToDeadline' < ToDeadline
                 /\ Proceed => ToDeadline' = ToDeadline
            /\ status \in Terminal =>
                 /\ Step \/ Respond => ToResult' < ToResult
                 /\ Tick => ToResult' <= ToResult]_vars
  <2>1. ASSUME Proceed PROVE ToDeadline' = ToDeadline
    BY <2>1 DEF Proceed, callVars, ToDeadline, Ahead, OneGet, OneAttempt
  <2> QED BY <2>1, UnbornStep, StepNears, TickNears
<1> QED
  BY <1>1, <1>2, <1>3, Invariance, PTL DEF Spec, EndIsNear

=============================================================================
