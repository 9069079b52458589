# Verification of go-fileee

go-fileee is a Go client library for the (undocumented) HTTP API of fileee: session handling with a
cookie jar, a rate-limited transport that retries and refreshes an expired session, delta sync with
cursors, and services for documents, contacts, reminders, boxes, conversations and exports. This
directory holds TLA+ models of the parts in which order, concurrency and failure matter, TLC runs that
check them on small instances, and proofs TLAPS checks for every value of the constants.

Line numbers refer to `src/fileee/`; `PROJECT.json` maps every definition to the lines it models.

    tlc -workers 2 -config Transport.cfg Transport      # a run: <cfg>, <module>
    tlapm TransportProofs.tla                           # the proofs

`PROJECT.json` lists the runs; section 3.3 has two further configurations.

## 1. Inventory

### 1.1 Components

| component | state | operations | talks to |
|---|---|---|---|
| transport (`transport.go`) | `reauthMu`, `reauthEpoch`; per call `attempt`, `reauthed`, `epochAtAttempt` | `RoundTrip`: limiter, snapshot, clone, XSRF header, send, classify, refresh or back off | the jar (reads), `authClient.reauthenticate` (callback), itself (the handshake goes through the same transport) |
| session handling (`auth.go`, `client.go`) | the cookie jar all goroutines share, `verifiedUntil` under `freshMu` | `EnsureSession`, `RefreshSession`, `login`, `tokenLogin`, `reauthenticate`, `persistSession`, `logout`, `clearJar` | the session store, the transport, the server |
| keepalive (`keepalive.go`) | one goroutine with a ticker and a context | tick, stop | `ensureSession(force)` |
| session store (`session.go`) | a JSON file | `Load`, `Save` (temporary file and rename) | the file system; may be shared by processes |
| delta sync (`query.go`, `service.go`) | none of its own: the caller keeps the `Cursor` | `Diff`, `Query`, `queryAllPages`, `decodeDiff` | the server; the consumer keeps a copy |
| document types (`documenttypes.go`) | none | `Diff`, with a full query as fallback on 404/405 | delta sync |
| writes (`documents.go`, `contacts.go`, `reminders.go`) | none: versions travel in the objects | `Update`, `Delete`, `Upload`, `Create` | `RoundTrip`, which may repeat them; the server's optimistic locking and duplicate detection |
| backoff, limiter (`ratelimit.go`) | token bucket, random source | `ShouldRetry`, `NextDelay` | transport |
| conversations (`conversations.go`), boxes (`boxes.go`) | none | read something, post something made from it | delta sync, writes |
| processes and exports (`export.go`) | none | `ExportZIP`, `WaitForProcess` (polling) | transport |
| share client, sharing, search, OCR, links | an own jar in the share client | single requests | transport or a plain client |
| entity types, attributes (`types.go`, `tags.go`, `companies.go`) | none | JSON in and out | all services |
| errors, version, package doc, mock server, tests | none | status codes to error values | all services |

### 1.2 How they interact

A service call is `EnsureSession`, then one request. `EnsureSession` loads the stored session, writes
its cookies into the shared jar, asks the server with `user-session`, and if the answer is not "authorized"
calls `reauthenticate`: `token/login` with the rememberMe cookie, then `start`, `existent`, `login` with
password and second factor; either one ends in `persistSession`, which saves the jar. The request goes through
`http.Client`, which writes the `Cookie` header, and `RoundTrip`, which adds the XSRF header from the jar for
each attempt. The first 403 of a request takes `reauthMu`; if `reauthEpoch` still is what it was when the
attempt began the request calls `reauthenticate` itself, else it only tries again. The handshake of
`reauthenticate` passes through `RoundTrip` too, in the goroutine that holds the mutex; its context says
`withSkipReauth`. `ensureSession` calls `reauthenticate` without the mutex. A keepalive does what a service call
does before its request, at every tick, next to all others. `Logout` posts, clears the jar and stores an empty
session, also next to all others.

### 1.3 What is hard, and what makes each component correct

* transport: several requests refused at the same time, the mutex held across requests of the same
  transport, two kinds of retry in one loop, cancellation while waiting. Correct means: a bounded number of
  attempts, one refresh for all the requests in flight when it succeeds (the docs say: for all of one expired session,
  section 6), no deadlock, a 403 for the caller only after the one retry.
* session handling: jar and store are written by goroutines that do not exclude each other; each
  exchange may be lost; the server may expire a session or block the account at any time. Correct means:
  a caller whose session was confirmed can use it, the freshness window opens only after a confirmation,
  the rememberMe token is not lost, a logout logs out, a block stops logins.
* keepalive: correct means that a failed ping does not end it, that it ends when stopped, and that it
  keeps a good session whatever the other goroutines do.
* session store: correct means atomic (no reader ever sees part of a session) under concurrent saves,
  errors and crashes, without files left over.
* delta sync: the server changes between and during calls, calls fail, pages shift. Correct means: the
  cursor stands for what the consumer was handed, and the consumer's copy converges.
* writes: repeated and delayed requests. Correct means: no lost update, nothing carried out twice, an
  outcome that is true.
* conversations and boxes: what is posted rests on an earlier read, and nothing but a message has an id. Correct means:
  a repeat can be told from a new message, nothing that was there is hidden, order is lost only to repeats.
* attributes: the server writes values in more forms than the library expects. Correct means: a read means what the
  server wrote, an edit arrives, and writing a document back changes nothing else.
* exports: polling and backoff under a deadline. Correct means: bounded delays, an end when the process or the context ends.

The hazards are listed with their lines in `PROJECT.json`, each with the properties that cover it, or with
the reason why none does yet.

## 2. Modules

| module | models | abstract specification |
|---|---|---|
| `ReauthGate` | the promise of the 403 branch alone | - |
| `Transport` | `RoundTrip` and the handshake it carries, concurrent requests | implements `ReauthGate` |
| `TransportProofs`, `SessionFileProofs`, `SessionClientProofs`, `DiffSyncProofs`, `WritesProofs`, `ConversationsProofs`, `AttributesProofs`, `ExportsProofs` | the theorems of section 5 and their proofs | |
| `SessionClient` | jar, store, freshness window: service calls, keepalives, logouts | - |
| `AtomicStore` | the promise of a `SessionStore` | - |
| `SessionFile` | `FileSessionStore` on a file system | implements `AtomicStore` |
| `DiffSync` | `Diff`, `decodeDiff`, paging and the document type fallback | - |
| `AtomicUpdate` | the promise of `Update` alone | - |
| `Writes` | `Update`, `Delete`, `Upload` under repeated attempts | implements `AtomicUpdate` |
| `Conversations` | messages, participants, invitations and boxes under repeated attempts | - |
| `Attributes` | a document's attributes from the wire to typed fields and back | - |
| `Exports` | `ExportZIP`, `WaitForProcess` and `NextDelay` in time | - |

The modules meet at narrow places, where one takes the other's promise for granted. `SessionClient` takes a
`RoundTrip` to be "send, then an answer or an error" (`Transport` says that it ends, `EveryCallReturns`) and
keeps only its 403 branch; it takes the store to be one value written and read at once (`SessionFile` says
that it is, `StoreSpec`). `DiffSync`, `Writes` and `Conversations` start after
`EnsureSession`; `Exports` lets it fail. `Attributes` takes an `Update` that succeeds; its conflicts are in `Writes`.

Definitions called `Faulty_x` are plausible mistakes in `x`. No specification uses them; put in the place of
`x` each makes the property named in `PROJECT.json` fail, so that no property holds for the wrong reason.

### 2.1 Transport

A request owns two frames of the loop, `Main(r)` (the caller's request) and `Shake(r)` (the handshake it sends
while it holds the mutex). `pc` follows the loop:

| `pc` | code | left by |
|---|---|---|
| `off` | before `RoundTrip` | `Call` (`http.Client` writes the Cookie header), `NextStep` for a handshake |
| `wait` | 161, limiter | `Snapshot`, `WaitFails` (context done), `BodyFails` before the loop (153) |
| `snapped` | 170, epoch read | `Transmit` (clone, XSRF from the jar, send; 172-179), `BodyFails` (173) |
| `sent` | in flight | `Answer`, `Busy` (429, 5xx), `Unavailable`/`NetworkError`, `Forbidden` |
| `back` | 184, 231 | `Backoff`: the attempt counter goes up |
| `lock` | 199 | `ShareRefresh` (the epoch moved), `BeginRefresh` |
| `hold` | 207 | `RefreshSucceeds`, `RefreshFails`, with the steps of `reauthenticate` (`step`) in between |
| `done` | returned | |

`SameEpoch` is line 200. The snapshot and the reading of the jar are two actions, because another goroutine's
refresh may come between them; `InFlightShareRefresh` depends on that order. The Cookie header is older than both: `http.Client`
writes it in `Call`, before the limiter. `sentAt` (the epoch of the last `Transmit`) and `renewed` (the sessions, as in the Cookie header of the
refused request, for which a refresh succeeded) are history. A session is a number that stands
for its cookies and its XSRF token; the server accepts a writing request if both headers carry the same live
session (double submit, docs/API.md section 2). The answers of `token/login` and of `login` bring a new session,
and `StoreCookies` is the moment `http.Client` puts it into the jar, before `persistSession`.

### 2.2 SessionClient

One goroutine per caller, keepalive or logout, its locals in a record `call[t]`. `EnsureSession`,
`Reauthenticate`, `Request` and `Logout` group the actions the way the code's functions do. Every exchange is
two steps (send with the jar's cookies of that moment; the answer), and so are reading the jar and saving in
`persistSession` (`SnapJar`, `Save`) and clearing the jar and saving in `logout` (`ClearJar`, `EraseStore`):
between each pair the others run. A jar holds the login its session cookie stems from and the one its rememberMe
cookie stems from: `token/login` renews the first only. `standing` is a history of what the server last
told the goroutine (session confirmed, account blocked, session ended since).

### 2.3 SessionFile

A directory of names for inodes, so that a file that is open survives the replacement of its name. `WriteSome`
and `WriteRest` are one `Write` a reader may fall between, `SaveFails` is an error of `Chmod`, `Write`, `Close` or
`Rename`, `Cleanup` the deferred `Remove` and `RemoveFails` its error, which nobody looks at. A `Save` whose `MkdirAll`, `Marshal` or `CreateTemp` fails
has changed nothing and is no step. `LoadFails` is an error of opening or reading; `abandoned` is history, the temporary names a crash or a
failing `Remove` left. `Crash(gone)` kills any set of goroutines: one of several
processes, or all. `os.CreateTemp` draws a name with a random suffix; that it draws one another Save has just freed by
its Rename and is about to Remove (1 in 2^32) is left out: that Save would remove the other's file.

### 2.4 DiffSync

The consumer does what docs/API.md section 3.1 asks: upsert the rows, remove `DeletedIDs`, pass `NextCursor` on.
The server is external: it answers a diff with a page of the objects whose version differs from the cursor's, and the
known ids that are gone; it lists objects in one stable order, in which a new one may appear anywhere; an id
is not used again (ids are drawn at random). `Page` is one round of `queryAllPages` and sees the objects
there are at that moment.

### 2.5 Writes

`net` holds attempts that were sent and not carried out. `GiveUp` is the client's network error or 5xx:
`ShouldRetry` sends the same body again or the caller gets the error, and the old attempt stays in `net`, so that the
server may carry it out at any later time, after newer ones too. An answer may be lost. `Cancel` is the caller's context: the call ends
with attempts left, whatever of it is on its way. `Forbidden` is a 403 and the same attempt sent once more, or the error the caller gets when the
renewal or the second attempt fails. `RoundTrip` sends it once more, the model may do so again: it is back where it was before `Send`, and without
that flag there are half as many states and more behaviours, not fewer. `Update`
carries the version the caller read (`Matches`), `Upload` an id drawn once per call (`ClientId`).

`AtomicUpdate` is what a caller may think of `Update`: a call that began over a state it read is *open*; the server carries it out over
just that state, in one step, at most once; then, or when its last attempt is refused or given up, it is open no more. In
the mapping (`Atomic`) the object is who wrote it, `Done` the operations in `applied`, and `Open` the updates that run or have an
attempt in `net` and are not done. `AtomicSpec` therefore says two things no invariant of `Writes` says at once: every
repeated, reordered or late attempt is either the one step of its call or changes nothing, and a success is never told of another call.

### 2.6 Conversations

One conversation with one participant besides its owner, and one box. `Read` is the `Get` (or the `Diff` of
`PendingInvitations`) a call makes before it posts, `Send` the post, `GiveUp` the client's side of a lost attempt, `Cancel` and `Forbidden` are as in `Writes`; `net` holds
attempts the server may still carry out. `ReadMissing` is the 404 of that `Get`: `ErrNotFound` too, but of the conversation (`missing`), and
not the one `RemoveParticipant` gives for a participant (`notFound`). A message is what `SendMessage`, `ShareDocument` and `UnshareDocument`
post: they share the id drawn once (`ClientId`) and `lastMessageId` (the last of the `Posts` in the log), so they are one kind; so are the box operations, which have
neither a read nor an id. `log` is what the server carried out, in its order; `call.prior`, `call.since` and `gone` are history.
Whether the server drops a message whose id it knows is not documented: it may (`Drop`) or may not (`Apply`).

### 2.7 Attributes

One key for each kind of attribute (string, list, date, boolean, number, money group, one without a field), each in every form the server
may write it: as expected, as a number in quotes, a date with a time, a list with an element that is no string, without a value, of
another type, no wrapper at all; the fields of a group flat or wrapped. `UnmarshalJSON` and `MarshalJSON` stand for the functions
of that name, `Get`, `Edit` and `Update` for what a caller does with them. Whether a PUT removes what it does not hold or leaves it is the
server's choice (`merges`). What the model makes plain and the properties allow, because the code says so: values the library cannot decode are
not sent back, `source` and `modified` of simple attributes are not either; edits of `Amount` and the other groups never reach
the server; a field that is cleared stays if the server merges, or if its old value was no wrapper.

### 2.8 Exports

One `ExportZIP` and the `WaitForProcess` after it, under one context. `left` counts down to its deadline, `timer` is `time.Sleep` or
`time.After`. `Unanswered` covers everything `RoundTrip` retries, a cancelled request too; `Admits` is the limiter, which is what really stops
a retry after the deadline, since `time.Sleep` does not look at the context. `Shifted` is Go's `<<` on a signed integer of `Width` bits, and
`NextDelay` the set of delays the jitter may draw. `DelaysFit`, the assumption that `BaseDelay` times `MaxDelay` fits, is what makes the
check of line 57 enough: a product that runs over is a multiple of a power of two that exceeds `MaxDelay`. The defaults satisfy it; settings
such as one hour and one day (3.6 x 10^12 times 8.64 x 10^13 ns) do not, and then a wrapped delay may be small and positive.

## 3. Runs

"pass" runs are exhaustive for their bounds. A "violation" run checks one statement of the repository's
documentation that the code does not keep; section 6 tells its story.

| run | bounds | checks |
|---|---|---|
| `transport` | two requests, `r1` writing and cancellable, `r2` refused by the server whatever it sends; two sessions that may expire; `MaxAttempts` 1 | `TypeOK`, `SendsBounded`, `RefreshesCurrentEpoch`, `InFlightShareRefresh`, `ForbiddenOnlyAfterRetry`, `EveryCallReturns`, `GateSpec` |
| `stale_retry` | two requests, one writing, one expiry | violates `RetryUsesRefreshedSession` |
| `session` | two service calls of one goroutine and a logout beside them, freshness window, two expiries, a block, a fault | `WindowNeedsConfirmation`, `EnsuredSessionHolds`, `TokenStaysStored`, `EveryOperationEnds` |
| `keepalive` | a service call and a keepalive, an expiry, a fault | `TypeOK`, `EveryOperationEnds`, `KeepAliveKeepsWarm` |
| `clobbered_session` | service calls of two goroutines | violates `EnsuredSessionHolds` |
| `logout_forces_reauth` | two service calls of one goroutine and a logout, freshness window | violates `LogoutForcesReauth` |
| `session_file` | two savers, a loader, two temporary names, five inodes, any number of errors and crashes | `TypeOK`, `NoStrayTemps`, `StoreSpec` |
| `diff_sync` | five ids, three there at first, pages of two, three edits, one failed call | `TypeOK`, `CursorMatchesCopy`, `FallbackComplete`, `DropsNeedDeletion`, `Converges` |
| `writes` | two clients (symmetric), one file, three operations, `MaxAttempts` 1, any number of cancelled calls and 403s | `TypeOK`, `NoLostUpdate`, `AcknowledgedIsApplied`, `DuplicateIsForeign`, `AtomicSpec` |
| `conversations` | two clients (symmetric), three calls, two faults (an attempt given up, a call cancelled), any number of 403s, `MaxAttempts` 1 | `TypeOK`, `LateMessagesAreRepeats`, `EffectsInOrder`, `NothingMissed`, `NotFoundWasAbsent` |
| `attributes` | any one or two attributes in any of their forms, two edits, any number of reads and updates | `TypeOK`, `CopyMeansServer`, `UpdateKeepsTheRest`, `EditsArrive` |
| `exports` | durations of five bits, six settings of the backoff, five retries, deadlines of 0 and 4 ticks or none | `TypeOK`, `ReturnsSoonAfterDeadline`, `DelaysBounded`, `WaitEnds` |

### 3.1 What the properties say

* `SendsBounded`: a `RoundTrip` sends at most `MaxAttempts + 1` times, once more after its 403; neither kind of retry
  renews the budget of the other.
* `RefreshesCurrentEpoch`, `GateSpec`: one goroutine refreshes at a time, for the epoch of its own refused attempt; a refresh that fails
  leaves the epoch. `InFlightShareRefresh`: of the requests in flight when a refresh succeeds none refreshes again. It says nothing of
  requests that have their Cookie header but are not sent yet (section 3.3).
* `ForbiddenOnlyAfterRetry`: the caller sees a 403 only of a request that was sent again after a refresh.
* `EveryCallReturns`, `EveryOperationEnds`: nothing hangs on the mutex, in the loop, on a lost exchange: requests, service calls, a logout
  (`session`), a keepalive that was stopped (`keepalive`; that it pings once more after `stop` is allowed).
* `WindowNeedsConfirmation`: `markFresh` is reached only after the server confirmed a session to this very operation.
* `EnsuredSessionHolds`: a caller whose session was confirmed is refused only if a session ended or a logout cleared
  the jar. It holds for one goroutine next to a logout and fails when two goroutines make service calls (section 6).
* `TokenStaysStored`: no login, failure or race takes the rememberMe token from the store; only a logout does.
* `KeepAliveKeepsWarm`: once faults, blocks and expiries cease, jar and store end with a live session.
* `NoStrayTemps`, `StoreSpec`: no temporary file without a crash or a failing `Remove`; `Load` returns whole sessions, the latest one, or an error.
* `CursorMatchesCopy`, `Converges`: the cursor stands for what the consumer has; when edits cease the copy is exact,
  after truncated pages, failed calls and false deletions too.
* `FallbackComplete`, `DropsNeedDeletion`: creations and changes between two pages hide nothing from the fallback;
  an object is dropped only if it was deleted, or another one was during the call.
* `NoLostUpdate`, `AcknowledgedIsApplied`, `DuplicateIsForeign`: an update replaces the state it was
  made from; an outcome is true, except a conflict after a retry (it may be the call's own first attempt: the code allows it); `ErrDuplicateDocument` never
  means the call's own document.
* `AtomicSpec`: seen from the object, an `Update` is one step over the state its caller read, taken at most once, and only while
  the call runs or an attempt of it is on its way.
* `LateMessagesAreRepeats`, `EffectsInOrder`: when something lands after a later call of the same order, it is a repeat of what landed
  before that call as well; for messages the repeat carries the same id.
* `NothingMissed`: `lastMessageId` never names a message older than one that was there when the call began.
* `NotFoundWasAbsent`: `RemoveParticipant` says "not found" only if the participant was absent at some time during the call.
* `CopyMeansServer`, `EditsArrive`, `UpdateKeepsTheRest`: after a read the typed fields mean what the server wrote; what the caller sets
  arrives, on the same day; everything else keeps its meaning, groups and unknown keys to the letter.
* `DelaysBounded`: each sleep is between half of and the whole exponential delay, capped, computed without overflow.
* `ReturnsSoonAfterDeadline`: a call is late by at most one delay. `WaitEnds`: it ends when the process or the context does.

### 3.2 Bounds

* Two requests are what the 403 branch distinguishes: one refreshes, another waits, and either may be the later one; a
  third only waits longer, and the proofs of section 5 cover it. With `MaxAttempts` 1 the budget is used, exhausted, and mixed with
  the 403 retry. Two expirable sessions let the session end again after a refresh.
* In `SessionClient` the pairs that meet are spread over the runs (call and logout, call and keepalive, call and
  call); the operations of one pair already overlap at every point. The second call of `session` is what meets the freshness
  window the first one opened. `MaxFaults` bounds lost exchanges, refused logins and store
  errors together. Sessions are numbered, so the state space stays finite only while logins do; the bounds on
  expiries and faults see to that.
* Five inodes are one for the session file, one per saver, one for a loader that reads a replaced file,
  and one left by a crash; two names let two savers run at once, and after crashes leave no name free, which ends that
  branch.
* Three objects and pages of two make two pages, so that one can shift while the other is read; three edits suffice to delete,
  create in an earlier page and change during one call. Ids 3 and 5 lie before and after what is there.
* Three operations over two clients make an update, a competing one and a third that reuses a copy read before; with
  one retry per call the first attempt may be carried out after the second, or after another client's operation.
* Three calls in `Conversations` are one whose first attempt is late, one acknowledged before it lands, and one of another client; with two
  faults either an attempt and its retry, or two calls' attempts, are late, or one call is cancelled and another one loses an attempt.
* Two attributes and two edits in `Attributes` let one disturb the other, be edited twice, or before and after an update; keys of one kind
  go through the same functions.
* Five bits and five retries in `Exports` make `BaseDelay` 1, 2 and 3 overflow to zero, to a negative number, and not at all.

`Writes`, `Conversations` and `Exports` set `CHECK_DEADLOCK FALSE`: a state in which all operations are done and no message is left is their end.
`Transport` and `SessionClient` say so themselves (`AllReturned`, `AllDone`), so that a deadlock there is a real one.

### 3.3 Beside the runs

Two questions of modules the runs use already, each with a configuration of its own:

* `SecondRefresh.cfg` (`Transport`): TLC finds `ExpiredSessionRefreshedOnce` violated, see section 6. Two reading requests, one expired session, no
  retries.
* `SessionGate.cfg` (`SessionClient`): `MutexHeldByRefresher` for two callers that are refused at the same time (862,267 states, no error): the mutex
  is held just while its owner refreshes for its own 403, in the epoch its attempt began in. `EnsureSession` may log in beside it, without mutex or
  epoch (auth.go:307). With `Faulty_ReauthFails`, which keeps the mutex, it fails. It is proved for any number of callers (section 5.3).

## 4. Fairness

* `Transport` (`FairSpec`): weak fairness of each request's steps. The Go scheduler runs every goroutine; `sync.Mutex` hands
  the lock over to a waiter that starves; backoff delays are finite; the transport and the clients' timeouts end every exchange. `Call`
  and `Cancel` are the caller's and not fair. Nothing is assumed of which answer comes.
* `SessionClient`: the same for each goroutine; the ticker ticks (`Tick`); a keepalive that is ready to take the
  cancelled context again and again does so at some time (strong fairness of `KeepAliveExits`: `select` chooses among ready
  cases at random).
* `DiffSync`: the consumer polls, and its calls end (`WF(Sync)`); failures are bounded by `MaxFaults`, edits by `MaxEdits`:
  `Converges` speaks of the time after the last one.
* `Exports` (`FairSpec`): the goroutine runs (`Step`), clocks run (`Tick`), and an attempt ends (`Respond`): it is answered, cancelled at the
  deadline, or ended by `ResponseHeaderTimeout` (client.go:28-34). That a response body ends is assumed too; without a deadline nothing bounds it. Of
  the server's work on the process (`Proceed`) nothing is assumed.

## 5. Proofs

### 5.1 Transport

`tlapm` checks the following for every set of requests, every `MaxAttempts`, every choice of writing, denied and
cancellable requests and every set of sessions that expire; `TransportAssumption` is all that is assumed of the constants.

| theorem | statement |
|---|---|
| `GateKeepsPromise` | `AnyGate!Spec => []AnyGate!RefreshesCurrentEpoch` (of `ReauthGate` by itself) |
| `Invariance` | `Spec => []IInv` |
| `TypeCorrect` | `Spec => []TypeOK` |
| `SendBudget` | `Spec => []SendsBounded` |
| `ExclusiveRefresh` | `Spec => []RefreshesCurrentEpoch` |
| `RefreshServesInFlight` | `Spec => []InFlightShareRefresh` |
| `ForbiddenIsFinal` | `Spec => []ForbiddenOnlyAfterRetry` |
| `ImplementsGate` | `Spec => GateSpec` |
| `LoopTerminates` | `Spec => CallsEnd`: a call takes at most `32 * MaxAttempts + 44` steps of its goroutine |

None of the properties is inductive. `IInv` is `TypeOK` with four parts, each with a lemma of its own that every step preserves it:

* `Budget`: how much a frame has sent at each place of the loop, relative to its attempt counter. `SendsBounded` alone
  is not preserved by `Transmit`; one has to know that a frame that is about to send has sent no more than `attempt` times (and
  once for the 403), and that `Backoff` is entered only with attempts left.
* `MutexAndHandshake`: the owner of the mutex is the frame at `hold`, a handshake exists only under the mutex, and its
  frame never gets to the mutex itself (`withSkipReauth`): that is why the goroutine does not wait for itself.
* `Epochs`: the epochs of a snapshot and of the sending after it are never ahead of `reauthEpoch`, the second is not before the first, and at
  `hold` the snapshot's equals `reauthEpoch`. Between them the sending's is caught: this is the proof of
  `InFlightShareRefresh`.
* `Retried`: a request that used its 403 retry has a snapshot of an epoch after the first, and has sent more
  than once when its second answer comes.

`StepCases` splits `Next` into the actions once; each lemma has one step per action. For `ImplementsGate` the mapping is
`epoch <- reauthEpoch`, `owner <- reauthMu`, `seen <- epochAt` of the main frame, and `turn` by the frame's place and whether
it used its retry; the invariant is needed where a step must leave the gate alone (a handshake's step must not be
mistaken for a main frame's) and where `RefreshFails` has to map to the gate's `Fail`.

`LoopTerminates` is the part of `EveryCallReturns` that is safety: with the number `Left(r)` of steps a call has left, every step of its own
makes it smaller and no step of another goroutine, of the server or of the context changes it. A frame has four steps for each attempt left (`Rounds`);
the 403 branch is entered once (`Branch`), and its handshake is at most seven requests with loops of their own (`After`). The two kinds of retry, one
inside the other, therefore make no endless loop, whatever the server answers; that a goroutine takes its steps is what fairness adds.

### 5.2 Session file

For any savers, loaders, names and inodes, with `FileAssumption` (the values differ):

| theorem | statement |
|---|---|
| `TypeCorrect` | `Spec => []TypeOK`: every `Load` returns a whole session, none, or an error |
| `NoLeftovers` | `Spec => []NoStrayTemps` |
| `ImplementsStore` | `Spec => StoreSpec` |

The refinement needs an argument of ownership, which is what `IInv` adds to the types: `Apart` (no two names share an inode, no
two savers a temporary name), `Saving` (a saver writes to the inode of its own temporary name, and before `Rename` that
inode holds the whole session), `Loading` (an open session file is whole, and no saver writes to it), `Whole` (so is the one
under the path). `NotWritten` concludes that neither the session file nor a file being read changes, so that all steps but
`Rename`, `Open`, `LoadFails` and `Crash` are stutters of `AtomicStore`.

### 5.3 Session handling

For any disjoint sets of callers, keepalives and goroutines that log out, any number of calls, sessions and faults
(`SessionAssumption`):

| theorem | statement |
|---|---|
| `Invariant` | `Spec => []IInv` |
| `TypeCorrect` | `Spec => []TypeOK` |
| `WindowIsEarned` | `Spec => []WindowNeedsConfirmation` |
| `MutexIsHeldByRefresher` | `Spec => []MutexHeldByRefresher` |
| `TokenIsKept` | `Spec => TokenStaysStored` (an action property) |
| `EnsuredSessionIsUsed` | `Spec => []EnsuredSessionHolds`, if there is one caller and no keepalive (`OneCaller`) |
| `OperationsAreFinite` | `Spec => OperationsEnd`: an operation takes at most 30 steps of its goroutine |

A goroutine acts on what it read some steps ago, and each part of `IInv` follows one such reading to the place where it is used:

* `Roles`: only goroutines that log out run `logout`, and do nothing else.
* `Mutex`: the owner of `reauthMu` is inside `reauthenticate` and the epoch stands still; and conversely a refresh a 403 began
  owns it. The second half is what the first needs: `Save` moves the epoch, and must not do so under another owner.
  Refreshes `EnsureSession` began run beside it, without the mutex.
* `Window`: on the whole way from the answer of a login over `KeepCookies`, `SnapJar` and `Save` to `MarkFresh` the goroutine is one the
  server confirmed a session to.
* `Token`: as long as no logout has cleared the jar, a token in the store is in the jar, and at `tokening`, `snap` and `save` there is one in
  the jar (at `save` in the copy, too). `persistSession` saves a copy of the jar that may be old, so the store alone says nothing.

`EnsuredSessionHolds` needs `ConfirmedIsUsed`: the confirmed session is the one the request in flight carries, or the one in the jar while the goroutine is
between the confirmation and its request. `OneCaller` is necessary, not a convenience: with two callers, or a caller and a keepalive, one
overwrites the jar of the other, which is what `clobbered_session` shows. `OthersStand` and `EnvironmentStep` say once what a
step leaves alone in the goroutines that do not take it; each lemma about a part is then about the goroutine that does.

`OperationsAreFinite` is what `EveryOperationEnds` rests on. An operation has two ways back: from the 403 branch to the request, and from a `token/login`
whose session could not be saved to a login by password. `Once` is the invariant that each is taken once; with it `Ahead`, a number for each
place, goes down with every step of the goroutine, whatever the others do to jar, store and mutex. Only a keepalive's ticker gives it more to do.

### 5.4 Delta sync

For any finite set of ids, any objects at first, any page size, any number of changes and failed calls (`DiffSyncAssumption`):

| theorem | statement |
|---|---|
| `TypeCorrect` | `Spec => []TypeOK` |
| `CursorIsTheCopy` | `Spec => []CursorMatchesCopy` |
| `FallbackMissesNothing` | `Spec => []FallbackComplete` |
| `OnlyDeletedIsDropped` | `Spec => DropsNeedDeletion` (an action property) |
| `CallsCatchUp` | `Spec => CatchesUp` |

`FallbackComplete` says something about the end of a loop whose offset means something else after every change of the server's objects. `Paging` is
its invariant: the objects that have been there all along (`steady`) and stand before the offset are among the rows. It survives a
page because a page holds the next `Limit` objects (`PageFacts`, from `WindowSize`: no two objects have one rank, and no rank below the number
of objects is free), a creation because that only moves objects back, and a deletion because that empties `steady`. `Known` ties what the cursor knows to what the server has or had,
for `OnlyDeletedIsDropped`; `Counted` bounds versions by the number of changes.

`CallsCatchUp` is the part of `Converges` that is safety. `Current` says that what the running call has received is what the server has. Every call begins so, and
while nothing changes it stays so. Its result then takes no object back from the consumer (`Wrong` gets no new member), and if the copy is
not exact, brings at least one object: a truncated page of a diff is full, and a fallback receives everything. `ToDo`, which counts the
wrong objects and, among them, the steps to the next result (`Steps`), gets smaller with every step; so `n` ids are caught up with in
at most `(n + 4) * (n + 1)` steps. It needs `GoneForGood`, that an id does not come back. A call ends whatever changes meanwhile.

### 5.5 Writes

For any set of clients, any number of operations and any backoff budget (`WritesAssumption`):

| theorem | statement |
|---|---|
| `TypeCorrect` | `Spec => []TypeOK` |
| `NoUpdateIsLost` | `Spec => []NoLostUpdate` |
| `UpdateTakesEffectOnce` | `Spec => []UpdatesOnce` |
| `AnswersAreTrue` | `Spec => []AcknowledgedIsApplied` |
| `DuplicatesAreForeign` | `Spec => []DuplicateIsForeign` |
| `UpdateIsAtomic` | `Spec => AtomicSpec` (refinement of `AtomicUpdate`) |

What the server does is decided by requests that may have been sent long ago, so `IInv` speaks of every request in `net`: it says what its call
says, one per attempt (`Requests`); its base is not ahead of the object, and of the same version only if it is the same state (`Copies`); and
what is left in `net`, or may still be sent, of a call that was carried out has an older version than the object
(`History`), which is why it cannot match again. `FirstAttempts` says that a call that never retried has nothing in `net` once it is carried
out, or answered with a success or a conflict: that makes "a conflict without a retry was not carried out" true. `Documents` does for `Upload` what `History` does for `Update`.

`UpdatesOnce` (no `Update` is in `applied` twice) is an invariant of `WritesProofs` and not of a run: `AtomicSpec` says it, and more. `AtomicStep` maps each action: `Begin`
to the abstract `Begin`, a request that matches to `CarryOut`, which is enabled because the version says that the object is in the state the caller
read and `UpdatesOnce` that the call is still open; a deletion to `Delete`; everything else withdraws updates from `Open`, or leaves it
alone. Two facts beyond `IInv` go into it: a copy names a state the object really had (`Sources`), and a request in `net` of an answered call may
still count as open.

### 5.6 Conversations

For any set of clients, any number of calls, faults and retries (`ConversationsAssumption`):

| theorem | statement |
|---|---|
| `TypeCorrect` | `Spec => []TypeOK` |
| `LateMessagesRepeat` | `Spec => []LateMessagesAreRepeats` |
| `EffectsAreOrdered` | `Spec => []EffectsInOrder` |
| `NoMessageIsHidden` | `Spec => []NothingMissed` |
| `NotFoundIsTrue` | `Spec => []NotFoundWasAbsent` |
| `OnlyFaultsRepeat` | `Spec => []OnceInOrder` |

`Bodies` is the heart: every trace of a call, at its client, in `net` or in the log, remembers how much of the log there was when it began
(`since`), each call acknowledged by then has an entry in that part (`Based`), and the message it names is not older than any post in it
(`Covered`). The log only grows (`LogKeeps`), so that what was true when the call began still is. `Numbers` makes a number one call's, `Acknowledged`
puts acknowledged calls into the log, `Away` is the participant's part. That posts which are there have a last one (`LastOfSome`) rests on a least
element of a set of naturals, which the library's well-founded minimum gives.

`OnlyFaultsRepeat` is the converse of what the first two allow: as long as no attempt was given up and no call cancelled, each call has at most one effect and effects
come in the order in which the calls returned. `NoRepeat` is its invariant: without a fault a call has one request on its way at most, it is the
one its client waits for, and nothing of it is in the log yet.

### 5.7 Attributes

For any number of edits, and for documents with any number of attributes in any of their forms: `Init` begins with one or two so that TLC can enumerate
them, `AnyInit` with any, and `AnySpec` is the behaviour from there.

| theorem | statement |
|---|---|
| `AnyDocument` | `Spec => AnySpec`: the theorems below hold of what the run checks |
| `Invariant` | `AnySpec => []IInv` |
| `TypeCorrect` | `AnySpec => []TypeOK` |
| `CopyIsRead` | `AnySpec => []CopyMeansServer` |
| `UpdateIsSelective` | `AnySpec => UpdateKeepsTheRest` (an action property) |
| `UpdateIsComplete` | `AnySpec => EditsArrive` (an action property) |
| `RoundTripSettles` | a document read and written back may be rewritten (a date loses its time, a number its quotes); a second round trip changes nothing |

`CopyMeansServer` compares the caller's copy with the server's document, which drift apart from a `Get` to the next `Update`. `IInv` has two parts: `Typed`, which
bounds what the server may hold (`Stored`: the forms it sent and those `MarshalJSON` writes), and `InStep`, that the copy is what `UnmarshalJSON`
makes of the server's document but for the fields the caller set. `PutBack` says what an `Update` leaves on the server, key by key, whether it
merges or replaces; the two action properties follow from it. `SimpleForms`, `GroupForms`, `DecodedFits` and `EncodedFits` are about the
two conversions: what one writes the other reads as it was.

### 5.8 Exports

For any `Width`, any settings of the backoff, intervals and deadlines (`ExportsAssumption`; `DelaysFit` only for the third, `DelaysAreExact`):

| theorem | statement |
|---|---|
| `TypeCorrect` | `Spec => []TypeOK`; one `ExportZIP` starts at most `MaxAttempts + 1` exports |
| `DeadlineOverrun` | `Spec => []ReturnsSoonAfterDeadline` |
| `DelaysAreExact` | `Spec => DelaysBounded` (an action property) |
| `ExportsEnd` | `Spec => EndIsNear` |

`Overrun` is what makes `DeadlineOverrun` inductive: once late, only a sleep is left, and the time late plus the time still to sleep is within one delay;
nothing is sent or polled (`limiter.Wait`). `DelayRange` says that a delay is within `0..MaxDelay` whatever the shift yields, which takes no
more of `2^n` than that it is a positive number (`PowersOfTwo`). `StartedBound` relates the exports started to the attempt counter.

`DelaysAreExact` is arithmetic (`DelayExact`): if `BaseDelay * 2^n` runs over, `2^n` is more than `MaxDelay` by `DelaysFit`, and what is left after
the wrap is zero, negative, or, being a multiple of `2^n`, more than `MaxDelay` (`Residue`); each is replaced by `MaxDelay`. It needs
`2^(m + n) = 2^m * 2^n` (`PowersAdd`), which is proved without induction, by counting: a subset of `1..m+n` is a subset of `1..m` and one of the rest.
`DelaysFit` is needed: with five bits, `BaseDelay` 9 and `MaxDelay` 12, TLC finds a sleep of 2 to 4 instead of 6 to 12.

`ExportsEnd` is the part of `WaitEnds` that is safety. Under a deadline `ToDeadline` counts the ticks left, each with what one poll and one more attempt may take, and goes
down with every step, answer and tick: a poll that finds the process running costs a tick in `select`, because an interval that is not positive is
replaced by the default (`Pause`). Once the process has ended, `ToResult` goes down with every step and answer, and no tick takes it up again. `Ahead`
counts the steps of one request with all its attempts and sleeps; that they are within bounds uses `DelayRange`. `Unborn` says that before the
export there is no process.

### 5.9 Only model-checked

* Liveness (`EveryCallReturns`, `EveryOperationEnds`, `KeepAliveKeepsWarm`, `Converges`, `WaitEnds`): fairness and `ENABLED` are
  out of the prover's reach. That nothing goes round in circles is safety, and proved:
  `LoopTerminates`, `OperationsAreFinite`, `CallsCatchUp` and `ExportsEnd` bound the steps. What only TLC shows is that a step can always be
  taken (nothing waits for ever on the mutex) and then is; and all of `KeepAliveKeepsWarm`.
* `EnsuredSessionHolds` with several callers is false, `LogoutForcesReauth` and `RetryUsesRefreshedSession` are (section 6).

## 6. Findings

What the runs show where the code and the repository's own words disagree.

1. `stale_retry`. A writing request that is sent again after a refresh pairs the fresh XSRF token with the Cookie header
   `http.Client` wrote before `RoundTrip` was called, and is refused (README.md:161-163, transport.go:50-51).
2. `clobbered_session`. `ensureSession` writes what it loaded into the shared jar, later: two service calls load the
   expired session, one renews it, the other overwrites the fresh cookies with the expired ones (auth.go:280-282).
3. `logout_forces_reauth`. `logout` leaves `verifiedUntil`: inside the freshness window the next call skips the
   check and is sent with an empty jar (auth.go:397-399).

Further disagreements the models follow the code in, without a run in `PROJECT.json`:

* Requests that run into the same expired session may refresh twice. The Cookie header is written before `limiter.Wait` and the snapshot: a request
  that waits for the limiter while another one's refresh succeeds snapshots the new epoch, is refused for the old cookie, finds the epoch where
  it left it and renews the session that was renewed a moment ago (transport.go:161-170, 200; README.md:163-165 and transport.go:51-53 say that all share
  one refresh). `tlc -config SecondRefresh.cfg Transport` gives that trace: `ExpiredSessionRefreshedOnce`.

* `secondsBlocked` is read only if the session is authorized; with an expired session the client logs in against the block
  it was just told of (auth.go:299; ADR-0005, item 3 says it waits). In `SessionClient`, `ProbeAnswer`.
* `logout` ignores the status of the answer: refused, it clears jar and store, returns nil, and the session stays valid
  (auth.go:409; client.go:213 says the session is ended). In `SessionClient`, `LogoutAnswer` and `LogoutFails`.
* The fallback calls "deleted" what `queryAllPages` did not find; a deletion in an earlier page hides the first row of the next
  (documenttypes.go:54; query.go:178, docs/API.md:337 say deleted). `DropsNeedDeletion` says how far it goes, `Converges` that the
  next complete call repairs it.
* `time.Sleep` in `RoundTrip` (transport.go:184) outlasts a context that is done. `ReturnsSoonAfterDeadline` says by how much.

## 7. What the models leave out

* Time outside of `Exports`: the length of delays, TOTP codes, the clock of the freshness window (it just ends at some time).
* The limiter, except as the point where a done context ends a request: in `Exports` a token is there when one is asked for, though
  the real limiter may make a call wait, or refuse it early when the deadline would pass meanwhile. `newLimiter`'s defaults.
* In `Exports`: the 403 branch (in `Transport`), whose wait for `reauthMu` does not look at the context either and is not counted in `late`; the time
  `EnsureSession` takes.
* Cookies by path: the models keep one cookie per name, at `Path=/`. The jar really files cookies the handshake sets without a
  path under `/api/f`, where `clearJar` does not look (a hazard without a property so far).
* The flag that lets `RoundTrip` send again after one 403 only, in `Writes` and `Conversations` (it is in `Transport` and `SessionClient`): they
  allow more resending than the code.
* Cookies set by other answers than a login's; the steps of `NewClient` (the jar holds the stored session at first).
* In `SessionClient`: the explicit `Client.Login`; the backoff loop around each exchange (in `Transport`); `start` and
  `existent`, which are part of one login exchange.
* Power loss: without fsync the file system decides what a renamed file holds; `Crash` is the death of a process.
* Wire formats apart from the attributes of documents: `CompanyAttributes` (lists only, the same functions), `flexInt64`, the plain
  structs, fields of a document the library does not know (lost by an `Update`, as encoding/json does it), error texts, downloads, single reads.
* Conversations beyond one participant and one box; `DocumentService.Conversations`, a filter over one `Diff`; lists that are one page of a diff.
* The share client, search, OCR, links: single requests without state.

## 8. Plan

Done: all modules of section 2, checked; proofs of every invariant, every safety property about steps and every refinement a passing run checks, and of the
bounds that liveness rests on.

Next, in this order:

1. In `SessionClientProofs`: what does hold for several callers (a session one of them loses was replaced in the jar by another). The gate of
   `Transport` in `SessionClient` is a mutex and an epoch as well; that it implements `ReauthGate` needs each operation of a goroutine to be a request
   of its own there.
2. An abstract specification for `Conversations`: a log in which a call appears in order, or repeats.
3. A jar with paths under `SessionClient`; `Contacts.Create`, `Reminders.Create`; `Client.Login` next to a keepalive.
