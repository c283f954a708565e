# Verification of dpop-auth

TLA+ models of the parts of `dpop-auth` that keep state: refresh-token rotation,
DPoP proof validation, the e-mail outbox, two-factor authentication, registration
and login, tenant transactions on the connection pool, and the example web
application with its server. TLC
checks them on small instances, TLAPS proves the main results for every value of
the constants. `PROJECT.json` lists components, runs, findings, hazards, theorems
and, under `map`, the source lines each definition stands for. Paths below are
relative to `src/dpop-auth/src/` unless they start with `src/`.

## 1. Inventory

| Component | State | Operations | Talks to |
|---|---|---|---|
| Refresh tokens (`service/auth.rs`, `service/mod.rs`, `store/repo/refresh_tokens.rs`) | table `dpop_refresh_tokens`; a grace cache per process | `refresh`, `logout`, `issue_session`, revocation of a family and of all tokens of a user | PostgreSQL, users |
| Proof validation (`dpop.rs`, `axum/middleware.rs`, `state.rs`, `cache/`) | jti cache, nonce cache, per process | `validate_dpop_proof`, `authenticate` | access tokens, clients |
| Web client (`src/examples/web/src/client.rs`, `crypto.rs`) | none between calls | `dpop_requests`: one retry after a nonce challenge | the middleware |
| Web application (`src/examples/web/src/app.rs`, `storage.rs`) | a key pair in IndexedDB, shared by the tabs; signals `page` and `access_token` of each tab | `init_state`, the two forms, the dashboard, logout, reload | the client, the example server |
| Example server (`src/examples/server/src/lib.rs`) | none of its own | routes `register`, `login`, `me` | proof validation, accounts |
| E-mail outbox (`service/email.rs`, `store/repo/email.rs`, `email.rs`) | table `dpop_email_outbox` | `enqueue_email`, `claim_pending_emails`, `mark_email_sent`, `mark_email_failed`, the polling loop | PostgreSQL, an SMTP relay |
| Two-factor authentication (`service/totp.rs`, `store/repo/totp.rs`, `crypto/totp.rs`, `cache/totp.rs`) | five columns of `dpop_users`, table `dpop_recovery_codes`, a replay cache per process | `setup_2fa`, `confirm_2fa`, `verify_2fa_code`, `disable_2fa`, cleanup of drafts | PostgreSQL, users |
| Accounts (`service/auth.rs`, `store/repo/users.rs`, `identifiers.rs`) | `dpop_users`, `dpop_identifiers` | `register`, `login`, `update_password` | sessions, two-factor, attempt log |
| Login-attempt log (`store/repo/login_attempts.rs`) | `dpop_login_attempts` | record, count | accounts |
| Tenant transactions (`store/tenant.rs`) | a transaction-local variable | begin, commit, rollback | PostgreSQL row-level security |
| Connection pool (`store/pool.rs`) | at most 10 connections | acquire, begin | everything that uses the database |
| Errors (`error.rs`, `store/error.rs`) | none | status and headers of an answer | the client acts on them |
| Configuration, tokens, cookies, extractor, derive macro, crypto helpers | none | pure functions | |

What is hard here. Services are `async` and run concurrently on several nodes
against one database at READ COMMITTED: statements of different calls interleave,
an `UPDATE` sees the snapshot of its start and waits for locked rows, and a call
may be dropped at any await. Caches live in one process: they expire, evict at
their capacity and vanish in a restart. Acknowledgements of commits get lost,
workers crash between a delivery and its mark, leases run out while their owner
still works, and several lifetimes (freshness window and jti entry, TOTP window
and replay entry, nonce and retry) have to fit together to the tick. Connections
are lent to one call after another and carry what the call before left on them; a
statement that fails inside a transaction spoils it, also when its error is
dropped. In the browser, responses arrive after the page that asked for them is
gone, and tabs write one IndexedDB. The list of
hazards in `PROJECT.json` names the line where each one bites and the properties
that would notice; those without a property say why.

Correctness, per component:

* refresh tokens: one live token per session, rotated at most once; what a client
  gets is the successor of what it presented, bound to the key of the session;
  a dead session stays dead; calls return;
* proof validation: a proof is accepted once, and a session goes to the holder of
  the key its access token is bound to; a client that answers a challenge is served;
* outbox: every e-mail is settled, none is delivered twice without a lease having
  been taken over, and a sent row is final;
* two-factor: a factor is accepted once, the enrolment columns agree;
* accounts: an identifier leads to one user, a registration is all or nothing, an
  answer is justified by the state at some moment of the call, calls return;
* pool and tenants: a call sees rows of its own tenant only, whatever ran before on
  its connection; connections come back clean; calls return, also from a pool that
  is exhausted;
* web application: a submit runs the service once, a tab's token fits its key, and
  what is on screen belongs to the session on screen.

## 2. Modules

Each component has a module (state, one action per statement or step of a
handler, properties, inductive invariant), an `MC` module (symmetry and, for
ProofValidation, the functions a configuration file cannot write), configuration
files, and a `...Proofs` module where something is proved.

| Module | Models | Extended by |
|---|---|---|
| `SessionFamilies` | abstract specification: a session family has a head, which rotates to a token never used before, or is killed for good | instantiated by `RefreshTokens` |
| `RefreshTokens` | rotation, reuse detection, logout, revoke-all, grace caches of several nodes | `MCRefreshTokens`, `RefreshTokensProofs` |
| `ProofValidation` | `validate_dpop_proof` inside `authenticate`, jti and nonce caches, the retrying client | `MCProofValidation`, `ProofValidationProofs` |
| `MailQueue` | abstract specification: a message is queued, held by workers, and confirmed after the transport has accepted a copy | instantiated by `EmailOutbox` |
| `EmailOutbox` | outbox rows, workers, deliveries, leases | `MCEmailOutbox`, `EmailOutboxProofs` |
| `TwoFactor` | enrolment, factors, recovery codes, replay cache | `MCTwoFactor`, `TwoFactorProofs` |
| `Accounts` | `register`, `login`, identifiers, the attempt log, administrative changes beside them | `MCAccounts`, `AccountsProofs` |
| `ConnectionPool` | pooled connections, `TenantTx`, nested acquisitions | `MCConnectionPool`, `ConnectionPoolProofs` |
| `WebApp` | browser tabs and the example server; composes the answers of `Accounts` and of proof validation with the client | `MCWebApp`, `WebAppProofs` |

Definitions named `OpNoX` stand before the definition `Op` they vary: `Op` with
one plausible mistake. No specification uses them. `PROJECT.json` pairs each
property with the variant that breaks it, as evidence that the property sees the
code.

### RefreshTokens

A request is a program counter and the local variables of `refresh`: the token and
key presented, the secret generated, the rows locked. `status` and `row` are what
other transactions see, so the effects of a transaction appear in its commit
action; until then the rows it has updated are in `locks`.

* `CasWin` and `CasMiss` are `revoke_refresh_token_if_active` and the lookup after
  it; a locked row makes the statement wait (neither is enabled).
* `FamilySnapshot`, `RevokeRow`, `RevokeCommit` are the multi-row `UPDATE`: the
  snapshot is taken at the start, rows are visited in any order, each is waited for
  and tested again. `BeginRevokeAll` runs the same statement for a user.
* `Check`, `Insert`, `GraceInsert`, `RefreshCommit` follow the winner. The grace
  entry is made before the commit, as in the code, and the commit may succeed
  without its acknowledgement.
* `Abort`, `Crash`, `GraceEvict`, `SoftDelete`, `Tick` are the environment.
  `Deadlocked` describes the requests PostgreSQL's deadlock detector may fail: bulk
  revocations that have taken rows of a user in different orders.

Abstractions: a secret stands for its hash; `row.parent` is history; Unauthorized
and Internal errors are one answer, `Failed`, because neither reveals or changes
anything; time is one clock; `OpenSession` is a single step (the row of a new
session is written by one statement, and the user may have been deleted since it
was looked up).

### ProofValidation

Time is in ticks finer than a second. The window is tested on `ClockReadings`, a
clock truncated to whole seconds, while cache entries expire on the monotonic
clock; a request may pause up to `MaxDelay` between the two. `LatencyAssumption`
(`Truncation + MaxDelay < Buffer`) is what the comment in `cache/jti.rs` says the 5
seconds are for. `sent` is every proof ever signed: `Redeliver` sends one again on
any connection and with any access token. `Screen` covers the checks up to `htu`;
any delivery may also fail there on its form. The key comparison of
`middleware.rs:121` comes after the jti is consumed, as in the code. One process is
modelled, since the caches are per process; steps of the wall clock are not.

### EmailOutbox

The row of an e-mail is `created` (its place in `ORDER BY created_at`), `sent`,
`attempts`, `wait` (time until `available_at`) and `lease` (age of `locked_at`).
`Claim` takes the oldest claimable rows up to the batch size in one step: `FOR
UPDATE SKIP LOCKED` makes concurrent claims disjoint, and a claim commits at once.
`process_batch` runs one task per item (`task`, `snap` for the `attempts` the claim
returned). `MarkLost` is an acquisition or statement that failed and whose error is
dropped. `MaxFaults` bounds crashes and lost marks. `copies` and `reclaimed` are
history. Refused deliveries are not counted as copies.

### TwoFactor

One user, as no statement touches two. `holds` is the lock on the user row, `rows`
the recovery codes locked by the open transaction, `cand` the snapshot of the
invalidation, whose rows are locked in one step. A TOTP code is the pair of secret
and time step. `verify_totp_once` is two steps, since its insertion is awaited:
`CheckTotp` reads the clock and tests the code, `ClaimTotp` (or `Reject`) finds or
makes the replay entry any time later. `Abort` is a statement that failed or a
dropped future; `AbortClaimed` is a future dropped while its recovery code is being
consumed or its TOTP code entered, which takes effect without an answer. `disable_2fa`
tests `totp_enabled` twice before it verifies the code; the two reads are one step,
and a first read that fails is an `Abort`. History: `confirmed` are the codes that
`confirm_2fa` accepted, `spent` and `respent` the factors that `verify_2fa_code` or
`disable_2fa` accepted, and accepted again, `late` the codes claimed after their
window, `dropped` the codes whose unexpired entry was lost.

### Accounts

A registration is `BeginRegister`, then `Insert` or `Conflict`, `OpenSession`,
`Audit`, `Commit` and `SignToken`; its rows are those of the transaction in `tx`
until `Publish`, in the commit, shows them. The unique index on `(kind,
LOWER(value))` is `Taken` (a committed live row: `Conflict`) and `InFlight` (a row of
an open transaction: neither `Insert` nor `Conflict` is enabled, the statement
waits). `Audit` is the attempt that is recorded inside the transaction: its failure
leaves the transaction `aborted`, and `Commit` of an aborted transaction publishes
nothing and is no error, as in PostgreSQL. A login is `FindUser`, `Verify` (or
`Reject`), `Stamp`, `Record`, `IssueSession`, each its own commit; the two statements
in the middle may fail unnoticed. `Fail` is every `?`, `CommitLost` a commit whose
acknowledgement is lost, `Cancel` a future dropped between statements, and
`CancelStored` one dropped while a statement is under way that takes effect all the
same (an attempt is recorded, a login stamped, a session or a registration stored,
and nobody is told).

Abstractions: one kind of identifier; `Lower` stands for `to_lowercase` and for
`LOWER`, and is idempotent; a hash is its password, and an unknown user is compared
with `Dummy`; `BEGIN`, `create_user` and `create_identifier` are one step, since
nobody sees the rows of the first two before the third ends (and a user has a fresh
id); ids of users and of login attempts are the numbers of the calls that write
them, each at most one. `seen` and `unaudited` are history; `Observe` notes `seen`
with every step.

### ConnectionPool

A connection has an owner, a transaction or none, the tenant set for the transaction
(`scoped`) and for the session (`session`). `SetTenant` is `set_config(..., true)`; at
the end of the transaction PostgreSQL leaves the parameter with an empty value
(`After`), which the policy of the tests turns to NULL (`Visible`). `Drop` is the end
of scope of a call that gives up: its transactions are rolled back later
(`RollBack`), and the connection is not lent before. A call is one of five kinds,
which differ in how they acquire: `confirm_2fa` and `disable_2fa` hold a first
connection while they wait for a second, and `disable_2fa` has the one of
`verify_2fa_code` in between. A call that waits either gets a connection or times
out. The pool, its timeout and the rollback on drop are sqlx's, modelled from how
the code relies on them.

### WebApp

A tab is `boot` and `key` (`init_state`), the signals `page` and `token` of `App`, and
what is on screen (`view`, `profile`). A signal that is set makes the tab `dirty`, and
`RenderForm` or `RenderDashboard` replaces the view; calls of the view that was
replaced go on (`Detached`), but their own signals are disposed of. `put` is the
write to IndexedDB that `save_key_pair` does not wait for. A call is a request, its
try (1 or 2), and the scope that still awaits it. The server is `Challenge`,
`RejectProof`, `Register`, `Login`, `Me`: which of them answers is nondeterministic
but for the nonce, the key and the route; `ProofValidation` and `Accounts` say when.
The nonce is a flag, and a nonce that has expired meanwhile is challenged again.
Inputs, layout and messages are left out.

## 3. Runs

| Run | Checks | Bounds and why |
|---|---|---|
| `RefreshRaces` | `OneActivePerFamily`, `SingleSuccessor`, `ReuseKillsFamilyUnlessRaced`, `LogoutEndsSessionUnlessRotated`, `OnlyBulkRevokesHoldAndWait`, `AnswersAreSuccessors`, `DeadFamilyStaysDead`, `ImplementsSessions` | three calls, three tokens in two families of one user: a rotation may commit between the snapshot and the commit of a reuse, and revoke-all has rows to hold and rows to wait for. One node: to a call, the cache of another node is a cache that has lost the entry (`Crash`, `GraceEvict`) |
| `RefreshLive` | `FamilyUniform`, `AnswersBoundToFamilyKey`, `EveryCallReturns` | two calls, two keys, two tokens, a clock that lets tokens and grace entries expire, under `FairSpec`. The tokens are two sessions of one user, whose revoke-alls take the rows in opposite orders and block each other (`Deadlocked` is true after six steps), or one session and its rotation. `InOrder` fixes the names of the first session, in place of symmetry |
| `RefreshReuse` | a statement of the documentation | violated, see section 6 |
| `ProofReplay` | `NoReplay`, `SlotsFromFreshProofs`, `SessionBelongsToKeyHolder` | two requests, two keys, redelivery over the whole window plus the life of an entry |
| `ProofNonce` | `LimitOnlyIfNonceGone` | nonces required, expiring, evicted at a capacity below the number issued |
| `OutboxRetries` | `TypeOK`, `OnceUnlessReclaimed`, `AttemptsOvershoot`, `SentIsFinal`, `EveryEmailSettles`, `ImplementsQueue` | two workers, two e-mails, two attempts, one fault, a lease of one tick, under `FairSpec` |
| `FactorCalls` | `FactorsAreSingleUse`, `SpentStaysSpent`, `EnrolmentConsistent` | two calls, two secrets with their codes of step 1, a recovery code, two ticks to a TOTP step: the window of a code is the ticks 0 to 5 and a replay entry lives for 6, so with the clock going to 7 a code is tested and claimed at every offset, entries expire at and after the end of the window, and a claim may come after it; drafts expire |
| `FactorVerified` | a statement of the documentation | violated, see section 6 |
| `AccountRaces` | `TypeOK`, `IdentifierResolvesToOne`, `AccountsAreWhole`, `LoginsAreJustified`, `RegisteredUnlessUnaudited`, `EveryCallReturns` | two calls at a time and three in all, so that a user registers, and a login and a second registration then race with a change; two spellings of one identifier; two passwords, one of them the dummy's; under `FairSpec` |
| `AccountDurable` | a statement of the documentation | violated, see section 6 |
| `PoolTenants` | `TenantIsolation`, `PooledConnsAreClean`, `StuckOnlyIfSaturated`, `EveryCallReturns` | two calls, two connections, two tenants, under `FairSpec`: the calls can saturate the pool, and each can find the connection of the other one |
| `WebTabs` | `TypeOK`, `OncePerSubmit`, `TokenFitsTabKey`, `ProfileIsOwn` | two tabs, two calls in flight, two key pairs, two users, four acts: enough for two logins, a logout and a reload with answers still on their way |

The type invariants of `RefreshTokens`, `ProofValidation`, `TwoFactor` and
`ConnectionPool`, the inductive invariants, and `ReturnedCallsHoldNothing` of `ConnectionPool` are in no
run: they are proved (section 4).

Deadlock checking is on where the environment keeps a specification going. It is off
for `Accounts` and `WebApp`, whose clients may stop calling and whose calls and acts
are bounded; that no call is stuck there is `EveryCallReturns` for `Accounts`.
Symmetry is used in the safety runs only, over sets no action and no property tells
apart; `RefreshLive` has a constraint instead, `InOrder`, which prunes steps of
`OpenSession` only, an action without fairness. Bounds on time, proofs, faults, calls, changes and acts (`MaxTime`,
`MaxProofs`, `MaxFaults`, `MaxDelay`, `MaxCalls`, `MaxChanges`, `MaxActs`) are
constants tested in guards.

### Fairness

* `RefreshTokens`: strong fairness of the steps of a running request, together with
  `Abort(r) /\ Deadlocked(r)`, PostgreSQL's deadlock detector. The runtime polls a
  ready future, and PostgreSQL queues the waiters of a row lock, so a statement that
  finds its row free again and again goes through. Without the detector two bulk
  revocations of `RefreshLive` would wait for ever, and if a transaction it has failed
  were run again without end (`AbortNoError`) they could block each other for ever.
  Clients are under no obligation to call.
* `Accounts`: weak fairness of the steps of a call. A registration waits only for a
  transaction that is itself a call, and the index entry is free once that has ended.
* `ConnectionPool`: weak fairness of the steps of a call, its timeout included, and
  of the rollback of a dropped transaction. Nothing is assumed of waiting calls: an
  acquisition may be overtaken until it times out. Strong fairness of `Finish` says
  that an application does not run statements in one transaction for ever.
* `TwoFactor` and `WebApp` state no fairness: the waits of the former are those of
  `RefreshTokens` and `ConnectionPool`, and the latter has a user in every loop.
* `EmailOutbox`: the polling loop runs for ever, a delivery ends (lettre has a
  timeout), its mark is executed, and time passes. Faults are finitely many
  (`MaxFaults`): with a fault in every delivery nothing could settle.

## 4. Proofs

For every value of the constants, from the named assumptions in the modules
(`NoneAssumption`, `TimeAssumption`, `ConstantsAssumption`, `LatencyAssumption`,
`OutboxAssumption`, `TwoFactorAssumption`, `AccountsAssumption`, `PoolAssumption`,
`WebAssumption`), which TLC evaluates in each run. They say that the bounds are
natural numbers, that sets are finite where they are counted, that a placeholder such
as `None` is no value of its set, and what the code relies on: the latency bound of
proof validation, and that lower-casing is idempotent. Every safety property that a
run checks is a theorem:

* `RefreshTokensProofs`: `IInv` is inductive, and with it `TypeOK`,
  `OneActivePerFamily`, `SingleSuccessor`, `FamilyUniform`,
  `AnswersBoundToFamilyKey`, `AnswersAreSuccessors`, `ReuseKillsFamilyUnlessRaced`,
  `LogoutEndsSessionUnlessRotated`, `OnlyBulkRevokesHoldAndWait`,
  `DeadFamilyStaysDead`, and the refinement `ImplementsSessions`.
* `ProofValidationProofs`: `TypeOK`, `NoReplay`, `SlotsFromFreshProofs`,
  `SessionBelongsToKeyHolder`, `LimitOnlyIfNonceGone`.
* `EmailOutboxProofs`: `TypeOK`, `OnceUnlessReclaimed`, `SentIsFinal`,
  `AttemptsOvershoot`, and the refinement `ImplementsQueue`.
* `TwoFactorProofs`: `TypeOK`, `FactorsAreSingleUse`, `SpentStaysSpent`,
  `EnrolmentConsistent`.
* `ConnectionPoolProofs`: `TypeOK`, `TenantIsolation`, `PooledConnsAreClean`,
  `ReturnedCallsHoldNothing`, `StuckOnlyIfSaturated`.
* `AccountsProofs`: `TypeOK`, `IdentifierResolvesToOne`, `AccountsAreWhole`,
  `LoginsAreJustified`, `RegisteredUnlessUnaudited`.
* `WebAppProofs`: `TypeOK`, `OncePerSubmit`, `TokenFitsTabKey`, `ProfileIsOwn`.

The argument for rotation. `OneActivePerFamily` is not inductive: a commit adds a
live row, so one has to know that the row it replaces was live and that nobody else
revokes or replaces it meanwhile. `LockInv` says that locks are exclusive and that
a request past its compare-and-swap holds the row of its token, still active in the
committed state. `PendingInv` says that the generated secrets of running requests
are distinct, stored nowhere and in no snapshot. `RowInv` ties rows to their
parents (same family, user, key, expiry; the parent is revoked; one child each).
`GraceInv` and `AnswerInv` carry over to cached and returned pairs: the refresh
token is the child of the key it is cached under, or a secret that is still
uncommitted or was rolled back and stays void (`SuccessorOrVoid`). `RevokeInv` says
that a running revocation has either visited a row of its snapshot or still has it
to do. The refinement maps the head of a family to its live token (`HeadOf`); a
rotation commits as `Rotate`, every revocation as `Kill`, the rest stutters.

The argument for logout. That the presented token is revoked says nothing yet about
the session. `ChainInv` does: a revoked token has a child, or its family has no live
token at all. A revocation keeps it because it revokes the head, a rotation because
it gives the head it revokes a child. `LogoutInv` adds that the token a logout
presents has left the service (`Outside`): it is not the uncommitted secret of
another call, which could still become active after the logout.

The argument for replay. A request past the window test is within `MaxDelay` of a
moment its proof was fresh (`DelayInv`); an accepted proof is in the cache, or was
dropped, or is so old that no request can still consume it (`Remembered`). The last
case needs the lifetime to be both halves of the window plus a buffer larger than
truncation and delay.

The argument for the outbox (`LeaseInv`): a row that was never reclaimed has at most
one task, that task exists only while the row is leased, and a task that has
delivered is not followed by another claim. `AttemptsOvershoot` counts the workers on
a row: every step leaves the column alone without giving the row a worker, claims it
below the limit, or trades a worker for one attempt (`RowStep`), so above the limit
the sum of attempts and workers never grows. The refinement needs one fact that is in
no other invariant (`DeliveredInv`): a task that is about to mark a row sent has
delivered it, and the history of deliveries only grows. Claims, crashes and failures
map to `Take` and `Release`, back-off and time stutter.

The argument for two-factor. The calls interleave at their statements, so what an
`UPDATE` has tested must still hold when its transaction commits: `LockInv` says that
the row lock is exclusive and that under it a draft is still there to promote, or the
enrolment to end; `CallInv` says which call holds it where. `CodeInv` keeps the
recovery codes of different confirmations apart and says that spent ones were issued,
so a fresh batch has none of them. For TOTP, `ReplayInv` is the window argument: an
accepted code is in the replay cache since a moment at which its window had begun,
or its window is over, or the cache has dropped it. The lifetime of an entry is the
whole window, hence an entry cannot expire before the window it was made in. A call
that waits to claim its code tested it in its window (`ClaimInv`), so the window has
begun when it makes the entry; if the window is over by then, the code is `late`,
and a second acceptance of a code that is not late finds the entry of the first
(`EntryRemembers`). The theorem is about `verify_2fa_code` and `disable_2fa`: the
acceptance by `confirm_2fa` leaves no entry and is not counted.

The argument for the pool. `ConnInv` says that a transaction is on a connection only
while a call owns it or its rollback is due, that the tenant set on it is that of the
call that owns it, and that no tenant is left for the session. `PcInv` says which
kinds of call reach which step. `HoldInv` bounds what a call owns at each step:
nothing before its first acquisition, one connection while it waits for another,
which gives `StuckOnlyIfSaturated`: only `confirm_2fa` and `disable_2fa` wait with a
connection in hand, and with one each.

The argument for accounts. Every step of a call is one of three (`Starts`,
`Returns`, `Moves`), leaves the other calls alone (`Others`), and either publishes a
registration or creates no row (`Quiet`); the invariants are proved from these
summaries, not action by action. `CallInv` says that numbers of running calls are
distinct, that the user of a registration is absent until its commit, that the user
of a login stays, and when a transaction is open. `IndexInv` is the unique index:
`IdentifierResolvesToOne` needs that two open transactions never hold one key and
that no committed row has the key of an open one, or the second commit would add a
second live row. `HistInv` says what must have been seen at each statement: an
answer comes several statements after the state that justifies it, so its property
is not inductive alone.

The argument for the web application. A response may outlive the view, the session
and the key of the tab that sent the request. `ScopeInv` ties what still awaits a
response to what it was asked with: the tab has the key the request was signed with,
and the dashboard the token it was asked for with. `ReplyInv` says that a token in a
response is bound to the key of its request, and a profile to its token; the two
together give `TokenFitsTabKey` and `ProfileIsOwn`. `RunInv` says that a request on
its way has not run the service and that a challenge was given before the service
ran, which is why the retry is safe.

Only model-checked: the liveness properties (`EveryCallReturns` of three modules,
`EveryEmailSettles`), since fairness and `ENABLED` are out of the prover's reach; and
the three statements of section 6 that do not hold.

## 5. What is not modelled

* Cookies, the extractor and the headers of an answer, beyond what the client acts
  on; the configuration builder; formatting and parsing of tokens and proofs. They
  keep no state, and a property of them would be about strings.
* Cryptographic helpers (`crypto/`, except as ideal hashes, passwords and codes), the
  signers, and the `FromExtra` derive macro, which is compile-time code.
* Migrations; the schema enters through the unique index, the columns and the
  row-level security policy that the code relies on.
* Several processes for the jti and nonce caches and for the TOTP replay cache. Each
  process has its own and nothing in the code relates them. `RefreshTokens` does
  have several nodes.
* Crashes of the database, and clocks that jump.
* The address, the reason and the age of login attempts, and
  `count_recent_failed_attempts`, which only tests call.

## 6. What the checks show

All properties listed for passing runs hold. Three statements in the repository do
not hold of the code; each has a run whose counterexample shows it, and an entry
under `findings`:

1. `RefreshReuse`: reuse detection revokes "the entire token family", but a row
   that a concurrent rotation inserts after the snapshot survives. What does hold is
   `ReuseKillsFamilyUnlessRaced`: when every row of the snapshot is still active as
   the `UPDATE` reaches it, no token of the family survives the commit.
2. `FactorVerified`: `confirm_2fa` may promote a draft that was written after the
   code was checked against another one.
3. `AccountDurable`: `register` drops the error of `record_login_attempt` although the
   statement runs in its transaction. PostgreSQL then rolls back at the commit without
   an error, and the tokens handed out belong to a user that was never stored. What
   does hold is `RegisteredUnlessUnaudited`.

Five more have no run of their own. Two are visible in properties that hold:

* `logout` "terminates the corresponding session" (`service/auth.rs:503`), but not when
  a refresh has rotated the token first: `LogoutEndsSessionUnlessRotated`.
* `max_attempts` (`store/repo/email.rs:20`) does not limit deliveries that end in a
  crash; `AttemptsOvershoot` bounds the counter itself.

Three are in the models as the code has them, and no property excludes them:

* `confirm_2fa` tests its code with `verify_code` and makes no replay entry
  (`service/totp.rs:197`), although "callers must enforce replay protection"
  (`crypto/totp.rs:108-109`). `verify_2fa_code` or `disable_2fa` accepts the code of a
  confirmation once more in its window. `FactorsAreSingleUse` is about those two calls.
* "activation and recovery codes commit or roll back together"
  (`store/repo/totp.rs:73-74`), but `confirm_2fa` does not look at the number of rows
  its activation updated. When a racing confirm has promoted the draft, and a disable
  ends the enrolment, it still stores recovery codes, for a user whose 2FA is off, and
  answers with them.
* "The `/login` path is throttled via `dpop_login_attempts`" (`src/README.md:75`), but
  nothing calls `count_recent_failed_attempts` except its tests: `login` accepts a
  password after any number of recorded failures.

Smaller differences met while modelling, kept in the models as the code has them:

* the grace branch of `refresh` answers before the key comparison (the pair is still
  bound to the key of the session, `AnswersBoundToFamilyKey`);
* the items of an outbox batch are delivered concurrently where a comment says
  sequentially;
* the replay entry of a TOTP code lives for the length of its window to the second,
  from an insertion that is awaited after the test. A call that is held up between the
  two until the window is over can claim a code whose entry has expired: the second
  acceptance is then of a code that was valid when it was tested, and is what `late`
  takes out of `FactorsAreSingleUse`;
* a call that is dropped may have taken effect: a recovery code consumed, a TOTP code
  entered in the cache, a failed attempt recorded, with no answer to show for it;
* `password_changed_at` is written and never compared with the age of a session;
* the refresh cookie of the default configuration has a `__Host-` name and a path other
  than `/` (`config.rs:110`), which browsers do not accept together;
* a tab whose login is answered after the user has logged out is signed in again
  (`src/examples/web/src/app.rs:198`): the call of a view that is gone still sets the
  signals of `App`. The token it sets fits the key of the tab (`TokenFitsTabKey`);
* after `SET LOCAL`, PostgreSQL leaves the tenant parameter empty and not NULL; the
  policy has to test for both, as the one in the tests does.

## 7. Plan

Done: `SessionFamilies`, `RefreshTokens`, `ProofValidation`, `MailQueue`, `EmailOutbox`,
`TwoFactor`, `Accounts`, `ConnectionPool` and `WebApp`, each with its proofs. Next, in
this order:

1. An abstract specification of the two-factor enrolment (off, draft, on) with a
   refinement.
2. Several processes for `ProofValidation`, with and without sticky sessions.
3. An abstract specification of accounts (an identifier is free or belongs to one
   user) with a refinement of `Accounts`.
