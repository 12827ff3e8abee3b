# Loyalty points: TLA+ models, checks and proofs

The repository is a JSON-RPC service in Go over Postgres: users register, log in, hold
accounts, earn and spend points; administrators may act on every account, load batches and
adjust balances. This directory holds a model of its core, the model-checking runs on small
instances, and proofs for every size of instance.

`W` below stands for `src/internal/pkg/wallets/walletServiceImpl.go`.

## 1. The system

| Component | State | Operations | Hard part |
|---|---|---|---|
| wallet service (`W`) | none of its own; tables `transactions`, `accounts`, `audit_entries` | ProcessTransaction, EarnPoints, SpendPoints, ProcessTransactionBatch | concurrent calls, one unit of work of several statements, the rejected audit row outside it |
| transaction repository | `transactions`, unique `ref` | Create (insert or nothing), GetByID (scoped), List (keyset pages) | same ref at once; text order of timestamps |
| account repository, service, opener | `accounts.balance` | UpdateAccountBalance (guarded), GetByID (scoped), OpenAccount, rename | overdraft by two spends; adjustments without a ledger row |
| audit trail | `audit_entries` | Create, list by ref | agrees with the answers and the ledger |
| unit of work, pool (`src/pkg/postgres/tx.go`, `client.go`) | connections, open transactions | RunInTx | commit errors, waiting for connections while holding locks |
| tokens, login, logout | `users.token_version`; tokens are kept by clients | Issue, Validate, Authenticate, Logout | row read before a slow password check and used after it; expiry in whole seconds |
| registration, users | `users` | Register, Create, GetByEmail, GetTokenVersion, IncrementTokenVersion | one user per email, user and account together |
| authorization | policy table, permissions in the token | middleware, Authorize, IsGranted | own and all scopes |
| bootstrap tool | the same tables | wipe, recreate the system user | runs beside a server; resets an epoch |
| rate limiting | buckets and one lock in Redis | per address, per user | several servers, expiry of bucket and lock |
| batch, CLI ingest | none | parse, sort, send, apply, summarise; run again | order, truth of the summary, a batch half done |
| listing, timestamps | none; text columns | List page by page, trail of a ref | rows that commit late; text order |
| migrations, start and stop | `schema_migrations`, the port | Migrate, listen, signal, drain | servers that start at once and fail anywhere |
| configuration, logging, JSON-RPC codec | none | | |

A request passes the rate limiter by address, the authorization middleware (which validates
the token against `users.token_version`), the rate limiter by user, and reaches an adaptor
that calls its service. Services share nothing but Postgres; repositories take their
executor from the context, so that inside RunInTx every statement runs in the transaction and
outside it on the pool. The hazards this gives rise to, each at its line, are in
`PROJECT.json`.

What makes each part correct (each sentence is a property of section 3): points move exactly once per recorded ref and no balance falls
below zero; ledger, balance, audit trail and answers agree, whatever fails; a member touches
and sees only what is theirs; every call ends; registration is all or nothing; a logout ends
exactly the sessions begun before it; a token lives for its time; a batch is applied in the
order of its times, its summary is true and it may be sent again; a walk through the pages
shows everything once; nobody exceeds a budget and nobody is refused on account of others; a
migration is applied once and whole, a server takes calls only after it, and a drain ends.

## 2. Modules

| Module | What it is |
|---|---|
| `PointsLedger` | abstract specification: the durable tables change by Open, Accept, Note or Adjust, each one step |
| `Wallet` | ProcessTransaction and UpdateAccountBalance, statement by statement, over Postgres and the pool |
| `MCWallet` | two members, an administrator, two accounts, two refs; sets of requests |
| `WalletProofs` | inductive invariant, types, lock discipline, floor, refinement of `PointsLedger` |
| `WalletTrailProofs` | ledger, audit trail and answers agree; scope, waiting, reported balance, rejections |
| `LedgerSums` | sums over the rows of the ledger, and that every balance is one |
| `Sessions` | Register, login, token validation, logout, the bootstrap tool, a clock |
| `MCSessions` | the system user, one free email, the requests |
| `SessionsProofs` | inductive invariant, types, revocation, live sessions, life of a token, registration |
| `Batch` | extends `Wallet`: the ingest command, the batch call and the loop over its elements |
| `MCBatch` | one account, five files, two runs of the command |
| `BatchProofs` | that a batch implements the wallet, order of application, types, the summary and its report, what becomes of a file |
| `History` | pages of List and the audit trail while calls commit; times as text |
| `MCHistory` | two members, an administrator, three refs, a clock of two binary digits |
| `HistoryProofs` | inductive invariants, types, completeness and order of a walk, the audit trail |
| `Gateway` | both rate limiters, the authorization middleware and the adaptors' own checks |
| `MCGateway` | two servers, requests of every kind |
| `GatewayProofs` | inductive invariants, types of the buckets, every call metered, policy and adaptors agree, refusals due, rates bounded |
| `Startup` | Migrate in several processes, the listener, the signal and the drain |
| `MCStartup` | three processes on two hosts, two migrations |
| `StartupProofs` | inductive invariant, types, whole migrations, who may serve |

How they compose: `Batch` extends `Wallet` and every element of a batch is a call of it, step
by step; `Wallet` implements `PointsLedger`, and `BatchProofs` proves that `Batch` implements
`Wallet`. `History` takes the wallet's calls as they are seen by readers (a time when the call
starts, an id when it writes, the rows when it commits), `Gateway` takes a service as a step
that answers, `Startup` takes a call as something that runs until it is answered or cut off.

### Wallet

Variables are the tables as any other session reads them (`accounts`, `balance`, `ledger`,
`audit`), what open transactions hold (`inserting`: uncommitted refs; `updating`: row locks;
`staged`: uncommitted audit rows; `conns`: connections), and the goroutines (`pc`, `req`,
`frame`: the locals and the response). `adjusted` is a history variable: the sum of the
adjustments that bypass the ledger. Each action is one statement with the Go code around it;
the label in `pc` is the statement about to run:

    lookup -> begin -> insert -> update -> readBack -> auditAccepted -> commit -> replied
                          |         `-> recheck -> rollback -> reject -> replied
                          `-> fetchOriginal -> fetchAccount -> auditDuplicate -> commit
    adjBegin -> adjUpdate -> adjRead | adjRecheck -> replied

Postgres at READ COMMITTED is modelled by what the statements rely on: uncommitted writes are
invisible; an INSERT of a ref another open transaction inserted waits for its end; an UPDATE
whose row passes the WHERE clause waits for the row lock and tests the newest committed
version; one whose row fails it as committed skips the row without waiting. The foreign keys
take locks compatible with the balance update and are left out. A statement on the pool needs
a free connection for its duration; a unit of work keeps one.

Failures: a statement in the unit of work or on the pool fails (`statement`: cancelled
context, lock timeout, lost connection); COMMIT or a self-committing UPDATE is answered with
an error, applied or not (`commit`); the server dies and Postgres drops its transactions
(`crash`). A run names those it allows in `Faults`.

Data: a kind is `earn`, `spend`, `adjust` (the administrator's call, which shares the steps)
or `other` (a kind Validate refuses); timestamps play no part here; reasons of rejection are
the four classes `ok`, `insufficient`, `unknown`, `internal`; `MaxBalance` stands for the
largest BIGINT. The branch of `FetchAccount` for an account that is no longer there stands in
the code and in the model; it needs rows of `accounts` to disappear, which only the bootstrap
tool's wipe does (not part of this module).

### Sessions

Variables are the table `users`, the ids with a first account (`wallets`), emails held by
uncommitted inserts, the bootstrap tool, the clock, the tokens handed out (by the call that
issued them), the history variable `revoked` (tokens stamped from a row read before a logout
of its user), and the calls (`pc`, `req`, `row`); the last label of a call is its answer. A call
registers (`insertUser`, `insertAccount`, `commit`, `issue`), logs in (`getByEmail`,
`compare`, `issue`) or presents a token (`expiry`, `version`, `serve`). Requests are those that
pass their validation. Signatures are taken as perfect: a presented token was issued.
Time is counted in ticks, `Res` to a second, and both the stamp and the check cut it down to
seconds as `Unix()` does. A failed read of the epoch is answered like a revoked token; the
model calls that answer `unverified` so that properties can tell them apart. The pool is not
part of this module: no call here holds a connection while it asks for another one.

### PointsLedger

`Wallet` implements it with the identity on the five tables. `Accept` says in one step what
the unit of work does in six: an unused ref, the points, the accepted audit row.

### Batch

Rows are named by their line. Variables beyond those of `Wallet`: `job` (the file and the
token's user), `cli` and `summary` (each run of the command and what it printed), `batch` and
`results` (each batch at the server). The command parses, sorts and sends (`RunIngest`), reads
an answer (`ReadAnswer`) or loses it (`LoseAnswer`); the server refuses or accepts the batch
(`Deliver`), starts the call of the next element (`ApplyNext`), which then runs with all the
steps and failures of `Wallet` (`CallStep`), takes its result (`CollectResult`), and responds
or dies (`ServerCrash`). The operator starts the next run when the command has ended, whatever
the server is still doing. The wire format matters in one point, which is modelled as what it
does: `WireTime` drops the fraction of a second. A summary is its counts and the set of its
rejections, each with the line it is about and the line it is printed with.

### History

A time is a tick; its text is the seconds (fixed width) followed by the digits of the
fraction without trailing zeros and the closing `Z`, which is greater than a digit and than
the point, as in ASCII. `TextLess` is the order of the database. `table` and `audit` are the
rows as committed, `nextID` the sequence, `calls` the running calls, `walks` the callers of
List with their cursors and the page they got last; `goal`, what there was to see when the
walk began, and `earlier`, the rows of the pages before the last one, are history variables. `ListPage` is the query for one row more than the page, the trimmed page and the
cursor made of its last row, parsed and formatted again. Rows are ordered by text of time and
then by ref. What `Wallet` does in six statements is here `Submit`, `Insert`, `Commit`,
`Reject`; the only thing a reader can tell apart is when time, id and row come about. The
audit trail is a pure function of `audit` (`ListByTransactionRef`). No JSON-RPC method leads to
`TransactionRepository.List`: its callers are code inside the service.

### Gateway

Variables: the clock, the buckets and the lock in Redis, and the requests with where they
are. `Arrive` is the peek of the IP limiter at the method; `Lock`, `Read`, `Write`, `Unlock`
are the critical section of a limiter; `Authorization` the middleware; `Dispatch` the adaptor
with its look at the role. Permissions, roles, methods and the public sets are the complete
tables of the code, by name. The libraries for bucket and lock (`mennanov/limiters`,
`redsync`) are not part of the repository and are modelled from how the code uses them: one
lock name for all buckets, one lock object per process (so that a request may release what
another of its process has taken over), a lock that expires, a bucket state with an expiry of
`refill * capacity`. What becomes of a request whose unlock fails is left open: the limiter
is built without a logger (`redisTokenBucketRateLimiterImpl.go:46`), and the library wants to
log there. A limiter is wired, as it always is outside local; in local without Redis
`setupRPCServer` leaves both limiters out, and nothing is metered. `Faults` may contain `redis` (any operation fails, applied or not), `crash` (a
server dies) and `pause` (a holder is slower than the lock lives); see section 3 for the last.

### Startup

Variables: the processes (what they are about to do, the migration and statement they have
come to, their open transaction), the tables of the migrator (`table`, `applied`), how often
each statement has taken effect (`runs`, history), the ports, the calls, and the number of
faults. A statement that creates a name waits for another transaction that creates the same
one and fails when it is there, and `CREATE TABLE IF NOT EXISTS` looks first and creates
afterwards, as in Postgres: so of two starts at once one may end in `log.Fatal`. A port is
held by one process of its host. `Calls` are clients that send one call after the other for
ever; `calls` says which process runs the call of each. `Notify` comes after `Listen`: for one step a process takes
calls and does not yet wait for a signal.

## 3. Runs

| Run | Instance | Shows |
|---|---|---|
| `wallet_safety` | three calls, two connections, all failures | `BalanceFloor`, `Conservation`, `LedgerAudited`, `AcknowledgedDurable`, `RepliedAudited`, `OwnScope`, `AcceptedBalanceExact`, `ImplementsLedger` |
| `wallet_liveness` | three calls, two connections, failing statements and crashes, fairness | `RejectedRolledBack`, `NoHoldAndWait`, `LockDiscipline`, `EveryCallEnds` |
| `batch` | five files, two runs, two connections, failing statements and crashes | `InChronology`, `SummaryTrue`, `RejectionsReported`, `FileSettled` |
| `sessions` | four calls, one wipe, all failures | `RegistrationAtomic`, `RevokedStaysRevoked`, `LiveSessionsKept`, `TokenLifetime` |
| `history` | two rows loaded at any time, two calls, one walk, fairness of the walk | `WalkComplete`, `WalkInOrder`, `TrailTells`, `WalkEnds` |
| `gateway` | three requests, two servers, no faults | `RateBound`, `RefusedWhenSpent`, `GuardsAgree` |
| `gateway_faults` | two requests of all kinds, two servers, Redis failing, servers dying, fairness | `EveryCallMetered`, `LimiterRecovers` |
| `startup` | three processes, two hosts, three statements, three faults of any kind, fairness | `MigratedWhole`, `ServesReady`, `DrainEnds`, `HostsServed` |

Each module's type invariant is checked with them. Symmetry is over calls, requests or servers,
which no property tells apart; it is off where liveness is checked.

Runs that show a disagreement between the code and what the repository says of it (the
findings in `PROJECT.json` quote both sides):

| Run | Disagreement |
|---|---|
| `wallet_ledger_sum` | an administrator's adjustment makes a balance differ from the sum of the ledger |
| `wallet_lost_ack` | an error from COMMIT is taken for a rollback |
| `sessions_bootstrap` | the system user's revoked tokens come back after a wipe |
| `history_order` | rows of one second are listed with the older one first |

Further disagreements that the models contain and no run states:

- An invalid request is answered before anything is written (`W:41`), while README.md:156 has
  every attempt audited. In `Wallet` such a call ends at `Receive`.
- A duplicate for another account of the same caller is answered with the original row and
  that other account's balance (`W:102`; walletService.go:67 "returned unchanged").
- A ref that another owner used is answered not found, now and on every retry (`W:98`), while
  README.md:127 promises the original outcome with `duplicate: true`.
- A valid token is answered `unauthorized` while the epoch cannot be read
  (authorizationMiddleware.go:66; README.md:96).
- A row of a file whose COMMIT was answered with an error is reported rejected and may be in
  the ledger: with `Faults = {"commit"}` `SummaryTrue` is violated (the disagreement of
  `wallet_lost_ack`, as an operator meets it).
- A rejected row of a file is printed with the last line its ref stands on (summary.go:46 and
  :81), while src/cmd/cli/README.md:120 promises "its originating line number". `RejectionsReported`
  says how far the promise holds: the line is the row's own unless the ref is repeated, and then
  another line of that ref.
- emailPasswordAuthenticatorImpl.go:19 says that an access token "is stateless and cannot be
  revoked before it expires". The code revokes it by the epoch, as `RevokedStaysRevoked` says and
  as accessTokenServiceImpl.go has it; the comment is out of date.
- The limiter's lock lives for a while and is not renewed. With `Faults = {"pause"}` `RateBound`
  is violated: two requests read the same bucket. The comment at
  redisTokenBucketRateLimiterImpl.go:26 calls the read-modify-write safe.
- A signal that comes after the server takes calls and before `signal.Notify` cuts calls off
  (`Die` at the label `unhooked`), while main.go:43 drains before tearing down.
- Of two servers that start at once over an empty database one may fail and must be started
  again, while migrate.go:16 calls Migrate safe at every startup. No harm is done to the schema.
- FetchMyAccounts lists the accounts of every owner for a holder of `account:read:all`
  (accountRepositoryImpl.go:73); accountServiceJSONRPCAdaptor.go:53 says "always scoped to the
  caller".

Why the bounds are enough to meet the hazards.

- *Wallet*: a race for a ref or a row needs two calls, and a third lets one of them be a retry,
  an adjustment or a stranger; balances of 0 to 3 with spends of 1 and 2 overdraw in pairs, and
  an earn of 2 passes the upper limit. With two connections two units of work overlap, so that
  calls wait for a ref, for a row (an adjustment among them) and, all three together, for a
  connection.
- *Batch*: the files have a spend before the earn that funds it, in the same second and in
  another order in the file; one ref on two lines, once without a time; a row the server
  refuses, a row that does not parse, a file too long (`MaxBatch` = 3), an empty one and a bad
  header. Two runs overlap when the first one loses its answer.
- *Sessions*: four calls are a login (or registration), a logout that revokes it, a login that
  straddles the logout and a use of a token; `TTL = 0`, two ticks to a second and a clock up to
  2 reach both sides of the expiry with fractions cut off at both ends; one wipe meets calls at
  every label.
- *History*: two binary digits to a second give texts of all three lengths, and the clock
  passes a full second; pages of one row, of the default size and clamped, a negative size and
  a cursor that is none; the two calls record a new ref, a duplicate, a ref twice at once, or
  are rejected.
- *Gateway*: bursts of 1 and 2, refills of 3 and 1, and a clock up to 3 let buckets run empty,
  refill in part and expire; two addresses, two users, one bad and one missing
  token, an unknown method, an unreadable body.
- *Startup*: two statements in a migration leave a middle; three processes are two that race
  for a schema and a port and one on another host; three faults let a fault hit the recovery
  from another one.

Fairness. `wallet_liveness`: weak fairness of the next step of each call: goroutines are
scheduled, a waiting statement is served when the lock is released, and database/sql serves
its queue for connections in order; weak fairness suffices because a call takes finitely many
steps, so a ref, a row or a connection it waits for is given up by each of the finitely many
others in turn and then stays free. `history`: a walker asks for the next
page. `gateway_faults`: handlers run to their end and Redis drops expired keys. `startup`:
processes run, each call ends, and who is down is started again, while clients may send new
calls without end; that somebody starts them again is an assumption about
the supervisor or the operator, not about the code, and without it a `log.Fatal` is for good.
Nothing is assumed of failures, crashes, arrivals or the clock.

Every property is also run against a faulty variant of the definition it watches (a dropped
guard, a lost lock, a swallowed error), kept beside that definition and marked "Fault for
mutation"; the property must then fail. The variant for `BalanceFloor` leaves the test of the balance
to an earlier read; in the database `CHECK (balance >= 0)` (0001_init.sql:16) would still stop the
lower limit.

## 4. Proofs

The theorems hold for every value of the constants that satisfies the named assumptions of
their modules (`ConstantsAssumption`, `NullsAssumption`, `NoRowAssumption`, `SessionsAssumption`,
`BatchAssumption`, `ElementsAssumption`, `HistoryAssumption`, `PowersAssumption`,
`NoCursorAssumption`, `GatewayAssumption`, `TokenAssumption`, `NullAssumption`,
`StartupAssumption`): any number of calls, accounts, refs, files, pages, requests, processes,
migrations and any limits, and any set of faults unless a theorem says otherwise: three do,
because they are false otherwise, as section 3 says (`RejectionRollsBack` and `SummaryIsTrue` exclude a
lost answer to COMMIT, `RatesBounded` a holder slower than its lock).
`TokenAssumption` says that a token that validates names one of the two roles: a user is
not stored with another (`userRepositoryValidations.go:17`). `NullAssumption`, `NullsAssumption`, `NoRowAssumption` and
`NoCursorAssumption` say that a value that stands for "nothing" is none of the things it is the absence of.
`PowersAssumption` (a power of a positive number is positive) is arithmetic the provers do not
know.

*Wallet.* `BalanceFloor` is not inductive: a commit publishes a balance that was tested
statements earlier. The invariant `IInv` therefore says that a locked row still fits the
balance its holder is about to publish, and that a held ref is unrecorded (`LockDiscipline`);
that a call in its unit of work has resolved an account it may use (`CallsResolved`); that the
uncommitted audit rows are the ones the response stands for (`StagedEntries`); and that a call
has no audit row too early (`AuditOnce`). From it follow `TypeCorrect`, `LocksSafe`,
`FloorSafe`, and `Refinement`: a commit maps to Accept or Note, a rejected audit row to Note, an
adjustment to Adjust, opening to Open, every other step to a stutter.

*Ledger, trail and answers.* `TrailInv` adds to it what the tables say of each other
(`Recorded`: a row is owned and created by who may, has its accepted audit row, and each
accepted audit row has its row of the ledger) and what a call's locals and answer say of the
tables (`Told`: the original it shows is the recorded row, an accepted answer is its own row, an
answer has its audit row, the balance read back is the locked balance plus the points, only a
call in its unit of work or in an adjustment holds a connection). `LedgerAudited`,
`AcknowledgedDurable`, `RepliedAudited`, `OwnScope`, `NoHoldAndWait` and `AcceptedBalanceExact`
follow. `RejectedRolledBack` is about calls answered with an error and needs `Settled` (a row
belongs to a call that was answered accepted), which holds while every COMMIT is answered; `wallet_lost_ack` shows that it must be so.

*Sums.* `Conservation` needs that recording one row adds its points to one sum. `LedgerSums`
proves that of `MapThenSumSet`: a sum over a finite set does not depend on the order in which
it is taken. The inductions this needs are over the subsets of a finite set, stated of a set of
subsets that holds the empty one and is closed under adding an element (`SubsetInduction`),
because an induction theorem about an operator is out of the provers' reach.

*Sessions.* The epoch a token carries may be stamped long after it was read, so the invariant
`EpochExact` speaks of tokens issued and of calls that already hold the row alike: the epoch is
the user's, or it is smaller and the token is in `revoked`. `Held`, `EmailLocks` and `Born`
carry what that needs: who holds which row, that a held email is free, that nothing is stamped
for a user before its commit. From them follow `RevocationSafe`, `SessionsKept` and
`RegistrationSafe`. The system user is excepted after a wipe, and `sessions_bootstrap` shows why
it must be. `TokenLifetime` follows from `ExpiryStamped`: a token carries the second in which its
lifetime, counted from the tick it was issued in, ends.

*Batch.* `Refinement` of the wallet is by the identity: each step of a batch is a step of the
wallet or leaves its variables alone, so what is proved of `Wallet` holds of a batch
(`BatchImplementsWallet`, `BatchFloor`). `InChronology` needs that the elements answered so far are
an initial segment of the file in the order of its own times; the argument is that cutting
times to seconds is monotone, so the server's stable sort of a sorted request changes nothing.
`AllInv` joins the invariants of the wallet to those of the command: a call that has begun is
an element with the request of its line, a result is the answer of its call, a row of the
ledger is what a call that has begun asked for (`Rooted`), and what is printed is what the
results say. `RejectionsReported` follows. `SummaryTrue` also counts: the lines of a file are
those sent and those refused locally, the lines answered are told apart by their outcomes, and
the accepted ones correspond to the rows the run created. `FileSettled` is by the invariant
that an element, when it starts, finds every acceptable row before its own loaded, by whichever
run; so the balance it tests is, by `Conservation`, the one the file leaves there, and it is
accepted or found recorded.

*History.* `WalkComplete` and `WalkInOrder` follow from one invariant of a walk (`WalkInv`): every
row of `goal` has been shown or is still sought by the cursor, and every row shown has been
passed by it. It needs that `FormatTime(ParseTime(t))` is `t` for a stored text, that
`TextLess` is a strict total order on texts, and that the rows of a page come before the rest. `TrailTells`
pairs each row of the table with its accepted audit row, in the order in which they were written (`PairsInv`, `OrderInv`, `OpenInv`). Completeness therefore does not depend on the text order being the order
of times, which it is not.

*Gateway.* What reaches a service depends on three tables written in three places: the IP
limiter's methods, the public methods of the policy, and the permissions. The invariant
(`Metered`) says what the position of a request tells about its method and its spending: who
is in the IP limiter has a public method, who is in the user limiter was sent there by the
policy, who leaves a limiter without an answer has paid it. Crashes, a lost lock and errors of
Redis only ever answer, so `CallsMetered` and `PolicyAndAdaptorsAgree` hold under every fault.
`BucketsNeverOverflow` follows from an invariant of stored and held bucket states
(`BucketsTyped`): it needs no mutual exclusion, because a holder that has lost the lock still
writes a state that was once read. The same is true of `RefusedWhenSpent`, under every fault:
since some moment the caller has spent all that is missing from the bucket, and all that has
come back since (`Earned`); a refusal finds all of it missing. `RateBound` is the converse and
does need the lock: only its owner is between read and release (`Exclusive`), so that since any
moment no more was spent than a bucket gives that was full then (`LevelInv`), and a bucket
expires only when it would be full again. `"pause" \notin Faults` says that no holder is slower
than its lock lives.

*Startup.* Several processes may hold transactions of the same version. The invariant says
what a transaction has done so far and which versions a process has passed (`ProcInv`), and
that no two have inserted the same version (`OneRecords`): so a record commits only over a schema where none of its statements has taken effect.
`ServesReady` needs besides that a call runs only where a port is held or a drain goes on
(`CallsServed`), through every way a process can end.

Only model-checked: liveness (`EveryCallEnds`, `WalkEnds`, `LimiterRecovers`, `HostsServed`,
`DrainEnds`), which needs ENABLED and is out of the provers' reach, and of course what is false, the findings'
properties. Every other property of the passing runs is stated by a theorem.

## 5. Not modelled

- The preview of a dry run (`src/cmd/cli/pkg/ingest/preview.go`): output only.
- UpdateAccountName, GetAccountBalance and the listings of accounts and users, the audit
  listings by account: single statements that read, or write a column nothing else reads.
- The wipe of the bootstrap tool under running wallet calls; it is modelled beside sessions.
- Flags, environment variables and keys, the JSON-RPC codec, wording of errors, logging.
- Cryptography and password hashing beyond equal and not equal.
- The branch of `Summarize` for a batch result that cannot be decoded (`summary.go:67`): the
  server's own codec wrote it. It would report every row rejected that the server has applied.
- Clients that go on sending without end, except in `Startup`: calls, requests and runs are
  finitely many in every other instance (the proofs have no such bound).

## 6. What could come next

1. The wipe composed with the wallet, where rows of `accounts` disappear under open calls.
2. The abstract walk (a set shown piece by piece) as a specification that `History` implements;
   the same for the migrator (a version is there in whole or not at all) and for the buckets
   (one atomic take per request), with the refinements proved.
