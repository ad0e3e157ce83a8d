# A TLA+ specification of the meme launchpad backend

This directory holds TLA+ modules for the backend of the meme launchpad, the TLC
configurations that check them on small instances, and TLAPS proofs of the theorems
that matter most. Every definition is written from the code under `src/`, and
`PROJECT.json` names the lines each one stands for.

    tlc -workers 2 -config ChainIndexer_safety.cfg MCChainIndexer
    tlapm ChainIndexer_proofs.tla

## The system

The repository holds two generations of the same backend.

* `src/app-rebuild` is the current one: a REST API (`cmd/api`) in front of gRPC
  services for tokens, token creation and uploads, and a chain indexer
  (`cmd/indexer`), over one PostgreSQL database and an optional Redis.
* `src/apps` is the first one: an indexer (`apps/indexer`) and a go-zero API (`apps/api`).

Both copy the logs of one contract, MEMECore, from a BSC node into tables, and serve
tokens, trades and candles from these. The contract is not in the repository.

### Inventory

| component | state it keeps | operations | interacts with | hard behaviour | correct when |
|---|---|---|---|---|---|
| Rebuilt indexer (`internal/chainindexer`, `repository/chain_event.go`) | next block in memory; tables `chain_events`, `chain_event_*`, `trades`, `tokens`, `klines`, checkpoint | poll the head, fetch a range, decode, save the range in one transaction | BSC node, PostgreSQL | exits anywhere, a COMMIT whose process is lost, replayed ranges, refused logs, the head moving meanwhile | the tables are the exact image of the chain up to the checkpoint, which never skips and never moves back; every log gets there |
| Legacy indexer (`apps/indexer`) | current block, adaptive batch size; tables of events, trades, tokens, klines, checkpoint | per tick: fetch a range, write it kind by kind, store the checkpoint | BSC node, PostgreSQL | ignored errors, kinds out of chain order, several transactions per range, replay after a restart | nothing is lost without an error; events and trades agree; a graduation sticks |
| SIWE login (`internal/auth`, `repository/user.go`) | challenge per address in a map or in Redis; `users` | request a message, log in | clients, Redis, PostgreSQL | concurrent calls between read, check and delete; expiry; lost answers; first logins that race | a challenge is consumed at most once, a spent one is refused, tokens name their user |
| JWT verification (`auth/jwt_verifier.go`) | none | verify a token, put the claims into the context | REST API, upload service | a token that expires between two verifications | only a valid token of the issuer gets through |
| Rebuilt token creation (`tokencreation`, `repository/token_creation.go`) | `token_creation_requests` | hash, sign, insert an intent | API, PostgreSQL | the insert commits and its answer is lost | an answered intent is stored; an error leaves none behind unless something failed |
| Uploads (`upload`, and `service/cos` of the first API) | none | presign a URL | clients, the two processes of the rebuild | verified and converted twice, at two times | a URL is for the folder and chain asked for, and for a token valid when it was signed |
| Token reads (`repository/token.go`, `grpcapi`, `grpcclient`) | none (reads `tokens`) | list with paging, get | API, PostgreSQL | rows added between two pages, ties in the order, two integer widths | a client that follows the pages misses nothing that can be told apart by its time |
| REST API (`httpapi`) | none | decode, call, encode | all services | - | statuses match errors |
| Composition, lifecycle (`app`, `cmd/*`, `grpcapi/server.go`, `grpcclient`) | open connections | start, dial, drain, stop | all | one deadline for several dials; a drain that races its timer | what was opened is closed; a drain in time cuts nobody off; a signalled process ends |
| Configuration and gRPC security (`config`, `grpcsecurity`, the mains and dials) | who listens at which port, the connections of the API | load, listen, dial, call | all processes | servers that start again with other settings behind a connection that was verified | a handler runs only for a local or an allowed caller; an API that serves is not turned away without a restart |
| gRPC creation adapters, pool, generated code | none | convert, connect | - | - | - |
| Legacy login (`logic/user`, `middleware`, favourites) | nonce per address in Redis; `users`; `user_favorites` | get a message, log in, refresh, add and remove a favourite | Redis, PostgreSQL | Get and Del are two commands, the answer of Del is ignored, first logins race | a deleted nonce admits nobody; tokens and favourites name a row that exists |
| Legacy token creation (`service/token`, `service/crypto/create2.go`) | nonce sequence row; creation requests; the calculator's buffer | create (next nonce, vanity search, predict, sign, save), predict | PostgreSQL | a buffer shared by concurrent calls; an UPDATE whose fallback is a separate read; vanity nonces | an address is that of the request; an answer is a saved request under an id of its own; a nonce is given once |
| Legacy K-line API (`logic/kline`) | none (reads `klines`) | page by cursor, query a range | PostgreSQL, the legacy indexer | candles inserted between pages; a column without a time zone | paging neither repeats nor drops a candle; a range has the candles that open in it |
| Legacy lists (`logic/token`, `model`, `handler/routes.go`) | none | count and read a page | PostgreSQL | count and page are two statements; defaults in two places | the page fits its total |
| Legacy event reader, crypto, configuration | none | parse, hash, sign | - | - | - |

`PROJECT.json` lists every component with its files, and under `hazards` everything
in this code that is hard to test, at its line, with the properties that watch it.

## The modules

| module | stands for |
|---|---|
| `MemeChain` | the chain as one JSON-RPC node shows it (external): a growing sequence of logs and the newest block; the log sets both indexers work with |
| `Candles` | the K-line upsert, the same SQL statement in both indexers |
| `ReadModel` | the abstract specification: the tables are the image of the chain up to a checkpoint, and move by whole ranges |
| `ChainIndexer` | the rebuilt indexer |
| `Chain_proofs` | lemmas about the chain, its log sets and the candles, for both indexers |
| `ChainIndexer_proofs` | the inductive invariant and theorems of `ChainIndexer` |
| `OverlappingIndexers` | several processes of the rebuilt indexer over the same tables |
| `OverlappingIndexers_proofs` | its inductive invariant and theorems |
| `LegacyIndexer` | the first indexer |
| `LegacyIndexer_proofs` | its inductive invariant and theorems |
| `SiweAuth` | requesting a message and logging in |
| `SiweAuth_proofs` | its inductive invariant and theorems |
| `TokenCreation` | creating a token with the rebuilt API and token-creation-service, and the life of both processes |
| `TokenCreation_proofs` | its inductive invariant and theorems |
| `LegacyTokenCreation` | creating a token and predicting its address with the first API |
| `LegacyTokenCreation_proofs` | its inductive invariant and theorems |
| `GrpcSecurity` | the environments processes are started with, servers and their ports, the API's connections, calls |
| `TokenReads` | a client that walks the token list of the rebuilt API |
| `Uploads` | presigned uploads through both processes of the rebuild, and through the first API |
| `LegacyRoutes` | the routes of the first API, and which of them are behind its middleware |
| `LegacyLogin` | logging in to the first API, its tokens and favourites |
| `KlineReads` | a client that walks the candles of the first API, and the query of a range |
| `LegacyLists` | the lists of the first API, their answers, and the routes that answer an empty page |
| `Services_proofs` | the inductive invariants and theorems of `GrpcSecurity`, `LegacyLogin`, `Uploads`, `KlineReads`, `TokenReads` and `LegacyLists` |
| `MC*` | constants and symmetry for TLC; `MCServices` holds the instances of the components from `GrpcSecurity` to `LegacyLists`, and of `OverlappingIndexers` |

`ChainIndexer` and `LegacyIndexer` extend `Candles`, which extends `MemeChain`: each is
composed with the chain, whose steps interleave with theirs. Both instantiate `ReadModel`
as `RM`: `ChainIndexer` implements it, and `LegacyIndexer` uses its images to say which
of the tables still agree with the chain.

### The data that is abstracted

A log is its position in the chain. The position stands for the key
`(transaction_hash, log_index)`, is ordered as the node orders logs, and stands for
the columns filled from the log: `totals = k` says that `bnb_current` and
`available_tokens` of a token are those carried by log `k`. A candle's volume is a sum; it
is kept as the set of trades added and the set of those added more than once, which
tells a right sum from a wrong one without numbers. Prices are small numbers, because
open, high, low and close compare them; 0 is the price of a trade of no tokens, for which
`priceString` writes a candle with price 0 and the legacy `updateKlineData` writes none. Block time is the block number, and
`alignTime` is the integer division by an interval's `Width`.

The contract's event order (a token is created once, then trades, graduates at most once
and then no longer trades on the curve) is an assumption about code outside the
repository; it is in `ContractAllows`.

### The rebuilt indexer

`pc` is where `Run` stands. One action is one remote call or the local code between two:

| action | code |
|---|---|
| `Resume` | `VerifyChain` and `nextBlock` |
| `ReadHead`, `Fetch`, `CaughtUp`, `Tick` | `BlockNumber`, `FilterLogs`, the end of `syncAvailable`'s loop, the ticker of `Run` |
| `Decode`, `DecodeFails` | `decodeProjections`; one refused log fails the range and ends the process |
| `InsertEvents`, `Project`, `SaveCheckpoint`, `Commit` | `SaveBlockRange`: the raw logs, one projection at a time, the checkpoint, COMMIT |
| `Exit` | an error returned by `Run` (`log.Fatalf`), a signal or a kill; the server rolls back |
| `ExitDuringCommit`, `OrphanCommits`, `OrphanAborts` | the process is lost while COMMIT is on its way; the server settles the transaction later |

The transaction writes a private image `tx`; only `Commit` and `OrphanCommits` change `db`.
The statements of a replayed range wait for an orphan, because both write the same rows
first (the range's first log, or the checkpoint row of an empty range); but the new process
may have read the checkpoint, and even have fetched its range, before the orphan settles.
That is how a range gets saved twice, and why `applyTokenTrade`'s `RowsAffected`
test is needed.

`OverlappingIndexers` is the same program with any number of processes at once, as while one deployment
replaces another: nothing in the code or the tables keeps a second one out. It models what
`ChainIndexer` can leave out, PostgreSQL's transactions side by side under READ COMMITTED. `tables`
holds the committed rows, `indexers[p].writes` those that the open transaction of `p` inserted or updated. A statement sees
the committed rows and its own (`Seen`), and waits while another transaction holds a row it
would write (`Others`, `RowsAreFree`). An UPDATE does not see a row another transaction is inserting. The statements of one projection are one step, for each
re-reads a row after locking it. `Exits` covers a transaction the server ends because of a deadlock.

With two processes `LedgerExact`, `TokensCurrent` and `CheckpointForward` no longer hold: the checkpoint is
set by whoever commits last, and the replay of an old trade writes its totals over newer ones until the range
is replayed to its end. What remains is `LedgerHasNoGap`, whose ledger may be ahead of the checkpoint but never
behind it or with a hole, and `OverlapRowsExact`: candles and statuses are exact, because a transaction with a new log
waits for the other that inserts this log, and finds its trades there.

"Rejected" logs are those `decodeProjection` or a column refuses each time they are read.
The model lets them fail at `Decode`; in the code a column refuses them some statements
later, in the same transaction, with the same effect.

### The legacy indexer

`stage` is where `syncBlockRange` stands: 2 to 5 are the four kinds, each of which is a
transaction of its own (graduations one by one). Every error the code logs and ignores is
an alternative that spends one of `MaxFailures`: a checkpoint that cannot be read, a log
whose block header cannot be read, a batch that fails, a savepoint around the candles, a
checkpoint that is not stored. `PollLimited` and `Record` model the adaptive batch size.
`txs` groups logs into transactions, because `trades` is keyed by hash and type. `tx` holds the
image an open batch transaction would commit, and is empty while none is open.

### The login

`calls` holds the requests being served. Between `Get`, `Verify`, `Delete`, `Find`,
`Create` and `Issue` of one call any other call may run, the clock may move, a key may
expire. `store` chooses the map or Redis: they differ in what a deletion looks at (the map
at the expiry, Redis at the key), in lost answers, and in what a restart loses. `saves`,
`logins` and `spent` are history variables: they only record what happened.

A deletion goes by address, not by nonce. Of two logins that read one challenge, the second
may consume the challenge a new request stored in between. `ConsumedOnce` therefore
counts: an address is logged in at most as often as challenges were stored for it; and
`SpentIsRefused` is about logins that begin after the challenge was gone.

### Rebuilt token creation

`api` and `service` are where the two processes stand, and `attempts` holds, for each
request, what its four parties know of it: the client, the handler of the API with its
call (`rpc`), the handler of the service, and the database with the INSERT. They disagree
while messages are on their way and, after a failure, for good.

| action | code |
|---|---|
| `ApiStarts`, `ApiOpens`, `ApiStartFails` | `main` and `New`: the pool, then three blocking dials with a health check, under one deadline; an error closes what is open |
| `ApiSignal`, `ApiDrained`, `ApiTimer` | the `select` of `main`; `Shutdown` returns because no request is left, or because its context expires |
| `ApiClosesConnections`, `ApiClosesPool`, `ApiExits` | `Application.Close`, in its order, and the end of `main` |
| `ServiceStarts` .. `ServiceSignal` | `main` of token-creation-service |
| `ServiceDrained`, `ServiceTimer`, `ServiceExits` | the two cases of `gracefulStop`'s `select`, and the deferred `pool.Close` |
| `Send`, `Refuse`, `Call`, `Reply` | `createToken` and `TokenCreator.Create` |
| `Reject`, `Insert`, `Answer`, `AnswerLost`, `GiveUp` | the gRPC handler, `Service.Create` and the repository's `Exec` |
| `Settle` | the server executes the INSERT, or refuses it |
| `Accept`, `Unavailable`, `Disconnect`, `Leave`, `Cancel`, kills | grpc, the network, the client and the operating system (external) |

A deadline is a timer that may fire at any moment, so every order of a timer and the answer it
races is covered. A retry is another request: the service draws a new nonce for each and
knows nothing of earlier ones. `hurt` is a history variable: the requests whose client left,
whose connection or process was lost, whose database answer was lost, or which a drain left
behind when its timer fired. `query` stands for the logins that use the API's pool:
`Shutdown` gives up on them but does not cancel them, and `pool.Close` waits until they return.

External behaviour taken as given: a closed `grpc.ClientConn` ends its calls with
an error, `GracefulStop` refuses new calls and waits for handlers, `Stop` cancels their contexts, a
cancelled `Exec` returns, and a pool's `Close` waits for connections in use. What a cancelled or lost statement
did to the table is left open. token-service and upload-service have the same `main` and
`gracefulStop` as token-creation-service; one service is modelled, the other two are what the
dial finds.

### Legacy token creation

`calls[c].at` is where a request stands: `nonce`, `insert` and `read` are the three
statements of `getNextNonce`, `stamp` the clock, `search` and `hash` the calculator, `save`
the insert of the request. Calls that only predict enter at `stamp`.

`Create2Calculator.CalculateAddress` appends the constructor arguments to
`c.tokenBytecode`. The slice comes from `hex.DecodeString`, which returns the first half of
what it allocated, so `append` writes behind the bytecode into one array for
all calls. This is a data race; the model gives it the outcomes it can have: what a call
hashes is made of any nonempty part of the arguments appended while it was in the
calculator (`mixed`), its own among them. `hashed` is what came out, and an address stands for
what it hashes.

`InsertRow` changes nothing: the statement names a column `created_at`, which
`nonce_sequence` does not have, so the server refuses it, and its error is dropped.
`sequence` is `NoRow` on a chain that has no row (the migration inserts one for chain 97
only), and stays so. A salt, a signature and a request id are functions of
the fields of `Creation` and are named by them. `given` records which call was given
which nonce.

The module describes a service with a configured bytecode and signer.

### Access to the gRPC services

A process reads its environment once. `Loads`, `Configured` and the loopback condition of
`ServerStarts` and `Dial` are the checks of `config.Load` and of the mains, in their order: an
environment that fails one starts nothing. What is left of a certificate is the identity it
carries and whether a CA the peer trusts issued it. `HandshakeFits` is TLS, `Authorized` the
interceptor; a plaintext server has none. A server that stopped may start again with
any other environment, at its own port or another's, while the API keeps its connections.
`OtherCalls` is everybody else, from the same host or over the network, with any
certificate and with none.

### Lists and walks

`TokenReads` and `KlineReads` follow a client through page after page, while rows are inserted
between its requests. What the client has been answered, and which rows there were when it
began, are history variables. A statement of `TokenReads` answers with any items its ORDER BY
allows: rows of one `created_at` may be in any order, and in another one at the next page.
The offset goes through an `int` that wraps (`AsInt`) and a page number that must fit `int32`.

`klines.open_time` is a `timestamp` without time zone. pgx writes into it what the process's own
clock shows and reads it as UTC: this is outside `src/` and taken as given, like the
zones. The history only compares rows with a cursor made of a row, so that the zone
cancels out; a range compares rows with the clock of the API, and is right only if the indexer runs
in the same zone. Both Dockerfiles set `TZ=Asia/Shanghai`; nothing else makes the two agree.

`LegacyLists` keeps how many rows match and not which: its properties are about numbers that are
computed from two statements. A request for a page of 0 or of less is answered as the
code does: PostgreSQL refuses a negative LIMIT, `NewPageResponse` divides by zero, and
comments are cut to a negative length; go-zero answers 500 to both panics.
`GetMyFavoriteTokens` looks for the user under another key than the middleware stores it, and
so answers 401 to everybody (`logic.go:476`).

### Uploads

A rebuilt request is verified by the API, sent, verified again and signed; the clock may move in
between. The legacy handlers do it in one step. Both are requests of one module because
they sign the same kind of URL with different checks: only the rebuild limits the chain to
a positive `int32`, and only the legacy code takes a text that is no number for the default.

### The legacy login

Each command to Redis and PostgreSQL is an action. `held` is Redis, `gone` the history of
the nonces whose login deleted them. The error of `Set` is ignored (the message is answered
anyway), and so is that of `Del`. A command of Redis is taken as executed before its client gives up on
it. Unlike the rebuilt login, `Del` does not decide who goes on: every login that read the
nonce before it was deleted gets in. `UsedNonceIsGone` says where that ends. Tokens carry no kind that
the middleware looks at, so a refresh token opens the same routes; `FavoriteToken` and
`UnfavoriteToken` are what a holder can change.

## The runs

| run | states | shows |
|---|---|---|
| `ChainIndexer_safety` | 1.1 million | tables exact at every moment, no block skipped, a refused log holds the checkpoint, nothing moves back |
| `ChainIndexer_service` | 0.3 million | the indexer implements `ReadModel` and indexes every mined log |
| `LegacyIndexer_safety` | 2.2 million | what survives out-of-order kinds, ignored errors and replays |
| `LegacyIndexer_service` | 0.1 million | halving the batch gets every event through a node that limits its answers |
| `LegacyIndexer_kline_claim` | violation | an event is committed without its candles |
| `LegacyIndexer_ohlcv_claim` | violation | candles with the wrong open and close, without any failure |
| `SiweAuth_safety` | 3.7 million | challenges are consumed once, spent ones refused, first logins do not mix up users |
| `TokenCreation_service` | 0.4 million | an answered intent is stored; drains in time cut nobody off; everything opened is closed; signalled processes end |
| `LegacyTokenCreation_safety` | 2.1 million | answers are saved requests under ids of their own; repeated nonces and refused requests have a cause |
| `Services_apart` | 1.1 million | `GrpcSecurity`, `TokenReads`, `Uploads`, `LegacyLogin`, `KlineReads`, `LegacyLists` and `OverlappingIndexers`, each alone: access over restarts, exact walks, allowed URLs, nonces that stay gone, pages that fit their totals, no gap and exact rows under two indexers |
| `LegacyTokenCreation_address_claim` | violation | an address hashed over another call's arguments |
| `LegacyTokenCreation_nonce_claim` | violation | a nonce given twice after a failed UPDATE |

The type invariants of `SiweAuth` and `LegacyTokenCreation`, and those of the modules in `Services_apart`, are checked by no
run; all of them are theorems.

All of them check for deadlock: both indexers poll for ever, a login can always be tried and
an address always be predicted. The two processes of `TokenCreation` can be started again, and so can a
walk, a request and a server in `Services_apart`.

`Services_apart` chooses one of its seven components in the initial state (`part`), which then takes all the steps.
The seven share no variable, so an interleaving of two of them reaches no
state of either that it does not reach alone, and each property mentions the variables of one
component only: nothing is lost, and the state spaces add up instead of multiplying.

### Bounds

* `MaxBlocks`, `MaxLogs` (3 and 3, or 4 and 3): with `BlockBatchSize` 2, three blocks make a
  full range followed by a short one, or a short one followed by a full one when the head
  moves in between. Three logs suffice for create, trade, trade or create, trade, graduate
  in any distribution over the blocks, including all in one block and blocks without logs.
* `Tokens` 2 in `ChainIndexer_safety`: logs of one token between those of another. The
  tables are keyed by token, so a third adds nothing. Symmetric.
* `Intervals` of width 1 and 2: a trade that starts a row in one interval and merges into a
  row in another.
* `Prices` 1 and 2: the second trade is above, below or equal to the first.
* `StartBlock` 1 and 2: with and without blocks before the start.
* `MaxExits` 2 with orphans: a range can be replayed by a process that is itself lost during
  its commit. For the legacy indexer one exit and one ignored error: the properties of
  interest say what one of them cannot break; `failures = 0` in some of them
  restricts these to runs with exits only.
* `RpcLimit` below `MaxLogs` in `LegacyIndexer_service`: the node really refuses ranges.
* `Calls` 3, `Addresses` 2, `MaxChallenges` 2: two logins race on one challenge while a third
  call replaces it, or two first logins of one address race beside another address.
  `Lifetime` 1 and `MaxTime` 2 reach before, at and after the expiry. One failure can be a
  lost answer, a dropped call or a restart.
* `Attempts` 2, `MaxFailures` 1 in `TokenCreation_service`: requests never touch each other, so one is
  in any of its stages while the other is in any of its own, or is the retry of the first.
  One failure is a kill, a broken connection or a lost answer; signals, timers, clients that leave
  and failing starts are not bounded.
* `Calls` 2, `Creators` 2, `MaxStarted` 3: two creations race and a third meets what one of
  them saved; same or different creator, within a second or in two (`MaxTime` 1).
  `VanityNonces` {1} is a nonce the sequence gives too. `MaxFailures` 1: the first
  failure is what makes a nonce repeat. The address run needs two names and no failure.

* `Services_apart`: `Environments` are a plaintext and a TLS environment and nine that differ from
  one of them in one thing, at two ports, with `MaxServerStarts` 3: both services start, and one
  starts again with another environment. `MaxTokens` 4 with pages of 1 to 4: one page, several, and a last one
  that is empty; `MaxCreated` 2 gives ties and tokens without. `MaxInt` 15 and `MaxInt32` 7 are the two
  integer widths, which no walk over 4 tokens reaches; the proof shows that no offset wraps while a token is owed. Candles open at four times, in
  two zones; the limits are below 1, 1, and above `MaxLimit` 3. Two logins race on two addresses with two nonces; `NonceLifetime` 1, `AccessExpire` 1 and
  `RefreshExpire` 2 within `MaxLoginTime` 2 let each kind end before the other. `MaxChain` 2 lies between the
  chains asked for; `UrlLifetime` 2 and `MaxUploadTime` 3 let a token end between the two
  verifications. `PageNumbers` and `PageLengths` reach from below 0 to behind the last of `MaxMatching` 4 rows.
  Two alike `Indexers` with `RangeSize` 2 over 3 blocks and 3 logs: one saves a full range while the
  other saves a short one that ends inside it, or replays both after the first has moved the checkpoint behind them.
  A third process adds no new pair of them, and one token is enough for rows both write. An interval of width 2
  gives a candle trades of two blocks.

### Fairness

`FairSpec` of `ChainIndexer` asks for weak fairness of `Run` (the loop polls for ever on its
ticker, and a supervisor starts an exited process again) and of the settlement of an orphan
(the server commits or aborts it). Calls stop failing because `MaxExits` bounds the exits;
nothing is assumed about the order of the steps of the chain. `EveryLogIndexed` excludes
refused logs, with which the code stops for ever (`RejectedHolds`).

`FairSpec` of `LegacyIndexer` asks for weak fairness of `SyncStep`. A tick that achieves
nothing leaves every variable alone and so does not count as a step: what is assumed
is that calls do not fail for ever. `EveryLogStored` assumes in addition that the node answers for
the smallest batch (`SmallRangesFit`); below its floor the code does not shrink a range.

`FairSpec` of `TokenCreation` asks for weak fairness of the timers, of the steps of the mains behind
them, of the login's query in the API's pool, and of a cancelled handler's return. Nothing is
assumed of the service's database, of answers, or of a drain: `ServiceShutdownEnds` says that a service ends even
if its database has stopped answering, because `Stop` cancels the context that reaches `Exec`.
`ApiShutdownEnds` needs the database behind the API's own pool to answer: nothing cancels a login that
outlives `Shutdown`, and `pool.Close` has no deadline.

The other modules have no liveness property: the code promises that a call
ends, and ends well only if nothing interferes; a walk ends when its client stops asking.

### Findings

Two are about `src/apps/indexer` and what `src/README.md` says of it.

* The README says that the index service handles every event, the candles included, in one
  transaction (749-752). The error of the savepoint around the candles is logged and
  the batch commits, and the range is never written again: `LegacyIndexer_kline_claim`.
* The README says that candles are computed from the trade events as OHLCV (756-759).
  `syncBlockRange` writes the purchases of a range before its sales: with a sale before a
  purchase, open and close are swapped: `LegacyIndexer_ohlcv_claim`. No failure is needed.

The rebuilt indexer has neither: it applies projections in log order in one transaction.

Two are about the first API.

* A token's address is documented as the hash over the bytecode and the arguments of the
  call (`create2.go:69`). Two calls in the calculator at once share the bytes behind the
  bytecode, and one can be answered with, and sign and save, an address over the other's
  arguments: `LegacyTokenCreation_address_claim`. The rebuilt service copies the
  bytecode before it appends (`tokencreation/service.go:189`).
* `getNextNonce` is to get the next nonce (`service.go:323`). After an UPDATE that failed it
  reads the current one without taking it: `LegacyTokenCreation_nonce_claim`. On a chain without
  a row the INSERT that should create it cannot succeed, and every creation is refused.
  What survives is `AnswersAreSaved`: the unique request id turns a collision into a
  refusal, never into an answer that stands for another request.

## What is proved

The theorems hold for every value of the constants that satisfies the assumptions
(`ChainAssumption`, `IndexerAssumption`, `SiweAssumption`, `TokenCreationAssumption`,
`LegacyAssumption`, `CreationAssumption`, `GrpcAssumption`, `LegacyLoginAssumption`, `TokenReadsAssumption`,
`KlineAssumption`, `UploadsAssumption`, `ListsAssumption`, `OverlapAssumption`), whatever the length of the
chain, the batch size, the number of processes, exits, calls, requests, addresses, rows, pages, ports and failures.

### The rebuilt indexer (`ChainIndexer_proofs`)

All seven properties of `ChainIndexer_safety` and the refinement of `ChainIndexer_service` are theorems.
`TypeCorrect`, `LedgerIsExact`, `NoBlockIsSkipped` and `RefusedLogHolds` follow from
`IndexerInvariant` (`IInv`); `TokensAreCurrent`, `CandlesAreExact`, `CheckpointMovesForward` (an
action property) and `RefinesReadModel` from `ImageInvariant` (`IInv /\ ImageInv`).

None of the properties is inductive by itself. `LedgerExact` says that the ledger ends at the
checkpoint; that `Commit` preserves it needs to know that the open transaction holds the logs up to
`end` (`SavingOK`), which needs that the logs in memory are those of the range (`RangeOK`)
and that the range begins no later than just behind the checkpoint (`NextOK`). The last is
delicate: an orphan may move the checkpoint after the process read it. `OrphanOK` says how
far (one range), `NextOK` that the process is then at most one range behind, `LatestOK`
that the newest block it read covers the orphan's range, so that the replayed range ends at
or after the checkpoint and not before it. This is the argument that no gap and no step back
can arise, and it uses that a replayed range waits until the orphan is settled.
`ChainBounded` (logs are never added to a mined block) makes the answers of the node
final (`LogsFixed`). `LogsJoin` joins two adjacent ranges of logs.

`ImageInv` says what the other tables hold. A committed image is `Settled`: every log of its ledger that has a
projection got it. So is an orphan, because it may become the committed one without the
process. The open image is `Applied`: the committed one with the projections in `Done` applied, all
of them earlier than those in `todo`. Statuses and candles follow from the logs that were decoded
(`Projected`): a projection of a range is either in the committed tables already, and then changes
none of them, or later than everything in the transaction (`OnceOrLast`), and then merges as the
latest trade. Totals are different: a replayed range writes older totals over newer ones. What is
true at each moment is `TotalsOf`: the last trade applied in this transaction or, before the first,
what was committed. `CommitSettles` shows that this ends well: the range reaches
the checkpoint or beyond (`IInv`), so its last trade of a token is the last one of all.

A settled image is the one `ReadModel` defines (`ImageAt`), `Max` and `Min` included. The committed
tables change only to a `Publishable` image, of a block not before the checkpoint
(`PublishableImage`). If it is the checkpoint's own block, the image is the same and the step a
stutter; otherwise it is a `Publish`. All other steps are those of the chain or change nothing
the read model sees.

### Several indexer processes (`OverlappingIndexers_proofs`)

`OverlapTypeCorrect`, `LedgerNeverHasAGap`, `OverlapRowsStayExact` and `NothingIsTakenBack` follow
from `OverlapInvariant`. The last is an action property stated with its proof: no commit takes back a
log, a trade, a graduation or a trade of a candle, although a commit replaces whole rows of tokens and
candles by what its transaction made of them, and may move the checkpoint back.

Neither of the two invariants the run checks is inductive: they speak of committed tables, and a commit
publishes what a transaction wrote while others committed. `OverlapInv` says of the tables that they are
those of the logs in the ledger (`Shows`), which are all logs up to some block (`CoveredTo`), and that no
process is more than one block ahead of it. Of each transaction it says that its new raw logs and
trades are those the ledger did not have (`NewRows`), and that the rows it wrote are right with all the logs
that it sees, committed or its own (`Written`).

The heart is that of all open transactions only one has new logs (`Disjoint`). The ledger ends at a block
and ranges begin no later than behind it, so two ranges with logs outside the ledger
share the first of them; raw logs are inserted in order, and whoever would insert this log second
waits (`NewLogIsAlone`). So a commit with new logs finds every other transaction with logs the tables
have already (`OthersAtCommit`). Such a transaction adds no trade and no candle, and writes only rows of
tokens, which are locked one by one. If the range of the commit was partly replayed, its old logs are
those before its new ones, and the image it publishes is again that of a prefix of the chain
(`CoveredAtCommit`).

What holds of a process is said of the record it is, and of the tables of the record they are, instead of
the variables. A step replaces one record (`OneMoves`), and what was said of the others
stays true, because the record did not change.

### The legacy indexer (`LegacyIndexer_proofs`)

All seven properties of `LegacyIndexer_safety` are theorems: `LegacyTypeCorrect`, `NothingIsLost`,
`BatchesAreAtomic`, `StatusesAreExact`, `HighsAndLowsAreExact`, `RepeatsNeedRestarts` and
`GraduatedStaysSo` (an action property) follow from `LegacyInvariant`.

The properties speak of committed tables, and a commit replaces them by the image the transaction
built, so the invariant says of every image, `db` and the open one, what the
properties say of `db` (`TradesStored`, `StatusesOf`, `CandlesOf`, `NoRepeats`), and that the
open image keeps events and graduations (`Keeps`).

`NothingLost` needs to know where the process is: while no error was ignored, everything below
`next` is stored, and what is not stored of the range is still in `todo` (`NothingDropped`).
A process that starts again begins behind the checkpoint, so the two agree again.

`StatusExact` is about an order that is not the chain's. A creation must be stored before a graduation of
its token, or the graduation would find no row to update. Within a range the kinds are
written in this order (`RangeOK`: from `stage` 3 on no creation is left), and across ranges the
contract's order and `NothingDropped` help: the creation is in an earlier block and so stored.
An image where a graduation is without its creation is one whose creation lies before `StartBlock`. Writing a
creation again changes nothing, because the row is there.

`HighLowExact` holds although trades are merged in any order and more than once, because highest and lowest
do not depend on either: `RowOf` bounds the prices of the trades stored and says that some
trade has each. Open and close have no such invariant, and the run
`LegacyIndexer_ohlcv_claim` shows them wrong. `RepeatNeedsRestart` is `FirstPass`: until an exit, no event in
memory is stored, and none that is stored lies ahead.

### The login (`SiweAuth_proofs`)

`TypeCorrect`, `ChallengesAreConsumedOnce`, `SpentChallengesAreRefused`, `TokensAreTrue`
and `LostLoginsHaveAccounts` (an action property) follow from `AuthInvariant`.

`SpentIsRefused` talks about calls past the deletion; that a challenge such a call
verified was not spent when it began rests on `HeldIsUnspent` (what the store holds was never
consumed, replaced or dropped), which in turn needs `SaveIsFresh` (a challenge about
to be written is in nobody else's hands: nonces are fresh), and on `ReadIsRecent`, which
carries the fact through the steps between reading and deleting. `TokensNameTheirUser`
needs `IssueHasUser`: the row a call holds before it signs is still the row of its address.

### Rebuilt token creation (`TokenCreation_proofs`)

`TypeCorrect`, `AnswersAreStored`, `StoredErrorsHaveACause` and `EverythingIsClosed` follow
from `CreationInvariant`.

`StoredErrorNeedsCause` speaks of what a client was told and what the table holds, which change
at different times: a call may fail while its handler still runs, and the handler may end
while its statement still runs. `NeedsCause` closes the gap: once a call failed while its
intent may be, or become, stored (`Pending`), its request was hurt. That the processes keep
this needs `DrainsHurt`: whoever is left when a process goes on to close things was hurt by the
timer, because the other way out of a drain leaves nobody. `PartsAgree` says how far the
parties can be apart, and `OpenAtStep` what `New` and `Close` have open at each step. The
proof has two frames: a step of one request (`RequestFrame`), and a step of a process that
cuts off requests already hurt (`CutFrame`, `CutOff`).

### Legacy token creation (`LegacyTokenCreation_proofs`)

`TypeCorrect`, `AnswersStandForTheirRequests`, `NoncesAreFreshWithoutFailure` and
`RefusalsHaveACause` follow from `CreationInvariant`.

`AnswersAreSaved` is inductive, because the insert tests the id and writes the row in one
statement. `NonceRepeatNeedsFailure` needs `SequenceAhead`: until something fails the
sequence is ahead of every nonce it gave, and the fallback, which reads without taking, is
reached only where there is no row to read. `RefusalNeedsCause` compares a call with
a row saved long before; it needs that a nonce no search found was given to the call that
uses it (`NoncesAreGiven`, through every step up to the row) and that calls have numbers
of their own (`NumbersDiffer`), so that equal ids would mean a nonce given twice.

### Access to the gRPC services (`Services_proofs`)

`GrpcTypeCorrect`, `HandlersAreAuthorized` and `DenialsNeedRestarts` follow from `GrpcInvariant`.

Both properties are about the call the last step made, and so about everything that came before
it. `HandledIsAuthorized` rests on who can be listening: a server without TLS passed the
loopback rule of main, one with TLS has its allowed identities. `DenialNeedsRestart` compares a call
of today with the health check of start-up: as long as no server started at the port of a
connection, whoever listens there is the server that answered the check, and would answer the same
again.

### The legacy login (`Services_proofs`)

`LoginTypeCorrect`, `UsedNoncesStayGone` (an action property) and `JwtsAlwaysNameUsers` follow from
`LoginInvariant`.

A login begins with a nonce Redis holds, so that what is gone must not be held: `HeldIsLive`. Deleting keeps it only if a nonce is held for no
other address (`HeldByOne`) and a call deletes under the address it read (`DeletesOwn`);
fresh nonces are above `made` and so not gone. `JwtsNameUsers` needs `IssueHasRow`: the id a call is about to sign is that of
the row of its address, because a row is inserted once and never replaced.

### Walks (`Services_proofs`)

`WalksAreExact` follows from `KlineInvariant`. A walk hides nothing because the cursor splits
the candles (`CursorSplits`): every candle there was at first and was not answered lies before the cursor,
and everything answered lies at or behind it. A candle inserted late lies wherever it does, and was not there
at first. `RangesAreExact` needs arithmetic only.

`MissesNeedTies` follows from `ReadInvariant`. Its heart is `OwedIsAhead`: a token that was there at
first, was not answered, and shares its second with no other, has at least as many newer tokens as the
pages walked have rows. Insertions only add newer tokens. So it lies behind the offset of
the next page, and the last, which is not full, has everything behind its offset. Counting is done
with the cardinalities of `FiniteSetTheorems`; `NoWrap` and `MaxTokens <= MaxInt` keep the offset
from wrapping around as long as a token is owed.

### Uploads (`Services_proofs`)

`UploadTypeCorrect` and `SignedUrlsAreAllowed` follow from `UploadInvariant`. A URL is signed by the second
process, which knows the request only as the API passed it on, and perhaps some time later. `SentIsVerified` says what
the API leaves in it: a token of the issuer, the kind of its folder, and a chain that is an `int32` and the one asked
for. The conversions back, folder for kind and chain for `int32`, then lose nothing (`KindsAreFolders`), and
the second verification adds that the token is valid when the URL is signed.

### Legacy lists (`Services_proofs`)

`ListTypeCorrect` and `PagesFitTheirTotals` follow from `ListInvariant`. Count and page are two
statements; `CountFits` says that in between the total is right unless rows moved. What is left is arithmetic over pages of any
number and length (`PagesHoldTotal`), negative ones and the defaults included. The routes that answer without
reading rows are kept apart from the lists by their names (`ListsAreRoutes`).

## What is only model-checked

* `EveryLogIndexed`, `EveryLogStored`, `ServiceShutdownEnds` and `ApiShutdownEnds`: liveness under fairness is out of the
  prover's reach. All other properties of the runs that pass are theorems, the refinement included.
* What a recursion or a fold over data computes for every input would need induction with
  operator parameters, which the installed provers cannot instantiate; the modules with
  theorems therefore describe tables by sets and functions, without recursion.

## What is not modelled

* Reorganisations, and an RPC endpoint that answers from nodes at different heights: neither
  indexer has a defence, and no document promises one.
* Reads of one row or of rows without paging (`tokenDetail`, `GetTokenDetail`, `GetHotPick`, a user's
  status and commission): there is nothing between two steps of theirs that a property could be about.
* Routes that answer as if something was stored: comments, activities, rebates and `upload-confirm` change nothing.
* `service/chain/events.go` and `GenerateSTSCredential`: nothing calls them.
* Raw numbers, addresses, hashing, ABI decoding, signatures, SQL text: pure functions, or
  the data the properties do not tell apart. `uint64` block numbers are far from overflow.
* A challenge's text: validation compares fields that `RequestMessage` filled from the same
  settings; what can differ (address, expiry, the challenge signed) is modelled.
* Generated code, logging, and the legacy indexer's settings, which are constants of its module.

## Plan

Every safety and action property of the runs that pass is proved. What is left:

* to let a run check `NothingTakenBack`, which so far is only proved;
* to say of several indexer processes what becomes of `TokensCurrent`: totals are older than the newest trade
  only while a process that replays them has not come to its end.
