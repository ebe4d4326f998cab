# A TLA+ model of Node Neo

Node Neo is a Flutter app (`lib/`) over a Go library (`go/`) that embeds the
Morpheus proxy-router SDK. The user chats with models hosted on the Morpheus
network: a chat runs over a *session*, a stake on chain with an end time, opened
for one model. The app keeps conversations in SQLite and can serve the same
sessions to other programs through an OpenAI-compatible HTTP gateway. This
directory models the parts of the app where state is shared between actors or
outlives them, checks the models with TLC and proves the central facts with
TLAPS.

## 1. The system

| Part | Code | State | Operations and partners |
|---|---|---|---|
| Chain sessions | SDK (external), `session.go`, `loadChainSessionSnapshot` | sessions: model, open / past its end / closed | opened by chat screens and by gateway requests, closed by the user or by a delete, end by themselves |
| Conversation store | `internal/store/store.go` | tables `conversations` (model, source, bound session) and `messages` | one statement or transaction per method; called by the bridge under `mu`, by prompts and by the gateway without it |
| Chat screen and bridge | `chat_screen.dart`, `mobile/api.go` | the screen's phase, thread and session; `mu` | claim or create a thread, reuse or open a session, bind, prompt, reconnect, resume, delete, close |
| Gateway | `internal/gateway` | `chatIDMap`, requests in flight | for each request: find or open a session, find or mint a conversation, create and bind the row, store both turns |
| Wallet and database life cycle | `app.dart`, onboarding, `api.go` Init and OpenWalletDatabase | keychain, sentinel, RPC override, database files; `client`, `db`, key | start, create or import, erase, factory reset, RPC change, relaunch |
| Prompt streaming | `api.go` 379-388, 760-1021, `cshared/main.go`, `bridge.dart` | think-tag buffer, `activePromptCancel`, delta store | SDK callback, FFI callback, cancel |
| Gateway server, API keys, tunnel | `server.go`, `auth.go`, `quick.go`, `api.go` 1473-1612 | `gw`, `cfTunnel`, each gateway's server and `Store`, `api_keys` | start, stop, status, reopening the database, key generation and revocation, all under `mu`; requests, the serving goroutine and `cloudflared` beside them |
| Request relay | `handlers.go`, `completions.go`, `embeddings.go` | one request's stream and what the handler remembers of it | provider, SDK callback, API client, store |
| Backup and restore | `backup.go`, `backup_reset_screen.dart` | the three tables, a transaction, a file | export and import, under `mu`; writers that do not take it |
| MOR scanner and withdrawals | `mor_scanner.go` | none of its own: balances, sessions and nonces are on chain | a scan is a series of reads, a withdrawal one signed transaction sent to several endpoints |
| Models endpoint, logger, app lock | `models.go`, `logger.go`, `app_lock_service.dart` | a list with a lifetime; a file; a flag | each on its own |
| Preferences, amounts, settings screens, MCP server | `lib/`, `mcp-server/` | single values | no shared state of their own |

What makes the system hard:

- **Three kinds of writers, no common lock.** Bridge functions exclude each other
  through `mu`. A prompt's reply and every gateway request write to the same
  tables without it, and SQLite runs without `busy_timeout`, so overlapping
  writes fail and most callers drop the error.
- **Waiting with the lock.** `StartGateway` and `StopGateway` keep `mu` while they
  wait for a bind, for a process that prints its URL, or for requests whose end
  is up to clients and providers.
- **Several parties to one exchange.** A streamed answer has a provider, a handler
  and a client, and each can break off; a transaction goes to one RPC endpoint
  after the other, and nodes pass it on meanwhile.
- **Read, then act.** `DeleteConversation`, `GetConversations`,
  `ClaimEmptyDraftForModel` and the gateway's `resolveSession` and
  `getOrCreateConversation` each decide on a state that may be gone when they
  act on it.
- **Work that outlives its owner.** A prompt goes on when its screen has gone, an
  `OpenSession` after the screen gave up, a request after its gateway stopped,
  a database handle after the wallet was erased.
- **State split over a process and a disk.** Keychain, sentinel, files and chain
  survive a relaunch; `chatIDMap`, `client`, `db` and the key do not. An SDK
  restart inside the process is a third case, in which they all survive.

## 2. Modules

| Module | Models |
|---|---|
| `SessionChain` | the wallet's sessions on chain: `ChainOpen`, `ChainClose`, `Expire`, the lookups `Usable` and `UsableFor` |
| `ConversationStore` | the two tables: one operator per store method, each one step |
| `LocalChat` | chat screens (`flow`), prompts (`prompt`) and the bridge functions; `mu` names the function that is inside and what it has read |
| `GatewayRecords` | gateway runs with their `chatIDMap`, and requests (`req`) with the step each is at |
| `ChatSessions` | the composition over one chain and one store, with expiry and relaunch, and the properties |
| `ThreadHistory` | abstract specification of the stored history: threads begin, get messages, are discarded or erased |
| `MCChatSessions` | its instances for TLC |
| `ChatSessionsProofs`, `ChatSessionsHistoryProofs` | theorems about `ChatSessions`: types, bindings and rows; threads, history and the refinement |
| `ThinkTags` | the think-tag parser as a function of a chunk and its state, and the answer of a whole text as the reference for it |
| `PromptStream` | goroutines of streamed prompts, the cancel function, the delta store, the isolate's port and the callbacks |
| `MCPromptStream`, `PromptStreamProofs` | its instance for TLC; theorems about it and about the parser |
| `AppLifecycle` | keychain, files and the Go globals through start, onboarding, erase, reset, RPC change and relaunch |
| `MCAppLifecycle` | its instances for TLC |
| `AppLifecycleProofs` | theorems about `AppLifecycle` |
| `GatewayServer` | `gw`, `cfTunnel` and what they refer to, API keys, and requests up to their authorisation |
| `MCGatewayServer`, `GatewayServerProofs` | its instance for TLC; theorems about it |
| `EndpointRelay` | one authorised request of any endpoint between provider, handler and client |
| `MCEndpointRelay`, `EndpointRelayProofs` | its instance for TLC; theorems about it |
| `BackupRestore` | export and import statement by statement, with their writers |
| `BackupPromise` | abstract specification of a backup: what the file holds, and that an import replaces all or nothing |
| `MCBackupRestore`, `BackupRestoreProofs` | its instance for TLC; the refinement and the invariants proved |
| `MorScanner` | the wallet's MOR on chain, a scan of it, and withdrawals over several endpoints |
| `MCMorScanner`, `MorScannerProofs` | its instance for TLC; theorems about it |

`EXTENDS` follows the layers: `SessionChain`, `ConversationStore`, then
`LocalChat` and `GatewayRecords` side by side, then `ChatSessions`. `PromptStream` extends
`ThinkTags`. The last four components share no state with these beyond what they
name themselves, and stand alone: `GatewayServer` ends where a request is let in,
`GatewayRecords` chooses its session and rows, `EndpointRelay` does the rest of it.

### ChatSessions and the code

A chat screen is a `flow` whose `pc` is its phase: `claim`
(`ClaimEmptyDraftForModel` is inside), `reuse` and `opening`
(`_openSessionAndPersist`), `create` and `bind`, `ready`, `sending`; `reattach`,
`reopening` and `rebind` are the same steps for a thread that is already on
screen (`_send` without a session, `_recoverSession`); `left` is an open that
goes on without its screen; `gone` is a disposed or failed screen. A bridge
function that only reads or only writes is one action. One that reads and then
writes is split there: between the halves every writer that does not take `mu`
may run. A prompt is `streaming` until the SDK returns, then stores the question
and the answer in two transactions.

A request's `pc` names the call it makes next: `find`, `open`, `record`
(`getOrCreateConversation`), `create`, `bind`, `inbound`, `stream`.
`convMu` makes the choice of the conversation id one step; everything after it is
outside the lock, as in the code. Each `StartGateway` is a new `run` with an empty
map; requests keep the run they arrived in.

`updated_at` counts seconds, so "the latest" row among several candidates is
modelled as any of them. Ids come from clocks (microseconds and a random part, or
nanoseconds) and are never drawn twice. `Faults` says what the environment does:
`busy` (a write fails with SQLITE_BUSY), `dbread` (a SELECT fails: the file cannot be read, or
was closed under a gateway), `readfail` (a chain read fails), `stop`
(StopGateway, with requests in flight), `crash` (the process ends and starts
again). Prices, stakes, titles, pins, metadata and message texts are left out:
no property depends on them.

### ThreadHistory and ChatSessions

`ThreadHistory` is what a user relies on and what `store.go`'s comments say of drafts,
deletes and API rows: a thread begins once, keeps its model and source, never comes back
after it has gone, and goes only by the user's delete, with all its messages, or as a spare
empty draft of a model that keeps another thread; a user message is said only in a thread
that is there. It has no lock, screen, session, request or crash. `ChatSessions`
implements it under the mapping at its end: `threads` are the rows without their session,
`said` is the messages table, and `fresh` are the ids nobody has drawn and the ids of
requests that have minted one and not yet inserted its row. So an insert that fails, or a
crash before it, is a step of the abstract specification too (`Forfeit`), and minting, in
which the id goes from the clock to a request, is none.

### PromptStream and the code

A prompt is `begun` when its goroutine runs, `streaming` once its cancel function is in
`activePromptCancel`, `returned` when the SDK has returned and the reply is
stored, `released` after the deferred function, `done` when the result is posted.
A chunk goes through `Scan` in one step: the loop takes no lock and shares
nothing but the posts it makes. `port` is the queue of the Dart isolate, in which the posts of
one prompt's two callbacks keep their order. `shown` is what `onDelta` gathers
(`accumulated`, `thinkingAccumulated`) and the result the future completes with; it goes on
when the screen has gone. Text is a sequence of symbols in which a tag is
two, so that it can be cut by a chunk boundary. Writes succeed here, since
`LocalChat` has their failures; `isLast` only hurries a repaint and is left out.

### AppLifecycle and the code

`pc` is where `_initSDK` or the user is: `start` (before `FirstLaunchGuard`),
`network`, `init` (`Init` in its isolate), `restore`, the screens `onboarding`,
`home`, `offline`, `error`, the awaited steps `save` and `scope` of onboarding,
`erased`, `reset`, `wipe` and `rpcChanged`. `OpenWalletDatabase` and
`SetEncryptionKey` are two synchronous calls in a row and form one step. A stored
conversation is a record of the file it is in, the wallet that had it and the key
it was encrypted with. The gateway appears as `gw`: off, live, or holding a store
that was closed. `SafeShutdown` changes nothing, because that is what
`_safeShutdown` does: `compute` runs it in an isolate with its own `GoBridge`
singleton, and `GoBridge.shutdown` returns at once when that instance was not
initialized. Faults: `offline`, `initfail`, `importfail`, `dbfail`,
`summaryfail`, `keychain`, `sentinel`, `gateway`. A wallet stands for its address and
fingerprint; its private key is a text that can be written in several `Forms` (letters of
either case), and the key of a database is the hash of that text (app.dart:237), so a
wallet can have several. Prompts in flight, rows of releases that did not encrypt yet, the
migration of a saved mnemonic and partly failed renames and deletes are left out.

### GatewayServer and the code

`mu` says where the bridge function that holds it is waiting: `binding` (the 100 ms
`Start` gives `ListenAndServe` to fail), `bindingForTunnel` and `tunnelling` (the same
start with a quick tunnel, and the up to 90 s for its URL), `abandoning` (the `Stop`
after a tunnel that did not come up), `stopping` (`Shutdown` with its five seconds).
Requests, the serving goroutine and the process move meanwhile. A `Gateway` has the
`Store` it was made with, which `OpenWalletDatabase` may close; `WalletOf` says whose
file that was, and a key's row is in one wallet's file. A name of `Gateways` or `Stores`
can be taken again when nothing refers to the object any more, so no number of
restarts is left out. A request is `arrived` until `ValidateAPIKey` has read the row of its key
(`LookUp`), `comparing` until bcrypt agrees and the middleware lets it in (`Authorise`);
no lock is held, so keys are revoked and databases reopened in between. `late` remembers
that its key's revocation had been reported before it arrived. `last_used` is written by a
goroutine of its own (`touch`); it is an UPDATE, so a row that has gone stays away. That `cloudflared` dies is one action for two
causes: by itself, or because `StartQuickTunnel` cancels the context of the process on
return (below).

### EndpointRelay and the code

One request runs through `resolve`, `inbound`, `sdk`, `returned`, `persist`, `reply`.
Chunks are numbered, and a text or a fragment of arguments is its chunk's number, so an
answer that is out of order, doubled or cut shows. What a chunk is (text, a finish
reason, a fragment of a tool call with or without an index, JSON the probes cannot
hold) decides what each endpoint does with it: the chat endpoint relays before it parses, the
legacy endpoint parses before it relays and drops what it cannot translate. `WriteError`
needs a client that has gone, but a write to such a client may still succeed. Assumed of the
SDK: it sends the nil chunk last and fails no more after it, and it returns when
its context is done. One choice per answer and one fragment per chunk. Either write to
the store may fail and its error is dropped; `unsaved` tells of the second.

### BackupRestore and the code

`op` is the statement the export or import is at. `mu` keeps `Delete` and `SwitchWallet`
out, not `Write`, which stands for prompts, requests and preferences; from the import's
first DELETE on, writers find the database locked. An export is three SELECTs with a
snapshot each, then the file is truncated and written. An import is seven statements in a
transaction that failures and crashes roll back. A row is its id and the key it was encrypted
with, and travels as it is stored. SQLite and the file system are external.
`BackupPromise` has one step for each of export and import: the file holds all that was
there when the export began, and an import makes the wallet's history the
file's in one step. `begun` in the detailed module is that beginning, a history variable.

### MorScanner and the code

A stake is one unit. `chain` is the latest block and `view` the latest each endpoint has, up
to `MaxLag` transactions behind. The scan is the series of its reads (`hold`, `count`,
`batch`, `sessions`) with `found` as the running total. Each read may be answered from
another endpoint's block, since `ethCall` falls back by itself for every call, and an answer may
be empty: `ethCall` takes one without result and error for "", which decodes to 0. The
scan's record notes what the code does not: what the wallet had in the block of the first
answer (`owned`), and whether an answer came from an older block than the one before it
(`back`), a session or a transaction lay between two of them (`opened`, `moved`), or one was
`empty`. Reads may also fail: an error before the sessions, a break at a batch, a skip at a
session. A withdrawal reads a nonce from an endpoint that answers, signs once, and tries one
endpoint after the other; an answer may be lost, or be empty and reported as success without
a hash; endpoints gossip, and the SDK's transactions take nonces of the same wallet. Blocks
are not reorganised and pools not evicted; `savedRPC` does not change under a call; one
withdrawal runs at a time, as the screen awaits it.

## 3. Runs

| Run | Instance | Shows |
|---|---|---|
| `faults` | 2 models, 2 sessions, 1 screen, prompt and request, every fault; 1.1 million | `TypeOK`; `BindingsAgreeWithChain`: a row is bound only to a session of its own model. `ApiRowsKept`: API rows are never claimed and only deleted by the user. `HistoryImplemented`: `ChatSessions` implements `ThreadHistory` |
| `gateway_alone` | 2 requests, 2 sessions, one chat id, 2 gateway runs, crashes; 305 000 | `SessionRequestsShareRow`, `OneBoundApiRow`: one conversation per session, also for requests that meet and after a restart, with writes and chain reads that fail; without `stop` and `dbread`, under which the code mints a second row (below) |
| `local_alone` | 3 screens, 2 threads, 2 sessions, a prompt, crashes; 320 000 | `ScreenThreadExists`: no draft cleanup or delete takes a thread from under a screen. `HistoryKept`: messages go only with a deleted thread. `SharedSessionKept`: a delete closes only a session no other thread uses; without `dbread` and the gateway, with which the code closes shared ones (below) |
| `dead_bindings` | 2 sessions, 1 thread, 1 API row, fair; 14 000 | `DeadBindingsCleared`: a binding to a dead session is removed in the end |
| `prompt_stream` | 2 prompts, 3 pieces of text between them; 1.8 million | `TypeOK`; `DeltasAwaited`: every text is fetched once; `ShownIsReply`: what was shown is what is returned and stored; `ResponseIsAnswer`: the response is the text outside the tags |
| `lifecycle` | 2 wallets, 2 ways to write a key, 2 RPC settings, `offline` and `initfail`; 4 900 | `ConversationsInOwnDb`: rows are in the file of their wallet; `HistoryFound`: all rows of the wallet in use are in the open one; `OneWallet`: saved, loaded and open are one; `VaultKept`: the saved key is not replaced |
| `lifecycle_faults` | 2 wallets, every fault, the gateway; 2.5 million | `TypeOK`; `EncryptedAtRest`: no row before the key; `HistorySurvives`: before a factory reset a row stays, or goes with `nodeneo.db` to the file of a wallet that had none. That wallet may not be its own under these faults (below) |
| `gateway_server` | 2 gateways, 3 stores of 2 wallets, 1 key, 2 requests, fair; 531 000 | `TypeOK`; `ServingIsReachable`: what listens is what the settings screen shows and stops; `TunnelFollowsGateway`: so is the tunnel; `RevocationBlocks`: a key is looked up where the user could revoke it, and once that was reported no request that arrives is let in; `MuReturned`: no wait keeps `mu` |
| `endpoint_relay` | 3 endpoints, 3 chunks, 2 tool-call indexes, fair; 509 000 | `TypeOK`; `TurnMatchesAnswer`: what the client saw is what is stored, if the store takes it; `CallsKeptApart`: the merge against its definition; `StreamTerminated`: one `[DONE]`, an error before it; `LeftRequestEnds`: a client that has gone does not keep its request |
| `backup_restore` | 2 wallets, a thread, 2 messages, a preference; 557 000 | `TypeOK`; `RowsReadable`: no row in a database whose key cannot read it; `PromiseKept`: `BackupRestore` implements `BackupPromise` |
| `mor_scanner` | 2 endpoints, one of which may lag, 3 sessions in batches of 2, a withdrawal; 5.5 million | `TypeOK`; `ScanNeverOverstates`: what moves under a scan is missed at worst, unless a later answer is of an older block; `QuietScanIsExact`: a scan called complete misses nothing when nothing moves and no answer is empty; `WithdrawnOnce`: a rebroadcast withdraws once, and what reported its hash can be mined while its nonce is free |
| `rpc_gap` | 2 wallets, 2 RPC settings; expects a violation | `ClientUsesSavedRpc` fails: app.dart:250 says the RPC change tears the client down, and the client of the old endpoint stays |

`ResponseIsAnswer` assumes that a cut tag begins its chunk (`TagsAtChunkStart`), which
is what the code handles; the theorem about it assumes the same and nothing else.

### Where the code differs from what one would state

The models contain the following behaviour; no run is spent on it.

Against a text of the repository:

- CancelPrompt "aborts the in-flight streaming prompt (if any)" (api.go:379), but the
  deferred function of a prompt sets `activePromptCancel` to nil whoever set it
  (api.go:873): when the prompt of a left screen returns, the one that streams now
  can no longer be stopped.
- A partial tag at the end of a chunk is to be buffered (api.go:908), but is buffered only when
  it is all that is left: a tag cut while other text stands before it ends up in the answer.
- "The private key is stored in the platform's secure enclave" (llms.txt:31), but any
  bridge error while the wallet is restored, a failed database open included, empties the
  keychain (app.dart:208) and the home screen opens with the wallet all the same. A
  keychain that cannot be read looks empty, and a new wallet overwrites what it holds
  (wallet_vault.dart:103).
- "Each wallet gets its own SQLite database" (llms.txt:219), but onboarding skips the
  database step on any error, a failed balance read included
  (onboarding_screen.dart:87), and the new wallet writes into the database that was
  left open. After a keychain that could not be read, the single database of an older release
  is renamed for whichever wallet is imported next. Neither wallet then finds its rows:
  `lifecycle` leaves these faults out.
- After an erase, "if the user re-imports the same wallet later, conversations auto-reconnect"
  (app.dart:263, llms.txt:261). Their rows are found again (`HistoryFound`), but the import strips only
  0x and keeps the case of the letters (onboarding_screen.dart:103), and the database key is the
  hash of that text (app.dart:237): a key typed in the other case opens the file and reads nothing in it.
- The deleting of threads counts those on a session to keep a shared one open
  (store.go:806), "only [...] when this is the last local thread using the session" (api.go:1176).
  Among screens that holds (`local_alone`). But a count that fails is taken for 1
  (api.go:1173), so the shared session is closed, and a gateway request can bind its row
  between the count and the close (api.go:1174).
- "Only when none of the above hits do we mint a fresh" id (handlers.go:311), but a lookup in
  the store that fails counts as a miss (handlers.go:331): the session gets a second row
  although it has one.
- `RevokeAPIKey` deletes a key, "immediately blocking further use" (store.go:354), but a request whose
  row was read before the delete is let in after it: bcrypt and the admission follow without a
  lock (store.go:313, auth.go:38). `RevocationBlocks` speaks of requests that arrive later.
- Public nodes "may have different sync states" (chain_config.dart:24), and `ethCall` falls back to
  the next one for each call by itself (mor_scanner.go:71): when the balance comes from one node
  and the sessions from one that is behind, the stake of a session closed in between is
  counted twice. `ScanNeverOverstates` therefore speaks of answers that do not go back.
- `incomplete` is to tell a scan that missed something, and the wallet screen says so
  (wallet_screen.dart:556), but an answer without result and error counts as 0 MOR, nothing on hold or no
  sessions (mor_scanner.go:107, 175, 187, 203), and the scan is called complete.
- "Recovery transaction submitted" (wallet_screen.dart:118) is also shown when the answer to
  the broadcast was empty and no endpoint has said that it took the transaction
  (mor_scanner.go:557).
- `StartQuickTunnel` runs `cloudflared` under a context it cancels on return
  (quick.go:53), so the process is killed soon after its URL was handed out, and
  `GatewayStatus` goes on showing the URL. The expert screen does not ask for a tunnel;
  callers of the exported function do.
- The legacy endpoint leaves a breadcrumb rather than "a blank assistant bubble"
  (completions.go:354) only when there is a finish reason: a stream that fails before its first
  chunk stores a blank one.
- The logger keeps "5 rotated files" (logger.go:16); it keeps four and the current one.

Without a text against it: a request that finds its conversation id cached before the
row exists loses its user message (handlers.go:339). A thread whose first prompt is in
flight is claimed as an empty draft by the next screen (store.go:730). A hit on a cached
`X-Chat-Id` returns a row of an earlier session, so the session now in use gets no
row (handlers.go:318). A request that outlives `StopGateway`'s five seconds and one
of the next gateway can mint a row each for one session: `OneBoundApiRow` is
checked with a crash between gateway runs, where it holds, and not with `stop`; and
`SessionRequestsShareRow`, which speaks of the requests of one gateway, holds under every fault. A
reply that arrives after its thread was deleted leaves an answer without a
conversation, since the schema's foreign key is not enforced, and either half of
an exchange can be lost alone (api.go:1014). The factory reset deletes the
databases while SQLite has one open, and an RPC change leaves a running gateway
with a closed store: its requests get an error until it is started again. An export
that fails while writing leaves neither the file it replaced nor a new one
(backup.go:84). Tool-call fragments with an index and without, mixed in one stream, are put
into each other's calls, and so are those of two choices (handlers.go:192); without a
stream only the first choice is stored. A withdrawal that reports an error may
have been accepted.

### Bounds

Two sessions let one end or be closed while the next is opened, two threads let
one be claimed while another is cleaned up, three screens let a thread be left,
claimed and resumed. Two requests are what a race in `getOrCreateConversation`
takes, two gateway runs what a restart takes. A second model is only needed
where the model of a session matters (`faults`). `MaxRuns` bounds the calls of
`StartGateway`; the sets bound everything else: a screen, prompt, request and id
is used once. Two wallets are what an exchange of databases takes, two forms a key typed in
another way; the life cycle itself is unbounded. Symmetry sets are used in safety runs only.
Three pieces of text are what a cut tag with an answer around it takes, or an answer for each of
two prompts. `prompt_stream` does not check for deadlock: when every prompt is done
and the screen is left, nothing happens any more. Neither does `endpoint_relay`, whose
request ends, nor `mor_scanner`, whose sessions and withdrawals are used up.

Two gateways let one be started while the requests of another go on; three stores let
a wallet be left and come back to with its key in another `Store`. Three chunks are two
fragments of a call with one of another between them, or an answer broken off in its
middle; `MaxIndex` 1 gives two calls and a gap before the second. Three sessions in batches
of two give a full batch and a short one; one unit of `Funds` goes through wallet, stake,
hold and back in every order. Two endpoints are one that took the transaction and one that is tried
next, or one that is up to date and one that lags by a transaction (`MaxLag` 1), as much as it
takes to see a stake twice. One withdrawal and the SDK's transactions compete for a nonce; two
withdrawals are too many states for a run, and the theorems hold for any number. Two messages of
one thread are what a half-replaced table takes, two wallets a backup offered to the wrong one.

### Fairness

`FairSpec` assumes that the home screen's 45 s timer (home_screen.dart:183) goes on
calling `GetConversations`, that its chain reads succeed again and again, and that a bridge
function that was entered returns. Nothing is assumed of screens, requests or
the user. `dead_bindings` leaves out `busy`: with writes that fail for ever
nothing can be promised.

`GatewayServer`: weak fairness of the waits under `mu`, each of which the code ends
with a timer of its own: `time.After(100 ms)`, the 90 s context, the five seconds of
`Shutdown`. Nothing is assumed of clients, providers, `cloudflared` or the serving
goroutine. `EndpointRelay`: weak fairness of the handler's own steps, and of the SDK's
return when the request's context is done; `net/http` ends that context when the connection
goes. A provider may be silent for ever while its client waits.

## 4. Proofs

Each theorem holds for every value of the constants (any finite or infinite
sets, any `MaxRuns`, any `Faults` unless it says otherwise) under the assumptions the
modules name: ids of different kinds differ (`StoreAssumption`, `LocalAssumption`,
`GatewayAssumption`, `LifecycleAssumption`, `ServerAssumption`, `BackupAssumption`), bounds
are numbers and there is an endpoint and a batch (`ScannerAssumption`, `RelayAssumption`),
and a provider sends pieces of text that are not empty (`StreamAssumption`). Six
theorems have a hypothesis of their own, named where they are listed: it takes away a
fault or an actor, and section 3 tells what happens with it.

**ChatSessions**

- `TypeCorrect`: `TypeOK`. Its invariant adds what each `pc` implies: a flow at
  `bind` has a thread and a session, a request at `create` an id.
- `BindingsCorrect`: `BindingsAgreeWithChain`. Not inductive alone: a row is bound
  from what a flow or a request found earlier. The invariant `Consistent` adds that
  every session held by a flow or request was opened for its model
  (`SessionsAgree`), that every thread held is a row of that model or no row any
  more (`RowsAgree`), and that ids are not drawn again (`IdsDrawn`, `MintedOnce`),
  so a row cannot come back under another model.
- `OneConversationPerSession`: `SessionRequestsShareRow`, with every fault. What a request
  that named no chat holds is what the map of its run has for its session (`SharedRow`), and
  before it has a session it holds nothing (`NoRowYet`).
- `OneRowPerSession`: `OneBoundApiRow` when there is no chat screen, nobody stops
  the gateway and the store answers its lookups (`GatewayAlone`); failing writes, crashes
  and new gateways are included. Requests in flight are
  those of the latest gateway (`InFlight`), the maps of later ones are empty (`MapsToCome`), a
  request about to insert or bind its row has it in the map (`Recorded`), and a session that is
  in the map has no bound row but the one in the map (`BoundInMap`), so no session has
  two (`BoundOnce`).
- `LastThreadCloses`: `SharedSessionKept` when no gateway is at work and the threads can be
  counted (`ScreensAlone`): what
  the delete has learned of the session is still true when it closes it (`LastThread`), since
  every other bridge function that binds a row needs `mu`.
- `ScreenThreads`: `ScreenThreadExists`. The invariant `Shown` adds that at most one
  screen is mounted and that delete only runs at home (`OneScreen`).
- `StoredHistory` and `ApiTraffic`: the action properties `HistoryKept` and
  `ApiRowsKept`, from `WhoRemovesRows`: only `ClaimDraft` and `DeleteRows` remove
  rows, and the former only other empty drafts of source `ui`.
- `Refinement`: `HistoryImplemented`, that is `Spec => History!Spec`. Initial states map to
  initial states, and under `Consistent` and `Shown` every step maps to one of
  `ThreadHistory` or a stutter: `IdsDrawn` and `MintedOnce` show that an inserted id was
  `fresh` and is not afterwards, `RowsAgree` and `ScreenThreadExists` that the claim's
  cleanup leaves the model the thread it has claimed.

**PromptStream**

- `TypeCorrect`: `TypeOK`. The chain of rounds in `Scan` and `FlattenSeq` are functions
  defined by recursion, so their types are inductions over a number. These are derived in
  the module: a nonempty set of numbers has a least element, hence `Induction` for a
  given set, hence that such a function exists (`RecursionExists`).
- `NoDeltaLost`: `DeltasAwaited`, inductive with the types: a post takes numbers that are
  larger than all in use, and a handled post takes its text with it.
- `RepliesAgree`: `ShownIsReply`. The invariant `Replying` says that what the callbacks have
  gathered, followed by what is on its way in the port, is the response so far (`Gathered`,
  over the lemmas on `FlattenSeq` of appended and shortened ports); that the
  completion is the last post of its prompt and brings the final text (`CompletesLast`); and
  that the reply was stored before the goroutine reports (`StoredFirst`).
- `AnswersAreText`: `ResponseIsAnswer`, for texts of any length cut anywhere
  `TagsAtChunkStart` allows. The invariant `Parsing` says that between two chunks the parser
  is inside or outside as the text so far says, holds back the "<" it ends in, and has handed on
  the answer before it (`ParsedUpTo`). Within a chunk, what is left to scan is what is left of
  the text after some number of symbols, the last of which does not begin a tag (`Reading`);
  a round keeps that and goes on by at least one symbol (`RoundReads`), so by `Induction` the
  rounds of `Scan` reach the end.

**EndpointRelay**

- `TypeCorrect`: `TypeOK`, with what bounds the numbers of chunks (`Typed`).
- `StreamsEnd`: `StreamTerminated`, from `Closing`: where an end of the stream stands, and that
  it is there once the handler is past the SDK's call.
- `TurnIsAnswer`: `TurnMatchesAnswer`. `Answering` relates provider, wire, client and what
  the handler remembers: chunks are on the wire in order (`InOrder`, `Numbered`) and none that
  carries text is left out (`Gapless`, `AllWritten`), the client has read up to some chunk
  (`ReadUpTo`), and the handler remembers at least what was written (`AllRemembered`).
- `CallsNotMixed`: `CallsKeptApart`, from `CallsApart`: the same for indexed fragments
  of a stream (`CallsByIndex`) and for those without an index or of an answer in one piece
  (`CallsByFragment`), over what one merge does to a list of calls (`MergeEffect`).
- `LeftRequestComesToAnEnd`: `LeftRequestDescends`, the part of `LeftRequestEnds` that rests on no
  fairness. `StepsLeft` counts what is still before the handler; once the client has gone, a
  step of the handler or of the cancelled call lowers it and nothing raises it.

**AppLifecycle**

- `LifecycleTypeCorrect` and `History`: `TypeOK` and `HistorySurvives` under every
  fault; the latter from `FilesPresent`: rows are only in files that exist, so a
  rename to a file that does not exist replaces none. It speaks of loss and not of owners.
- `NothingStoredInClear`: `EncryptedAtRest` under every fault. `Keyed` says that
  whoever can store a conversation does so in a database that has a key: the app once it has a
  wallet, the gateway as long as its store is the open one.
- `OwnDatabases`, `HistoryIsFound` and `HomeHasOneWallet`: `ConversationsInOwnDb`,
  `HistoryFound` and `OneWallet` when only `offline` and `initfail` occur (`Benign`); section 3 names the
  faults under which they fail. The invariant `Separate` says that a wallet in use is saved,
  loaded and open at once (`InUse`), what each screen knows (`Screens`), and that rows
  in the unscoped database are those of the saved wallet and no screen has been
  reached before they are taken over (`Unmigrated`, `OwnRows`).
- `VaultLeftAlone`: the action property `VaultKept`, also under `Benign`: the keychain is
  written only where it is empty, and a container without the sentinel has no database
  (`VaultFree`).

**GatewayServer, BackupRestore, MorScanner**

- `ServerTypeCorrect`, `ServingReachable`, `TunnelBelongs` and `Revocation`: `TypeOK`,
  `ServingIsReachable`, `TunnelFollowsGateway` and `RevocationBlocks`, from `ServerInv`. What
  listens or is about to belongs to `gw`, whose server is set (`OneSocket`); a process that
  runs is the recorded one or the one being waited for (`OneTunnel`); the only open
  `Store` is `db` (`OneStore`), so a key that `LookUp` finds is in the database the user
  can revoke it in; a revoked key has no row (`RevokedAbsent`), so a request that arrived
  after its revocation does not get past the look-up (`LateKeptOut`).
- `WaitsComeToAnEnd`: `WaitsEnd`, the part of `MuReturned` that rests on no fairness. `Waits`
  counts the waits still before the function that holds `mu`, three at most; every one
  that ends lowers it, and no other action changes `mu` meanwhile.
- `BackupTypeCorrect`, `RowsStayReadable` and `BackupKeepsPromise`: `TypeOK`, `RowsReadable`
  and `PromiseKept`. The invariant says that what an export has read is part of the
  database and contains what was there at the beginning of the tables read so far, that what a
  whole file holds is encrypted with its wallet's key, and what the transaction holds
  after each statement.
- `ScannerTypeCorrect`, `WithdrawsOnce`, `ScanIsBounded` and `QuietScan`: `TypeOK`,
  `WithdrawnOnce`, `ScanNeverOverstates` and `QuietScanIsExact`, for any number of endpoints and any
  lag. For the second, all transactions of a call in any pool carry the nonce the call read, and
  once one is mined that nonce is used on the chain, whatever a lagging pool still holds
  (`PoolInv`, `MinedInv`). For the third, any two blocks that can be seen are ordered: from
  the older to the newer sessions are only added and closed, and unless one is added nothing goes
  on hold that was not in a session (`Follows`, `BlocksInv`). So, while answers do not go
  back and no session is opened, what was found and what lies in the last answer's block where the
  scan has yet to look never exceed `owned` (`ScanInv`): money moves from sessions to hold to
  wallet and the scan reads in the other direction. For the last, while nothing moves, no answer is
  empty and nothing was skipped they are equal to it (`ExactInv`).

**Only model-checked**

- `DeadBindingsCleared`, `MuReturned` and `LeftRequestEnds`: liveness under fairness is outside
  what the prover does. Of the last two the descent is proved (`WaitsEnd`,
  `LeftRequestDescends`); that a step which lowers the count is always enabled and is taken
  stays with TLC.
- `ClientUsesSavedRpc` fails, and its run shows it.

## 5. Not modelled

- **Models endpoint and cache** (`models.go`): a list with a lifetime of five minutes under
  one lock. Two refreshes can finish out of order; nothing else keeps state from it, and no
  promise is broken by an older list.
- **Log rotation** (`logger.go`): one lock, one file, no reader in the app.
- **App lock**: a flag that decides which widget is shown; no operation of the library
  depends on it.
- **`SumActiveSessionStakes`** (`mor_scanner.go` 288): a sum over ids it is given, whose
  result a run counter in the home screen keeps in order. The ABI codec, gas and
  base fee of the scanner are data.
- **A prompt in flight while the database is reopened**: it takes `LocalChat` and
  `AppLifecycle` in one state space, which TLC cannot search, and the code makes no
  promise for it.
- **Rows of a release without encryption** (llms.txt:214): they stay in plain text and are
  returned as they are. `EncryptedAtRest` speaks of rows this release writes.
- **Titles, pins, tuning, system prompts, search** of the store: single columns, written one
  at a time.
- **Amounts and error texts** (pure, unit-tested), presentation, preferences that are
  single values, the MCP server (stateless), the legacy `core` and `orchestrator`
  packages, which the mobile library does not use, platform shells and build files.

`PROJECT.json` lists every component with its status and every hazard with the property
that covers it or the reason why none does.
