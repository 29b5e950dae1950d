# A verification development for the Mobile Wallet Protocol

TLA+ modules for the packages under `src/packages/` and the programs under
`src/apps/`, configurations that check them with TLC on small instances, and
theorems about them checked with TLAPS for every value of the constants. Paths
below that begin with a package (`core/`, `dapp-client/`, `wallet-client/`) are
relative to `src/packages/`, those that begin with `rn-demo/`, `web-demo/` or
`load-tests/` to `src/apps/`.

## 1. The system

Two clients, a dApp and a wallet, talk through a relay (Centrifugo) that sees
only encrypted payloads. The dApp shows a session request (a QR code); a wallet
that scanned it answers with a *handshake offer* on a handshake channel; both
then move to a session channel. In *untrusted* mode the wallet shows a one-time
code that the user types into the dApp, and the dApp acknowledges the offer; in
*trusted* mode neither happens.

```
 application (web-demo, load-tests)       application (rn-demo, load-tests)
     |  connect, sendRequest, disconnect, resume               |
 DappClient ---- handlers               handlers ---- WalletClient
     |  \___ BaseClient (session, state, message listener) ___/  |
     |            |                                |             |
 SessionStore   WebSocketTransport  <-- relay --> WebSocketTransport   SessionStore
     |            |  (SharedCentrifuge)                          |
     +--- key-value store of the process           key-value store of the process
```

| Component | State | Operations | Interacts through | What is hard |
|---|---|---|---|---|
| **WebSocketTransport, sending** `core/src/transport/websocket/index.ts`, `store.ts` | queue, `isProcessingQueue`, connection state; persisted nonce per channel | `connect`, `disconnect`, `reconnect`, `subscribe`, `publish`, `clear`, `_processQueue`, `_process` | promises to its client, events of the client library, the key-value store | one loop awaits while everybody else changes the queue; retries of publications the relay may have taken; restarts between nonce and publication |
| **WebSocketTransport, receiving** same files | persisted latest nonce per channel and sender | `_handleIncomingMessage`, `_fetchHistory` | publications and history of the relay; "message" events | handlers overlap, history races with live messages, crash between persisting and emitting |
| **SharedCentrifuge** `shared-centrifuge.ts` | reference counts of contexts and channels, a shared reconnect promise | `connect`, `disconnect`, `newSubscription`, `removeSubscription`, `reconnect` | several transports share one connection | counts going wrong, answers by `setImmediate`, events meant for another instance |
| **SessionStore** `core/src/session-store/index.ts` | a record per session, a master list of ids, a mutex | `create` (garbage collection), `set`, `get`, `list`, `delete` | an asynchronous key-value store | two keys, no transaction; overlapping calls; rejections; restarts |
| **Connection handlers** `dapp-client/src/handlers/`, `wallet-client/src/handlers/` | where in the handshake; the code, its attempts and deadline | `execute` of four handlers, `submit`, `cancel` | messages through the relay, timers, the user | several wallets on one request; every await may be overtaken by `disconnect`, a timer, a failure |
| **Clients** `core/src/base-client.ts`, `*/src/client.ts` | `state`, `session` | `connect`, `disconnect`, `resume`, `reconnect`, `sendMessage`, `handleMessage` | handlers, transport, store | two operations of one client overlap and write the same two fields; handlers of an attempt that was given up go on |
| **Wallet demo** `rn-demo/lib/SessionManager.ts`, `context/WalletContext.tsx`, screens | a client for each session, the list on the screen | resume all, scan, delete, clear all, unmount | clients, store, rendering | clients, records and list are changed by different calls, steps apart |
| **Web demo** `web-demo/src/components/` | what four pages show; countdowns | mount, connect, scan, type a code, send, answer, disconnect | events of clients, timers, closures of old renderings | listeners see the page as it was; a `disconnect()` tells the page only when it is done |
| **Load tests, scenarios** `load-tests/src/scenarios/`, `client/`, `cli/run.ts` | tasks, timers and counters of a test | five scenarios | connections, pairs of clients | late answers, promises nobody attends to, sampling |
| **Load tests, machines** `load-tests/src/cli/infra.ts` | none | start, run, stop machines | a cloud API, SSH | |
| **retry, timingSafeEqual** `core/src/utils/` | none | | | |
| **Keys and encryption** `core/src/domain/key-*.ts` | none (interface) | | | |
| **Relay** `src/backend/config.json` | history of each channel, 5 or 20 messages, 300 s | accept, deliver, recover, history | | limits, time to live |
| Release scripts | | | | not part of the system |

### What makes each component correct

- *Sending*: the relay gets the messages of a channel in the order of
  `publish()`, and a nonce identifies one message for ever, through retries and
  restarts, because the receiver drops nonces it has seen. Every promise
  settles, and truthfully. A message is never left behind without a loop.
- *Receiving*: a message is emitted at most once, in order, and none is skipped
  that the relay still had.
- *SharedCentrifuge*: the connection lives exactly as long as someone uses it; no
  instance cuts off another; calls are answered.
- *SessionStore*: a session that was saved stays readable and listed until
  someone removes it; a list misses none of them; unreadable records do not
  survive; the mutex is always given back.
- *Handshake*: of the wallets that scanned a request only one pairs, in untrusted
  mode the one whose code the user typed; attempts are limited; an attempt ends;
  when nothing fails it ends in a connection on both sides; a client that was
  disconnected keeps nothing.
- *Lifecycle*: CONNECTED means that there is a session and that the transport
  listens to its channel; CONNECTING ends; what was disconnected stays so; an
  attempt does not disturb another.
- *Applications*: the wallet's map has a usable client for exactly the sessions
  with a record; a screen shows what is so; a test ends, reports what happened,
  and leaves no client open.

`PROJECT.json` lists the components, the hazards of the code at the line where
they bite, the definitions with the lines they translate, the runs, the mutants
and the theorems.

## 2. Plan

Done, in the order of importance:

1. `Outbox`, `Inbox` – the two sides of the transport.
2. `SessionStore` – the store.
3. `Handshake` – both clients and all four handlers from `connect()` to
   `disconnect()`, implementing the abstract `Pairing`.
4. `Lifecycle` – a client after its handshake; `Attempts` – a client whose
   `connect()` is called again.
5. `SharedConnection` – several transports on one connection.
6. `WalletApp`, the web demo and the load tests, composed in `MCApps`.

Left, in this order:

7. `Delivery` – `Outbox`, a relay with a bounded history and `Inbox` composed, as
   an implementation of an abstract channel (at most once, in order). The two
   modules already meet: what `Inbox` assumes of its feed is what the theorem
   `FeedsReceivers` says of `Outbox`.
8. `retry` and `timingSafeEqual` as functions, checked on bounded inputs.

## 3. The modules

| Module | Is | Extended or instantiated by |
|---|---|---|
| `Outbox` | sending side of a `WebSocketTransport` | `MCOutbox` (TLC), `OutboxProofs` |
| `Inbox` | receiving side, one channel | `MCInbox`, `InboxProofs` |
| `SharedConnection` | transports on one `SharedCentrifuge` connection | `MCSharedConnection`, `SharedConnectionProofs` |
| `SessionStore` | the session store on its key-value store | `MCSessionStore`, `SessionStoreProofs` |
| `Pairing` | abstract: what an attempt promises | instantiated by `Handshake` |
| `Handshake` | one connection attempt: a dApp and its wallets | `MCHandshake`, `HandshakeProofs` |
| `Lifecycle` | one client after its handshake | `MCLifecycle`, `LifecycleProofs` |
| `Attempts` | one dApp's client, several attempts | `MCAttempts`, `AttemptsProofs` |
| `WalletApp` | the wallet of rn-demo | instantiated by `MCApps` |
| `PageClient` | a dApp's client as a page sees it | `DemoPage`, `MobilePage`, `BasicPage` |
| `DemoPage`, `MobilePage`, `BasicPage` | the pages of web-demo | instantiated by `MCApps` |
| `LoadClients`, `LoadPairs`, `AsyncDelivery` | the scenarios of load-tests | instantiated by `MCApps` |
| `MCApps` | the programs, one at a time | `AppsProofs` |

In all of them **a step is the code between two awaits**, and a step is never
split or joined with another: JavaScript runs it without interruption, and
anything can happen before the next. Operators whose comment begins with
*Mutation* are not part of a specification; see section 6. *History* variables
record what has happened, for properties to name the circumstances under which
they hold; no guard reads them.

### Outbox

`queue` holds ids into `items`, the history of all `publish()` calls and what
became of their promises (`outcome`). `proc` is `_processQueue` with the item it
peeked, the nonce it took and the attempt it is at; `proc.pc = "idle"` is
`isProcessingQueue = false`. `nonceStore` is the key-value store; `log` is what the
relay accepted, in order.

| Action | Code |
|---|---|
| `Publish`, `ProcessQueue` | `publish()` pushes and calls `_processQueue()`, which returns at once unless idle, connected and not empty |
| `Connect`, `Reconnect`, `Connected`, `ConnectionLost`, `Subscribed` | the transport's calls and the listeners of the client library; "connected" and "subscribed" drain |
| `Disconnect` | every queued promise resolves false, the array is emptied, the loop is not told |
| `GetNonce`, `SetNonce` | the two awaits of `getNextNonce()` |
| `AttemptOk`, `AttemptFails` | one attempt of `retry()`; a failed one may have reached the relay |
| `StoreFails` | the catch of the loop: reject this item, go on |
| `Finish` | `shift()` of whatever is at the head *now*, settle the item that was peeked, next |
| `Clear` | `clear(channel)` deletes the counter; the client never uses that channel again |
| `Crash` | the process restarts on the same key-value store |

Assumed: two transports of one process do not publish on one channel (each client
has its own session channel); the key-value store applies and answers calls in the
order they were made.

### Inbox

`feed` is what the relay accepted from the other clients on one channel, `kept` how
many of these it has forgotten (a history of 5 or 20 messages, 300 s), `link` the
subscription, `pos` how far live delivery is. `latest` is the persisted map of the
highest nonce of each sender. A `lane` is one live `_handleIncomingMessage()`, which
nobody awaits, or one `_fetchHistory()`, which handles its messages one by one.

| Action | Code |
|---|---|
| `Publish`, `Forget` | the relay accepts a message, or a retry of one; forgets the oldest |
| `Subscribe`, `Lose`, `Resubscribe` | `subscribe()`; the connection is lost and recovered; "subscribed" fetches the history |
| `Deliver` | a live publication begins a lane |
| `Fetched`, `FetchFails` | `history()` answers, or its error is swallowed |
| `Read`, `Write`, `Emit` | `getLatestNonces`, the comparison, `setLatestNonces`, the "message" event |
| `StoreFails` | a rejection of the store: the message is given up |
| `Leave`, `Clear`, `Crash` | `disconnect()`, `clear()`, a restart |

Assumed: of one sender nonces do not go down, and an equal one is a retry of the same
message (`FeedsInOrder` of `Outbox`, a theorem). Messages that do not parse change no state.

### SharedConnection

A `hub` is a context of the class with its Centrifuge client: connection, counts, the
real subscriptions, the reconnect promise. `ctx` is the one the map has for the url; an
`inst` is a transport with its `SharedCentrifuge`: what its owner has called, its view of
the connection, which calls wait, which channels it holds, and on which hub's
subscriptions it has its listeners (`hears`).

| Action | Code |
|---|---|
| `Create`, `Connect`, `ConnectAgain` | the constructors; `connect()` in each state of the shared client |
| `Subscribe`, `Clear` | `newSubscription()`/`removeSubscription()` and the count of the channel |
| `DisconnectIdle`, `Disconnect` (`Leave`) | `disconnect()`; the last one out ends the connection |
| `Reconnect`, `Redial` | the shared reconnect promise and its two halves |
| `Connected`, `DialFails`, `Lose`, `End`, `Subscribed` | events of the client library, passed on to all who listen |
| `Soon` | the "connected" of `setImmediate` |

Histories: `torn`, the last user left while the connection was down or the reconnect
promise pending; `ended`, the relay ended the connection for good. A torn hub stays in
the map, may get new users, and goes out of the map under them when the listener that
the former last user left behind hears "disconnected" (`shared-centrifuge.ts:184`).
These transports are *stranded*: from then on `contexts.get(url)` gives them the next hub,
and what they clear or leave is counted down there, where they are not counted.
`Stranded` is that circumstance; `CountsExact` and `NobodyCutOff` hold until it arises.
Assumed: nobody connects a transport again after `disconnect()`. A client that makes a new
attempt does, on a shared connection too; its instance has then left, and what it calls is
left out here (`Attempts` has such a client on a connection of its own).

### SessionStore

`rec` and `master` are the two kinds of keys. `task[p]` is the call a caller is in,
and at which step; garbage collection in `create()` is a `get()` of every listed id
at the same time, represented by a task for each id. `lock` is the mutex's queue.
`saved` is history: the ids some `set()` has finished for and nothing has begun to
remove since; `must`, `found` and `clean` carry the same idea for a call.

Each of `Put`, `ReadIds`, `Look`, `Erase`, `ReadList`, `WriteList` is one call of the
key-value store with the code up to the next await. `Reject` is its failure, a
write with or without effect, and the catch blocks that follow it: the second
`delete()` after a failed one in `get()`, the rejection of `create()`. `Expire` is
the clock; `Crash` a restart at any step. Assumed: one `SessionStore`, hence one
mutex, for a key-value store.

### Handshake and Pairing

A client is the await its handler stands at (`pc`), `state`, `session` (none,
pending, final), its transport and the number of `disconnect()` calls that have yet
to reach `sessionstore.delete()`. Trusted and untrusted handlers share steps and
differ where the code does (`Trusted`); the mode, and whether the attempt is *calm*
(nothing fails, expires, disconnects or dies), are in `scene`, chosen in `Init`.

| Actions | Code |
|---|---|
| `DappConnect` … `DappFinish` | `DappClient.connect()` and the `execute()` of its two handlers |
| `Submit`, `Cancel` | the callbacks given to the user interface, callable after the prompt is over |
| `WalletConnect` … `WalletFinish`, `ProcessInitialMessage` | the same of the wallet |
| `OfferTimeout`, `AckTimeout`, `RequestExpires`, `OtpExpires` | timers and the deadlines they stand for |
| `SendAck`/`SendOffer`, `…Accepted`, `…Published`, `…Rejected` | `sendMessage()`: awaits before `publish()`, the relay's acceptance, its answer or failure |
| `Receive`, `Drop`, `DappHandleMessage`, `WalletHandleMessage` | the message listener, decryption, `handleMessage()` |
| `DappDisconnect`/`DappForget`, `Wallet…` | `disconnect()` before and after its await |
| `DappCrash`, `WalletCrash` | the process dies; a write to the store may or may not have taken effect |

Two habits of the code are visible: a `transport.connect()` or `subscribe()` never
settles once the transport was cut, and a handler goes on after a `disconnect()`
until it reads `this.session`, which it does not do everywhere.

Assumed: the network delivers an accepted message at most once, in any order, or
not at all before someone subscribes (`Outbox` and `Inbox` show the two halves of
it). A code belongs to one wallet: equal codes of two wallets are left out. The
wallet's clock is not kept; where it is read, both outcomes are possible. Each
client makes one attempt. Not modelled here: the session's 30 days, messages of a
connected wallet, a `sessionstore.delete()` that fails inside `disconnect()`.

`Pairing` is the view from outside: the dApp chooses at most one wallet; each side is
open, then perhaps paired, and once over stays so; when wallets wait to be
acknowledged only the chosen one pairs. `Abstract` in `Handshake` maps a client with a
cut transport, or whose attempt ended without CONNECTED, to *over*.

### Lifecycle

`state` and `session` are the two fields that all calls write. `stored` and `expired`
are the store and the clock; `link`, `subs` and `live` the transport: its connection,
the sessions whose channels it is subscribed to, and those the relay has confirmed.
`call` is what is in progress: each call of the application, and each incoming
message, is an async function of its own, at the await named by `pc`.

| Action | Code |
|---|---|
| `Resume`, `NotFound`, `Found`, `Join`, `Resumed` | `resume()` from await to await |
| `Reconnect`, `Reconnected`, `ReconnectFails` | `reconnect()` |
| `Disconnect` (`End`), `Cleared`, `Deleted`, `EndFails` | `disconnect()`: session, state and transport at once, the stores later, either of which may reject |
| `Send`, `Receive`, `Handle` | `sendMessage()` and the message listener with `checkSessionExpiry()`, and the dApp's `handleMessage()` by its state |
| `Connected`, `DialFails`, `Lose`, `Subscribed`, `Expire` | the client library, the clock |

Histories: `ended`, sessions whose "disconnected" was emitted; `crossed`, a
`disconnect()` was in progress together with a `resume()` or `reconnect()`; `redialed`,
`failed`, `dropped`. A connected client begins where a handshake has ended, with a
`resume()`: what precedes it is `Handshake`.

### Attempts

One `DappClient` whose application calls `connect()` and `disconnect()` in any order,
up to a bound of attempts. Every attempt has its handler, at `pc[a]`; all share
`state`, `session` (whose id and whose answer made it final), the transport and the
internal event that brings an offer. The wallets only answer (`Answer`); an answer
arrives (`Deliver`) and is decrypted with the session's key of that moment (`Handle`).
`stuck` is a handler that awaits a subscription the transport has given up. Histories:
`cut`, `disconnect()` was called before `connect()` was over; `overlap`, an attempt
began before an earlier one was over; `stray`, a handler ended another's session.

### WalletApp

The `SessionManager` of rn-demo, the context that resumes it and the screens. A
client is named by its session and by the scan that made it; `at` says where its
calls are, `clients` is the manager's map, `stored` the records, `expired` the sessions
whose time is over, `lists` the `list()` calls that have not been shown yet, each with
its answer once there is one, `shown` the screen.

| Action | Code |
|---|---|
| `Resumed`, `ResumeFails`, `Forgotten`, `ForgetFails`, `AllResumed` | `resumeAllClients()` at the start; a session that cannot be resumed is deleted |
| `Scan`, `Offered`, `Saved`, `Paired`, `PairingFails` | `createClientForSession()` and what becomes of the `connect()` |
| `Expire`, `Read`, `ReadFails` | the time of a session is over; `getAllSessions()`, whose `get()` deletes the records of expired sessions, whoever uses them |
| `Expires`, `Dropped`, `DropFails`, `Ended`, `EndFails` | the `disconnect()` a client makes by itself, and that of a deletion |
| `HandleDelete`, `HandleClearAll`, `Unmount`, `Show` | the buttons, the end of the provider, a finished `list()` |

Histories: `twice`, a request was scanned over a client of its own session; `hurt`, a
call for the session was rejected; `crossed`, a list was shown before one begun
earlier, or not read. Inside a client everything is as `Lifecycle` and `Handshake` have
it. A `Read` is one step: a record that comes or goes while `list()` walks is followed by
another read.

The exceptions of the two properties are what the code does. `Managed` promises nothing of
a session in `twice` or `hurt`. Of an expired one it promises that a record that is
still there has a usable client, and not the converse: any re-read of the list deletes
that record, the session leaves the screen, and its client stays in the map and open
until it sends, so that no button of the list can end it any more, only "clear all".
`ShownIsStored` compares the sessions that have not expired, while no list was `crossed`.

### The programs in MCApps

`MCApps` runs one program at a time, as `app` says, by instantiating the seven modules
on shared variables; those of programs that do not run are `Idle`. `Apps` is the set of
programs that may run: the run `MCWalletApp` is of `WalletApp`, the run `MCApps` of the
others.

- `LoadClients`: `test` is one of connection-storm and steady-state; `link` the
  connections, which dial by themselves until disconnected; `held` is what the hold phase
  counts from samples, `fact` what happened. `Errs`, `Connected`, `TimesOut` are what
  settles `connect()` of `centrifuge-client.ts`; `Sample` is the timer of 100 ms.
- `LoadPairs`: realistic-session and steady-messaging. `stage` is each pair's task,
  `ear[p][side][k]` the one-time listener and timer of exchange `k` on either side,
  `toWallet` and `toDapp` what is under way, `verdict` what an exchange returned. `loose`
  has the exchanges whose request could not be sent: their two promises were made before
  and nobody attends to them, so that their timers end the process (`test.phase = "dead"`).
- `AsyncDelivery`: a session is set up (`Start`, `Requested`, `Paired`, `Parted`,
  `Asked`), a pause, and a new client of the wallet resumes it (`Recover`, `Hears`, …)
  and finds the request in the relay's history (`kept`) or does not.
- `PageClient`: a dApp's client as a page sees it. `disconnect()` changes the state at
  once and emits "disconnected" when the stores are done: the *tail*.
- `DemoPage`: the trusted and the untrusted demo, dApp and wallet beside each other. The
  client's listeners see the page of the first rendering, `Disconnect` that of its click
  (`clears`); `intervals` are the countdowns that run, `timer` the one the page knows.
- `MobilePage`: the same for a wallet elsewhere; its countdown and its client are in
  references, so that everybody sees the present ones.
- `BasicPage`: the first page, without a listener for "disconnected".

Assumed of the pages: buttons that a rendering disables are not clicked; on the first
page nothing is clicked while the clients resume, and a handler not again before it is
done. Of the tests: a scenario is run with its own clients only.

## 4. The runs

Twelve runs. Two are refuted: they show what a comment or document of the repository
says and the code does not do, and have an entry under `findings` with the quotation.

| Run | Instance | Checks |
|---|---|---|
| `MCOutbox` | 2 channels, 3 attempts, 2 publications, 1 restart | `RelayOrder`, `NoStalledQueue`, `TrueMeansAccepted`, `PendingIsQueued`, `PublishSettles` |
| `MCInbox` | 1 sender, 2 lanes, 3 publications, 3 nonces, 1 restart | `OnceInOrder`, `NothingLost`, `ArrivesInTheEnd` |
| `MCInboxMissed` | 2 senders | `NoDataMissed`, **refuted**: a live message overtakes the history |
| `MCSharedConnection` | 2 transports, 1 channel | `TypeOK`, `CountsExact`, `NobodyCutOff`, `CallsSettle` |
| `MCSessionStore` | 2 callers, 2 sessions, rejections, restarts, expiry, any initial records | `NoLostEntry`, `ListIsComplete`, `UsedAfterGc`, `ListMatchesRecords`, `CallsReturn` |
| `MCHandshake` | both modes, calm or not, 2 wallets, 2 codes | `PairingInv`, `DisconnectForgets`, `LimitHolds`, `Pairs` |
| `MCHandshakeLive` | both modes, calm or not, 1 wallet, 2 codes | `ConnectSettles`, `PairingCompletes` |
| `MCHandshakeEarlyAck` | 1 wallet | `AckIsHeard`, **refuted**: the acknowledgement comes before its listener |
| `MCLifecycle` | 2 sessions, 2 calls at once | `ConnectedIsUsable`, `ConnectingIsOwned`, `EndedForGood`, `HandledOrRedialed`, `ConnectingEnds` |
| `MCAttempts` | both modes, 2 attempts | `FinalRecords`, `LastAttemptOnly` |
| `MCWalletApp` | 2 requests, 2 scans, 2 lists on their way, 1 session expired | `Managed`, `ShownIsStored` |
| `MCApps` | 3 connections; 1 pair with 2 exchanges; 2 sessions; 2 attempts; 2 requests | `TypeOK`, `CountsNoMore`, `ExchangesMatch`, `AnsweredOnce`, `ClosedAtTheEnd`, `PagesShowTheirClients`, `OneCountdown`, `TestsEnd` |

The type invariants of the modules with proofs are theorems (`TypeCorrect`); all were checked
with TLC, and the runs above keep two of them.

Further configurations, for `tlc -config X.cfg M` by hand. Each of these is
refuted within seconds, and its counterexample is a behaviour of the code
described in section 7 (where a file lists several, TLC stops at the first; remove
it to see the next, or use `-continue`):

| Configuration, module | Refutes |
|---|---|
| `MCOutboxReuse`, `MCOutbox` | `NothingLeftPending` |
| `MCSessionStoreOrphan`, `MCSessionStore` | `ActiveIsListed` |
| `MCHandshakeWedged`, `MCHandshakeInitial`, both `MCHandshake` | `ConnectedHasSession`; `InitialIsFirst` |
| `MCSharedConnectionClaims`, `MCSharedConnection` | `HistoryFetched`, `AliveUntilAllLeave`, `DeafAfterLeaving` |
| `MCAttemptsStray`, `MCAttempts` | `SelfContained` |
| `LoadClientsClaims`, `LoadClients` | `PeakIsPeak` |
| `LoadPairsClaims`, `LoadPairs` | `LoopsAwaited`, `Survives` |
| `AsyncDeliveryClaims`, `AsyncDelivery` | `Survives` |
| `DemoPageClaims`, `DemoPage` | `TimerCleared`, `ReadyMeansReady`, `AnswersOwnSession` |
| `MobilePageClaims`, `MobilePage` | `ResultIsOfLast` |
| `BasicPageClaims`, `BasicPage` | `ConnectedIsReal` |

### Bounds

- *Two publications* put one item in the loop and one behind it, or one pushed after a
  `disconnect()` or from another channel; *three attempts* have a first, a middle and a
  last; *one restart* separates two lives of the counter. The theorems of section 5 have
  none of these bounds.
- *Three publications* of one sender in `MCInbox` are one that is forgotten, one in the
  history and one that is live, or a message and two retries of it; senders are
  independent in all that is promised there (`InboxProofs` has it for any number). The
  relay's history (5 and 20 messages, `src/backend/config.json:22,36`) is shorter than
  `HISTORY_FETCH_LIMIT`, so a fetch has all of it. *Two lanes* are enough for an overlap,
  after which the run's properties promise nothing: the constraint `NotOverlapped` stops
  there.
- *Two transports* are the one that acts and the one that must not suffer; *one channel*
  is shared or not. Only a third transport can arrive at a hub that two others have used
  and left (`torn`): `MCSharedConnectionThree.cfg` checks the three safety properties
  with three (743 000 states with symmetry), and all four hold with two transports and
  two channels (255 000 states). It takes a fourth for a stranded one to disturb the next
  hub: out of reach of a full run, but `SharedConnectionProofs` covers any number, and
  it was an attempt at that proof that showed the case.
- *Two callers* make every race on the master list (a reader and a writer of one
  value), and with garbage collection and rejections there are as many concurrent
  tasks as callers and ids.
- *Two wallets* are the chosen one and another; *two codes* are one that fails and the
  last. `wrong` stops at the limit, beyond which the code does not tell numbers apart.
  `MCHandshake` leaves out requests of the connected dApp (`NoRequests`): none of its
  properties is about them, and `MCHandshakeLive` and `MCHandshakeInitial` have them.
- *Two calls* in `MCLifecycle` make every pair of overlapping operations; *two sessions*
  are the one that is left and the one that is resumed. `NotCrossed` stops where
  nothing more is promised, as does the constraint `Bounds` of the run `MCWalletApp`.
- *One session expired* in `MCWalletApp` leaves another that must keep its record through
  every read that deletes the first's. *Two lists* are one to be shown and a later one; with
  nothing promised of the screen any more (`Screened`), one is enough.
- *Two attempts* in `MCAttempts` are one that was given up and one that is disturbed.
- `MCApps`: three connections have a majority that goes and comes and one that stays; two
  exchanges are one that gives up and one that hears its late messages. With two pairs
  and one exchange, and with one pair and three exchanges, `LoadPairs` was checked too.
- Symmetry is used on requests and wallets, in runs with invariants and box properties
  only.
- Deadlock is checked in `MCOutbox` and `MCSessionStore`. Elsewhere everybody may be done:
  attempts are bounded, tests end, a relay accepts a bounded number of messages.

### Fairness

- `Outbox`: `WF(Drain)`. The loop awaits promises of the key-value store and of a
  publication bounded by `retry()`; both settle. Nobody promises a connection, so
  `PublishSettles` starts from being connected, and still holds if the connection is
  lost: attempts then fail and the promise rejects.
- `Inbox`: weak fairness of each lane and of delivery. `ArrivesInTheEnd` speaks of a
  subscription that stays up; nothing says that it does.
- `SharedConnection`: timers and continuations run (`WF`), and a client that dials gets
  through if it dials again and again (`SF(Connected)`): Centrifuge backs off and retries
  for ever. `CallsSettle` excuses a relay that ended the connection for good.
- `SessionStore`: weak fairness of each task's steps; promises of the key-value store
  settle, and the mutex serves in order. Callers and the clock owe nothing.
- `Handshake`: each process continues, the relay accepts what was published to it and
  delivers to subscribers, time passes. The user owes nothing, so `ConnectSettles`
  excuses a dApp at its prompt (which, in the code, has no timer). It also excuses a
  client whose transport was cut while it awaited `connect()` or `subscribe()`:
  those promises never settle.
- `Lifecycle`: calls go on (`WF`); connecting and confirming a subscription are strongly
  fair, because every loss of the connection begins them anew.
- Load tests: loops go on, timers run out, and a call is over in the end where a timer
  races it or where what was heard since shows that it has been carried out
  (`AsyncDelivery.Timed`, `LoadPairs.Loop`). The relay owes nothing, and an await without
  a timer need not end: `Promise.all` of both `connect()` and `sendRequest()` in the setup
  of async-delivery (`async-delivery-helpers.ts:68`, `:79`), and the wallet's
  `sendResponse()` in an exchange whose own timer was cleared (`session-pair.ts:277`).
  A transport that cannot reach the relay settles neither `connect()` nor a queued
  message. So `TestsEnd` says that a test ends, with its result or with its process, or
  is left for good in one of these (`Waits`); the scenarios of bare
  connections have no such await and end always.

## 5. Theorems

| Module | Theorem | Says |
|---|---|---|
| `OutboxProofs` | `TypeCorrect`, `NeverStalled`, `RelayOrdered`, `FeedsReceivers`, `TrueIsAccepted`, `NothingForgotten` | `Spec => []TypeOK`, `[]NoStalledQueue`, `[]RelayOrder`, `FeedsInOrder`, `[]TrueMeansAccepted`, `[]PendingIsQueued` |
| `InboxProofs` | `TypeCorrect`, `DeliversOnce`, `LosesNothing` | `[]TypeOK`, `[]OnceInOrder`, `[]NothingLost` |
| `SharedConnectionProofs` | `TypeCorrect`, `CountsAreExact`, `OthersAreKept` | `[]TypeOK`, `[]CountsExact`, `[]NobodyCutOff` |
| `SessionStoreProofs` | `TypeCorrect`, `MutexOrders`, `SavedIsKept`, `ListMissesNothing`, `NothingUnreadableIsUsed`, `RestingStoreAgrees` | `[]TypeOK`, `[]StoreInv`, `[]NoLostEntry`, `[]ListIsComplete`, `[]UsedAfterGc`, `[]ListMatchesRecords` |
| `HandshakeProofs` | `TypeCorrect`, `VerifiedPairs`, `DisconnectedIsForgotten`, `AttemptsAreLimited`, `AttemptImplementsPairing` | `[]TypeOK`, `[]PairingInv`, `[]DisconnectForgets`, `LimitHolds`, and the refinement `Pairs` |
| `LifecycleProofs` | `TypeCorrect`, `ConnectedMeansUsable`, `ConnectingMeansOwned`, `EndsForGood`, `MessagesAreHandled` | `[]TypeOK`, `[]ConnectedIsUsable`, `[]ConnectingIsOwned`, `[]EndedForGood`, `[]HandledOrRedialed` |
| `AttemptsProofs` | `TypeCorrect`, `RecordsFinal`, `LastOnly` | `[]TypeOK`, `[]FinalRecords`, `[]LastAttemptOnly` |
| `AppsProofs` | `AppsTypeCorrect`, `ManagedAlways`, `ScreenIsRight`, `PagesAreRight`, `CountdownIsOne`, `CountedHasHappened`, `ExchangesGetTheirOwn`, `RequestsAreHeardOnce`, `TestsLeaveNothingOpen` | `[]TypeOK`, `[]Managed`, `[]ShownIsStored`, `[]PagesShowTheirClients`, `[]OneCountdown`, `[]CountsNoMore`, `[]ExchangesMatch`, `[]AnsweredOnce`, `[]ClosedAtTheEnd` |

They hold for any channels, attempts, publications, lanes, restarts, transports, sessions,
callers, calls, requests, wallets and codes, and for any connections, pairs, exchanges and
scans of the programs. The only assumptions are on constants
(`AttemptsAssumption`, `BoundsAssumption`, `IdsAssumption`, `WalletAssumption`,
`AttemptAssumption`, `NoSessionAssumption`, …, named in the modules; `TestsAssumption`,
`PagesAssumption` and `ScansAssumption` say that the bounds of the programs are numbers, and
that a pair makes at least one exchange and a request is scanned at least once). TLC evaluates
them in the runs of their module.

**Order at the relay.** `RelayOrder` is not inductive: whether the next publication
keeps it depends on the queue and on the counter. `OrderInv` adds that the queue is in
order and the loop's item before it (`QueueInOrder`, `LoopIsFirst`), that what is on the
relay is older than all of that (`LogBehindQueue`, `LogBehindLoop`), and that the
persisted counter is at or above every nonce on the relay, with the loop's nonce either
that counter or one above it (`CounterAhead`). Persisting before publishing is what keeps
the last part across a restart. The same invariant gives `FeedsInOrder`, the action property
that `Inbox` rests on: each message added on a live channel has a higher nonce than all
before it, or repeats one as it is.

**Promises in the queue.** `PendingIsQueued` needs to know that what the loop shifts is what
it works on (`LoopHasHead`): true until `disconnect()`, and afterwards the queue is
empty and stays so if nobody publishes. That is its condition, `~ reused`;
`MCOutboxReuse` shows that it is needed.

**Once, in order, without loss.** While one lane is busy at a time (`OneBusy`), what has
come out is noted in the store (`Noted`), and what a lane read is still there when it
writes, with a message newer than all that came out (`InHand`): `DeliversOnce`. For
`LosesNothing`, feed and output rise (`FeedInv`), the latest nonce of every sender has come
out or is about to (`LatestOut`), and a lane that is at publication `k` has left nothing
behind before it (`Progress`); so a publication whose nonce is noted is out (`Missed`).

**The shared connection.** Whether a count is exact depends on every transport that acts on it, and
those who act do so on the hub that the map has, not on the one they were made on. So
`Base`, which always holds, says which hubs exist and who belongs to them (`Known`, `Peopled`)
and what a hub's fields allow each other to be (`HubSound`); `Good` adds exact counts, that nobody
dials for an unused hub (`Unused`), and that each transport stands on the hub of the map with its
channels alive and its listeners on them. `Good` is inductive only while every hub that left the
map had no users, hence `Inv == Base /\ (Stranded \/ Good)`. Each step changes one hub and a few
instances; lemmas on cardinality of "one more", "one less" and "all leave" turn a change of who
holds a channel into the change of its count.

**The store.** `NoLostEntry` and `ListIsComplete` follow from `StoreInv`: only the mutex's
holder is about to write and its copy is still the list (`OnlyHolderWrites`); a `set()`
that no removal disturbed has its record while it waits (`CleanHasRecord`); sessions
under removal are not counted on (`RemovedIsNotSaved`); what a `list()` may not miss is
still saved (`MustIsSaved`). `UsedAfterGc` needs `Unreadable`: an unreadable record is listed, and
while the collection runs, its own `get()` has yet to look at it or to erase it. For
`ListMatchesRecords` the invariant is about the mutex's queue (`Turns`): each waiting call is
in it once; the last one waiting for an id is adding it exactly if its record is there; and
an id that nobody waits for is listed exactly if it has a record. It is the order of turns
that brings list and record together again, whatever the order of calls was.

**The handshake.** `PairingInv` contains the argument: an acknowledgement exists only for
the chosen wallet (`AckIsForChosen`), the choice is made once and the handler's position
says whether it has been (`ChosenOnce`), messages come from the relay (`MessagesFlow`),
and an untrusted wallet past its wait has been acknowledged (`PairedHasAck`). The proof
goes component by component (clients, prompt, network, rest), with one lemma for what a
failing client does, since most actions end in it.

**A disconnect forgets.** The invariant is `StoredIsHeld`: whenever a session is stored its
client has it in memory, or has a `disconnect()` under way that is to delete it, or is
dead. It is inductive because a handler stores a session only while it has it, and
because `disconnect()`, also as called by the catch of `connect()`, gives up the memory
and promises the deletion in one step.

**The limit of attempts.** Where a code still counts an attempt is left, and before the prompt none
was used (`AttemptsLeft`); so once all are used the handler is past the places from which
a code or an offer could take it on, although `submit()` can still be called.

**The refinement.** Each step changes the choice, or one side's end, or nothing
(`ChoiceChange`, `DappSide`, `WalletSide`); each of these is a step of `Pairing`. It needs one
more invariant, `AtEnd`: a client at the last await of its handler is still open.

**A client after its handshake.** Unless calls have crossed, `Sound` relates every call in
progress to the two fields it will write: a call that will end CONNECTING is alone
(`Owned`) and no `disconnect()` is under way (`Apart`); a session in memory is listened to
from the moment somebody promises it (`Listening`, `Placed`); what was ended is in none of
the places it could come back from (`Gone`). Three of the theorems are its parts; none of
them is inductive without the others. `HandledOrRedialed` needs `Heard` besides: while there is no
`reconnect()`, no rejection and no crossing, a message is received only while its session is
CONNECTED, and when it is decrypted that is so still, or the record is gone, or a
`disconnect()` of it is under way. A new message needs a confirmed channel (`live`), and that
is given up together with the state.

**Attempts.** `Sound` says, whatever overlaps, that what is stored was made final, that a handler
past its offer has one, and that one that acknowledges finds a final session or none:
`RecordsFinal`. `InTurn` holds for attempts made one after the other: all
earlier handlers are over, and the last one's position determines state, session,
subscriptions and record: `LastOnly`.

**The wallet's map.** `SessionInv` is about one session at a time: which clients of it may
be about at once, and for each place of a client whether there is a record and who is in
the map. It is kept as long as the session is *plain* (neither scanned over a client of
its own nor rejected), whatever happens to the others. A session that has expired may lose its
record at any place, and leave a client without session in the map: `SessionInv` says of the
record only that it is there or the session expired, and `OnlyRecordsGo` covers what reading
does. For the screen (`ScreenInv`): once all are resumed, the newest list, if it has been read, has
of the sessions that have not expired exactly those with a record, but for those whose record
was just written and whose list is still to be read; a read that has only begun owes nothing.

**The pages.** What a page shows lags behind its client by the tail of a `disconnect()`, so
`PagesShowTheirClients` rests on `ClientSound`: a client with a tail to do has no session,
unless an attempt was begun meanwhile (`crossed`); and a client that resumes has no attempt
whose request could be on display. For the page for MetaMask Mobile it is inductive together
with `OneCountdown`, since its listeners clear the countdown they find in the reference. On
the first page only the end of `handleDisconnect` takes a connection off the display, and
while a handler is under way the client is without a session (`BasicInv`); so it needs no
exception for crossed attempts.

**The load tests.** `CountsNoMore` is about samples, which miss what happens between two of
them. `Counted` says what the next sample may still add: there are never more connections
lost than the worst moment has had, and the reconnections counted, with those that the next
sample could count, are returns that happened. The change of one connection becomes a change
of the number lost in `LostIsLost` and `LinkChanges`.

A pair (`PairSound`) is looked at alone. `HeardOnce`: while every request of the pair could be sent,
only the exchange under way listens, and the ids under way and those heard are all different,
although late ones come when their exchange has given up. `InStep`: until an exchange fails,
those that have returned have heard both messages and nothing else is under way; the exchange
that waits is at one of five places between its request and its response, or cannot succeed
any more (`Awaits`). `ExchangesMatch` is not inductive without it: an exchange whose predecessor
gave up takes the predecessor's late response. For the end, `SessionCloses` says that
realistic-session closes its clients only when no pair is at work, `AsyncInv` that a task
that is over has left open only the wallets it could not disconnect, and `Resolved` that
after the ramp every connection has an outcome.

### Only model-checked

Liveness (`PublishSettles`, `ArrivesInTheEnd`, `CallsReturn`, `CallsSettle`,
`ConnectSettles`, `PairingCompletes`, `ConnectingEnds`, `TestsEnd`), since TLAPS does not
prove formulas with fairness or ENABLED. Every invariant of the passing runs, and every action
property, is a theorem.

## 6. Mutants

For every property of a passing run `PROJECT.json` names a change of the model, of the
kind a slip in the code would be, under which the property fails: a nonce taken anew
for each attempt, a loop left after one item, a history read from its newest message
only, a master list read without the mutex, a rejection that keeps the mutex, a first
transport out that ends the connection for all, attempts that are not counted, a
listener that stays after the first offer, a session cleared only at the end of
`disconnect()`, a listener that answers although its time is over. The mutated
operators stand before the definition they would replace.

## 7. What the code does differently from what it says

The two findings:

1. **An acknowledgement nobody hears** (wallet `untrusted-connection-handler.ts:98`): the
   listener is registered after the publication of the offer was answered.
2. **A message that is missed** (`index.ts:249`): a live publication handled while the
   history is on its way raises the latest nonce, and the older messages of that sender
   are dropped as duplicates.

Further behaviours seen in the models; those of the first list have a configuration
of section 4 that shows them.

- A message published on a transport after `disconnect()`, while the loop works on its
  former head, is shifted unsent and its promise never settles (`index.ts:309`).
- A session can be missing from `list()` for good after a restart between the two writes
  of `set()` (`session-store/index.ts:75`).
- CONNECTED without a session: `disconnect()` while the handshake channel is being
  cleared is followed by state CONNECTED, which a further `disconnect()` does not leave
  (all four handlers).
- The initial message is not always first (wallet `untrusted-connection-handler.ts:123`).
- The second transport of a shared channel fetches no history; a transport that has
  given up a channel still hears it; a transport made on a hub that its last user left
  while it was down may be cut off.
- A handler of an attempt that was given up ends the session of the next one
  (dApp `client.ts:149`).
- Load tests: the disconnects left at the end may exceed the reported peak; loops of pairs
  that are set up late are not awaited; promises nobody attends to
  (`session-pair.ts:305`, `async-delivery-helpers.ts:55`, `:125`) end the process.
- Web demo: countdowns are not cleared by the client's listeners and reset the page later
  (`UntrustedDemo.tsx:212`), which then says it is ready while its client is still
  connecting; a request on display may be answered in another session; the result on
  display may be an earlier request's; the first page stays connected when its client
  is not.

Others, told by reading the models or their proofs:

- A transport cut off in that way counts down the next context of its url when it clears a
  channel or disconnects, and may end it for those who use it (`shared-centrifuge.ts:165-194`).
- `disconnect()` answers false for a message that the relay may have; `get()` of an expired
  session may delete a record that `set()` renewed in between; an untrusted dApp accepts
  a right code after the code's deadline, when the wallet has given up.
- `resume()` during the tail of `disconnect()` goes on to CONNECTED; a dApp drops messages
  during and after a failed `reconnect()`; promises of `connect()` and `resume()` whose
  transport was cut never settle; a `disconnect()` that is rejected leaves a record that
  can be resumed.
- rn-demo: a re-read of the list deletes the record of an expired session whose client is
  open, and the client stays in the map, off the screen (`session-store/index.ts:95`,
  `SessionManager.ts:119`); a pairing that fails after the session was saved leaves an entry on the list;
  a delete that fails leaves a record no button can delete; a request scanned over a
  client of its own, or a `resume()` that fails, deletes the record; unmounting misses
  clients that are still connecting; nobody listens to "disconnected".
- Web demo: `submit()` does not throw for the last wrong code, so that
  `UntrustedDemo.tsx:337-341` is never reached; "Generate new QR code" is never shown; the
  wallet's Scan button stays disabled after a failed attempt until its Disconnect; a
  `disconnect()` that fails leaves the page connected for good.
- Load tests: a request that fails with "not connected" leaves its listeners, which take
  the messages of later exchanges; steady-messaging drops pairs without disconnecting
  them; async-delivery leaves wallets open whose setup or `resume()` failed, and its setup
  waits for ever for a relay it cannot reach (`async-delivery-helpers.ts:68`, `:79`).

## 8. Not modelled

Simplifications inside the modules, none of which a property depends on:

- `Outbox` has a connection of its own. On a shared one whose context is gone,
  `SharedCentrifuge.publish()` returns without sending (`shared-centrifuge.ts:289-294`), so
  that a publication after the hub was given up may resolve true unsent:
  `TrueMeansAccepted` says nothing of that.
- `Inbox.Clear` drops the stored nonces and the subscription in one step
  (`websocket/index.ts:216-218` has an await between).
- `SessionStore` has no unreadable master list, which the code reads as empty
  (`session-store/index.ts:172-175`); a `create()` that fails ends the calls on the old
  store (`Crash`), where the code lets them run on.
- `Handshake`: making the final session and validating the wallet's key do not throw
  in the dApp's handlers (`Submit`, `TakeOffer`).
- `Attempts.CutOff` marks a handler that had published its acknowledgement as failed and
  leaves out the `disconnect()` its catch makes later (dApp `client.ts:147-150`), after a cut
  or an overlap only.

Left out altogether:

- Encryption and keys: an interface here, a library call in the applications.
- Backoff times of `retry()`, formats of envelopes, error texts: no control depends on
  them beyond what is modelled.
- A shared connection that is used again after `disconnect()` (see `SharedConnection`).
- `reconnectAllClients()` of rn-demo: `reconnect()` of each client, without a change of the
  manager; the code on display, its activity log and navigation.
- Rendering, logs and free messages of the web demo, the encoding of its links.
- Progress bars, latencies and reports of the load tests, and `cli/infra.ts`, which starts
  machines and runs a scenario on each over SSH, one command after another.
- Release scripts: no part of the system.
