------------------------------- MODULE MCApps -------------------------------
(***************************************************************************)
(* The programs under apps/, one at a time: app says which one runs.  A    *)
(* variable belongs to the program that runs, and is Idle when that        *)
(* program has none of its name.                                           *)
(***************************************************************************)
EXTENDS Naturals, FiniteSets, Sequences, TLC

CONSTANTS
  Apps,                                                   \* the programs that may run
  Clients, MaxReturns, Pairs, Messages, Sessions,         \* the load tests
  MaxAttempts, MaxRequests,                               \* the web demo
  Requests, MaxScans, MaxLists, AllScans, MaxExpired      \* the wallet demo

ASSUME TestsAssumption ==
  Clients \in Nat /\ MaxReturns \in Nat /\ Pairs \in Nat /\ Messages \in Nat \ {0} /\ Sessions \in Nat
ASSUME PagesAssumption == MaxAttempts \in Nat /\ MaxRequests \in Nat
ASSUME ScansAssumption == MaxScans \in Nat \ {0}

VARIABLES
  app,
  test, opened, link, erred, result, held, fact,                 \* LoadClients
  stage, client, round, ear, loose, toWallet, toDapp, verdict,   \* LoadPairs
  phase, dapp, wallet, kept, message, outcome,                   \* AsyncDelivery
  mode, page, intervals, timer, clears, panel, pending,          \* DemoPage
  requests,                                                      \* MobilePage
  task,                                                          \* BasicPage
  stored, at, clients, expired, lists, shown, crossed, twice, hurt  \* WalletApp

LC == INSTANCE LoadClients
LP == INSTANCE LoadPairs
AD == INSTANCE AsyncDelivery
DP == INSTANCE DemoPage
MP == INSTANCE MobilePage
BP == INSTANCE BasicPage
WA == INSTANCE WalletApp

\* Variables that go together.
clientsVars == <<opened, link, erred, result, held, fact>>
pairsVars   == <<round, ear, loose, toWallet, toDapp, verdict>>
asyncVars   == <<dapp, kept, message, outcome>>
demoVars    == <<mode, clears, panel, pending>>
testVars    == <<test, stage, clientsVars, pairsVars, asyncVars>>
rnVars      == <<stored, at, clients, expired, lists, shown, crossed, twice, hurt>>
pageVars    == <<page, intervals, timer, demoVars, requests, task>>

vars == <<app, phase, testVars, client, wallet, pageVars, rnVars>>

Idle == "idle"

NoClients   == opened = Idle /\ link = Idle /\ erred = Idle /\ result = Idle /\ held = Idle /\ fact = Idle
NoPairs     == round = Idle /\ ear = Idle /\ loose = Idle /\ toWallet = Idle /\ toDapp = Idle /\ verdict = Idle
NoAsync     == dapp = Idle /\ kept = Idle /\ message = Idle /\ outcome = Idle
NoDemo      == mode = Idle /\ clears = Idle /\ panel = Idle /\ pending = Idle
NoCountdown == intervals = Idle /\ timer = Idle
NoTest      == test = Idle /\ stage = Idle /\ NoClients /\ NoPairs /\ NoAsync
NoWallet    == /\ stored = Idle /\ at = Idle /\ clients = Idle /\ expired = Idle
               /\ lists = Idle /\ shown = Idle /\ crossed = Idle /\ twice = Idle /\ hurt = Idle
NoPage      == page = Idle /\ NoCountdown /\ NoDemo /\ requests = Idle /\ task = Idle

Init ==
  /\ app \in Apps
  /\ \/ /\ app = "connections" /\ LC!Init
        /\ stage = Idle /\ NoPairs /\ NoAsync /\ client = Idle /\ wallet = Idle /\ NoPage
     \/ app = "pairs"  /\ LP!Init /\ NoClients /\ NoAsync /\ wallet = Idle /\ NoPage
     \/ app = "async"  /\ AD!Init /\ test = Idle /\ NoClients /\ NoPairs /\ client = Idle /\ NoPage
     \/ app = "demo"   /\ DP!Init /\ NoTest /\ requests = Idle /\ task = Idle
     \/ app = "mobile" /\ MP!Init /\ NoTest /\ wallet = Idle /\ NoDemo /\ task = Idle
     \/ app = "basic"  /\ BP!Init /\ NoTest /\ NoCountdown /\ NoDemo /\ requests = Idle
     \/ app = "rn"     /\ WA!Init /\ NoTest /\ client = Idle /\ wallet = Idle /\ NoPage
  /\ app \notin {"async", "rn"} => phase = Idle
  /\ app # "rn" => NoWallet

\* A step of the program that runs.
InClients(A) ==
  /\ app = "connections" /\ A
  /\ UNCHANGED <<app, phase, stage, pairsVars, asyncVars, client, wallet, pageVars, rnVars>>
InPairs(A)  == app = "pairs"  /\ A /\ UNCHANGED <<app, phase, clientsVars, asyncVars, wallet, pageVars, rnVars>>
InAsync(A)  == app = "async"  /\ A /\ UNCHANGED <<app, test, clientsVars, pairsVars, client, pageVars, rnVars>>
InDemo(A)   == app = "demo"   /\ A /\ UNCHANGED <<app, phase, testVars, requests, task, rnVars>>
InMobile(A) == app = "mobile" /\ A /\ UNCHANGED <<app, phase, testVars, wallet, demoVars, task, rnVars>>
InBasic(A)  == app = "basic"  /\ A /\ UNCHANGED <<app, phase, testVars, intervals, timer, demoVars, requests, rnVars>>
InWallet(A) == app = "rn"     /\ A /\ UNCHANGED <<app, testVars, client, wallet, pageVars>>

Next ==
  \/ InClients(LC!Next) \/ InPairs(LP!Next) \/ InAsync(AD!Next)
  \/ InDemo(DP!Next) \/ InMobile(MP!Next) \/ InBasic(BP!Next)
  \/ InWallet(WA!Next)

\* The fairness of the three modules of tests.
Fair ==
  /\ WF_vars(InClients(LC!Control)) /\ WF_vars(InPairs(LP!Control)) /\ WF_vars(InAsync(AD!Control))
  /\ \A c \in 1 .. Clients : WF_vars(InClients(LC!TimesOut(c)))
  /\ \A p \in 1 .. Pairs :
       /\ WF_vars(InPairs(LP!Setup(p))) /\ WF_vars(InPairs(LP!Loop(p)))
       /\ WF_vars(InPairs(LP!Timer(p)))
  /\ \A s \in 1 .. Sessions : WF_vars(InAsync(AD!Timed(s)))

Spec == Init /\ [][Next]_vars /\ Fair

\* The types of the variables, as each program has them.
TypeOK ==
  /\ app = "connections" => LC!TypeOK
  /\ app = "pairs"       => LP!TypeOK
  /\ app = "async"       => AD!TypeOK
  /\ app = "demo"        => DP!TypeOK
  /\ app = "mobile"      => MP!TypeOK
  /\ app = "basic"       => BP!TypeOK
  /\ app = "rn"          => WA!TypeOK

\* What steady-state counts while it holds its connections has happened: no more
\* reconnections, and no more connections lost at once (steady-state.ts).
CountsNoMore == app = "connections" => LC!CountsNoMore

\* Until an exchange of a pair fails, each ends with the response to its own
\* request (session-pair.ts).
ExchangesMatch == app = "pairs" => LP!ExchangesMatch

\* A request is answered by one exchange, even one that comes late, if all of
\* the pair's requests could be sent (session-pair.ts).
AnsweredOnce == app = "pairs" => LP!AnsweredOnce

\* When a test returns its result, its tasks are over and its clients closed:
\* the bare connections, the pairs of realistic-session, and the sessions of
\* async-delivery but for the wallets it cannot disconnect.
ClosedAtTheEnd ==
  /\ app = "connections" => LC!NothingLeftOpen
  /\ app = "pairs"       => LP!ReportIsFinal
  /\ app = "async"       => AD!ClosedAtTheEnd

\* A test ends although the relay answers nothing: with its result, or with its
\* process when a promise is rejected that nobody attends to; unless it is left
\* waiting for good for a call that has no timer (connect() and sendRequest() in
\* the setup of async-delivery, sendResponse() in an exchange).
TestsEnd ==
  /\ app = "connections" ~> app = "connections" /\ test.phase = "done"
  /\ \/ app = "pairs" ~> app = "pairs" /\ test.phase \in {"done", "dead"}
     \/ <>[](app = "pairs" /\ \E p \in 1 .. Pairs : LP!Waits(p))
  /\ \/ app = "async" ~> app = "async" /\ phase \in {"done", "dead"}
     \/ <>[](app = "async" /\ \E s \in 1 .. Sessions : AD!Waits(s))

\* What a page of the web demo shows of its client is so, once every disconnect()
\* it has called is done.
PagesShowTheirClients ==
  /\ app = "demo"   => DP!PageShowsClient
  /\ app = "mobile" => MP!PageShowsClient
  /\ app = "basic"  => BP!PageShowsClient

\* The page for MetaMask Mobile has one countdown at most, and none while it is
\* connected.
OneCountdown == app = "mobile" => MP!OneCountdown

\* In the wallet of rn-demo a session with nothing under way that has a record has
\* a usable client in the manager's map, and one of the map has its record until
\* it has expired, unless it was scanned twice or a call was rejected
\* (SessionManager.ts).
Managed == app = "rn" => WA!Managed

\* When all is quiet its screen shows the sessions the store has, of those that
\* have not expired, unless a list was shown out of order or not read, a session
\* scanned twice or a call rejected (WalletContext.tsx).
ShownIsStored == app = "rn" => WA!ShownIsStored

\* For the wallet's run: its requests are alike, and it goes no further than some
\* lists on their way to the screen, some scans in all, some sessions expired, or
\* a state of which nothing is promised.  Where nothing is promised of the screen
\* any more one list at a time is enough, and what has disturbed it need not
\* be followed by more that does.
Symmetry == Permutations(Requests)
Screened == WA!Plain = Requests /\ phase # "unmounted"
Bounds ==
  app = "rn" =>
    /\ Len(lists) <= (IF Screened /\ ~ crossed THEN MaxLists ELSE 1)
    /\ Cardinality({c \in WA!WalletClients : c[2] > 0 /\ at[c] # "none"}) <= AllScans
    /\ Cardinality(expired) <= MaxExpired
    /\ WA!Plain # {} /\ (crossed => Screened)
=============================================================================
