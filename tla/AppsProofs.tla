----------------------------- MODULE AppsProofs -----------------------------
(***************************************************************************)
(* Proofs about the programs under apps/, each for any values of its       *)
(* bounds: a section for each program has its inductive invariant, and the *)
(* last one puts them together for the specification in which one of them  *)
(* runs.                                                                   *)
(***************************************************************************)
EXTENDS MCApps, FiniteSetTheorems, TLAPS

-----------------------------------------------------------------------------
(* The client of a page *)

PageStates  == {"resuming", "disconnected", "connecting", "offered", "connected"}
PageCallers == {"nobody", "connect", "send", "button"}
PageClients == [state : PageStates, attempt : 0 .. MaxAttempts, tail : PageCallers,
                crossed : BOOLEAN, thrown : BOOLEAN]

LEMMA PageClientBegins ==
  ASSUME NEW c \in [state : {"resuming", "disconnected"}, attempt : {0}, tail : {"nobody"},
                    crossed : {FALSE}, thrown : {FALSE}]
  PROVE  /\ c \in PageClients
         /\ c.state \in {"resuming", "disconnected"} /\ c.attempt = 0 /\ c.tail = "nobody"
<1>1. /\ c.state \in {"resuming", "disconnected"} /\ c.attempt = 0 /\ c.tail = "nobody"
      /\ c.crossed = FALSE /\ c.thrown = FALSE
  OBVIOUS
<1>2. 0 \in 0 .. MaxAttempts
  BY PagesAssumption
<1>3. /\ c.crossed \in BOOLEAN /\ c.thrown \in BOOLEAN
      /\ c.state \in PageStates /\ c.tail \in PageCallers
  BY <1>1 DEF PageStates, PageCallers
<1>4. c = [state |-> c.state, attempt |-> c.attempt, tail |-> c.tail,
           crossed |-> c.crossed, thrown |-> c.thrown]
  OBVIOUS
<1>5. c \in PageClients
  <2> DEFINE s == c.state
             a == c.attempt
             t == c.tail
             x == c.crossed
             y == c.thrown
  <2>1. /\ s \in PageStates /\ a \in 0 .. MaxAttempts /\ t \in PageCallers
        /\ x \in BOOLEAN /\ y \in BOOLEAN
    BY <1>1, <1>2, <1>3
  <2>2. c = [state |-> s, attempt |-> a, tail |-> t, crossed |-> x, thrown |-> y]
    BY <1>4
  <2> HIDE DEF s, a, t, x, y
  <2> QED  BY Zenon, <2>1, <2>2 DEF PageClients
<1> QED  BY <1>1, <1>5

\* A client whose disconnect() has a tail to do has no session, unless an
\* attempt began meanwhile; one that resumes its session has made no attempt.
ClientSound ==
  /\ client.tail # "nobody" /\ ~ client.crossed => client.state = "disconnected"
  /\ client.state = "resuming" => client.attempt = 0

LEMMA ClientGoes ==
  ASSUME client \in PageClients, NEW s \in PageStates,
         client' = [client EXCEPT !.state = s]
  PROVE  /\ client' \in PageClients /\ client'.state = s
         /\ client'.attempt = client.attempt /\ client'.tail = client.tail
         /\ client'.crossed = client.crossed /\ client'.thrown = client.thrown
BY DEF PageClients

LEMMA ClientEnds ==
  ASSUME client \in PageClients, NEW t \in PageCallers,
         client' = [client EXCEPT !.state = "disconnected", !.tail = t]
  PROVE  /\ client' \in PageClients /\ client'.state = "disconnected"
         /\ client'.attempt = client.attempt /\ client'.tail = t
         /\ client'.crossed = client.crossed /\ client'.thrown = client.thrown
BY DEF PageClients, PageStates

LEMMA ClientTailEnds ==
  ASSUME client \in PageClients, client' = [client EXCEPT !.tail = "nobody"]
  PROVE  /\ client' \in PageClients /\ client'.state = client.state
         /\ client'.attempt = client.attempt /\ client'.tail = "nobody"
         /\ client'.crossed = client.crossed /\ client'.thrown = client.thrown
BY DEF PageClients, PageCallers

LEMMA ClientTailThrows ==
  ASSUME client \in PageClients, client' = [client EXCEPT !.tail = "nobody", !.thrown = TRUE]
  PROVE  /\ client' \in PageClients /\ client'.state = client.state
         /\ client'.attempt = client.attempt /\ client'.tail = "nobody"
         /\ client'.crossed = client.crossed /\ client'.thrown
BY DEF PageClients, PageCallers

LEMMA ClientBegins ==
  ASSUME client \in PageClients, client.attempt < MaxAttempts,
         client' = [client EXCEPT !.state = "connecting", !.attempt = client.attempt + 1,
                                  !.crossed = client.crossed \/ client.tail # "nobody"]
  PROVE  /\ client' \in PageClients /\ client'.state = "connecting"
         /\ client'.attempt = client.attempt + 1 /\ client'.attempt \in 1 .. MaxAttempts
         /\ client'.tail = client.tail
         /\ client'.crossed = (client.crossed \/ client.tail # "nobody")
         /\ client'.thrown = client.thrown
<1> DEFINE a == client.attempt + 1
           x == client.crossed \/ client.tail # "nobody"
<1>1. a \in 0 .. MaxAttempts /\ a \in 1 .. MaxAttempts /\ x \in BOOLEAN
  BY PagesAssumption DEF PageClients
<1>2. client' = [client EXCEPT !.state = "connecting", !.attempt = a, !.crossed = x]
  OBVIOUS
<1> HIDE DEF a, x
<1>3. /\ client' \in PageClients /\ client'.state = "connecting" /\ client'.attempt = a
      /\ client'.tail = client.tail /\ client'.crossed = x /\ client'.thrown = client.thrown
  BY <1>1, <1>2 DEF PageClients, PageStates
<1> QED  BY <1>1, <1>3 DEF a, x

-----------------------------------------------------------------------------
(* The first page of the web app *)

\* While a handler awaits the two disconnect(), the client has no session, and
\* does not get one.
BasicInv ==
  /\ BP!TypeOK
  /\ page.request \in {0, client.attempt}
  /\ client.state = "connected" => page.connected
  /\ task # "none" => client.state = "disconnected"

LEMMA BasicInit == BP!Init => BasicInv
<1> SUFFICES ASSUME BP!Init  PROVE BasicInv
  OBVIOUS
<1>1. client \in PageClients /\ client.attempt = 0 /\ client.state # "connected"
  BY PageClientBegins DEF BP!Init, BP!ClientInit
<1>2. wallet \in [state : BP!States, of : 0 .. MaxAttempts, tail : BP!Callers]
  BY PagesAssumption DEF BP!Init, BP!States, BP!Callers
<1>3. BP!ClientType
  BY <1>1 DEF BP!ClientType, BP!States, BP!Callers, PageClients, PageStates, PageCallers
<1> QED  BY <1>1, <1>2, <1>3, PagesAssumption DEF BP!Init, BasicInv, BP!TypeOK

LEMMA BasicBothEnd ==
  ASSUME BasicInv, NEW t \in {"start", "end"}, BP!BothEnd(t), UNCHANGED page
  PROVE  BasicInv'
BY PagesAssumption DEF BP!BothEnd, BP!Ends, BasicInv, BP!TypeOK, BP!ClientType, BP!States, BP!Callers, BP!Live

LEMMA BasicStep == BasicInv /\ [BP!Next]_(BP!vars) => BasicInv'
<1> SUFFICES ASSUME BasicInv, [BP!Next]_(BP!vars)  PROVE BasicInv'
  OBVIOUS
<1> USE PagesAssumption DEF BasicInv, BP!TypeOK, BP!ClientType, BP!States, BP!Callers
<1>1. CASE BP!Resumed
  BY <1>1 DEF BP!Resumed, BP!Goes
<1>2. CASE BP!WalletResumed \/ BP!WalletConnected \/ BP!WalletEnds
  BY <1>2 DEF BP!WalletResumed, BP!WalletConnected, BP!WalletEnds
<1>3. CASE BP!Start \/ BP!Disconnect
  BY <1>3, BasicBothEnd DEF BP!Start, BP!Disconnect
<1>4. CASE BP!Started
  <2>1. /\ client.attempt + 1 \in 0 .. MaxAttempts /\ task' = "none" /\ wallet' = wallet
        /\ page' = [page EXCEPT !.request = client.attempt + 1]
    BY <1>4 DEF BP!Started, BP!Begins
  <2>2. /\ client'.state = "connecting" /\ client'.attempt = client.attempt + 1
        /\ BP!ClientType'
    BY <1>4, <2>1 DEF BP!Started, BP!Begins
  <2> QED  BY <2>1, <2>2
<1>5. CASE BP!Scan
  BY <1>5 DEF BP!Scan
<1>6. CASE BP!Connected
  BY <1>6 DEF BP!Connected, BP!Goes
<1>7. CASE BP!ClientEnds
  BY <1>7 DEF BP!ClientEnds, BP!Ends
<1>8. CASE BP!ClientDone \/ BP!WalletDone
  BY <1>8 DEF BP!ClientDone, BP!WalletDone, BP!TailEnds, BP!TailThrows, BP!Thrown
<1>9. CASE BP!Disconnected
  BY <1>9 DEF BP!Disconnected, BP!Awaited
<1>10. CASE UNCHANGED BP!vars
  BY <1>10 DEF BP!vars
<1> QED  BY <1>1, <1>2, <1>3, <1>4, <1>5, <1>6, <1>7, <1>8, <1>9, <1>10 DEF BP!Next

-----------------------------------------------------------------------------
(* The page for MetaMask Mobile *)

MobilePages ==
  [qr : 0 .. MaxAttempts, connected : BOOLEAN,
   status : {"none", "ready", "connecting", "connected", "failed"}]
MobileRequests ==
  [sent : 0 .. MaxRequests, open : SUBSET (1 .. MaxRequests), shown : 0 .. MaxRequests]

MobileTypes ==
  /\ client \in PageClients /\ page \in MobilePages /\ requests \in MobileRequests
  /\ intervals \subseteq 1 .. MaxAttempts /\ timer \in 0 .. MaxAttempts

LEMMA MobileTyped == MobileTypes <=> MP!TypeOK
BY DEF MobileTypes, MP!TypeOK, MP!ClientType, MP!States, MP!Callers, MP!Attempts, PageClients,
       PageStates, PageCallers, MobilePages, MobileRequests

MobileInv == MobileTypes /\ ClientSound /\ MP!PageShowsClient /\ MP!OneCountdown

LEMMA MobileInit == MP!Init => MobileInv
<1> SUFFICES ASSUME MP!Init  PROVE MobileInv
  OBVIOUS
<1>1. /\ client \in PageClients /\ client.attempt = 0 /\ client.tail = "nobody"
      /\ client.state \in {"resuming", "disconnected"}
  BY PageClientBegins DEF MP!Init, MP!ClientInit
<1>2. MobileTypes
  BY <1>1, PagesAssumption DEF MP!Init, MobileTypes, MobilePages, MobileRequests
<1> QED
  BY <1>1, <1>2 DEF MP!Init, MobileInv, ClientSound, MP!PageShowsClient, MP!Shows, MP!OneCountdown

LEMMA PageSays ==
  ASSUME page \in MobilePages, NEW s \in {"ready", "connecting", "connected", "failed"},
         NEW q \in 0 .. MaxAttempts
  PROVE  /\ page' = [page EXCEPT !.status = s] =>
              page' \in MobilePages /\ page'.connected = page.connected /\ page'.qr = page.qr
         /\ page' = [page EXCEPT !.connected = TRUE, !.status = s] =>
              page' \in MobilePages /\ page'.connected /\ page'.qr = page.qr
         /\ page' = [page EXCEPT !.qr = q, !.status = s] =>
              page' \in MobilePages /\ page'.connected = page.connected /\ page'.qr = q
BY DEF MobilePages

\* What a step leaves alone stays sound.
LEMMA MobileSame ==
  ASSUME MobileInv, UNCHANGED <<client, intervals, timer>>,
         page' \in MobilePages, page'.connected = page.connected, page'.qr \in {0, page.qr},
         requests' \in MobileRequests
  PROVE  MobileInv'
BY DEF MobileInv, MobileTypes, ClientSound, MP!PageShowsClient, MP!Shows, MP!OneCountdown

\* The client is connected, and the page and the countdown are told.
LEMMA MobileConnects ==
  ASSUME MobileInv, client.state \in {"resuming", "connecting"}, MP!Goes("connected"),
         page' = [page EXCEPT !.connected = TRUE, !.status = "connected"],
         MP!ClearTimer, UNCHANGED requests
  PROVE  MobileInv'
<1>1. /\ client' \in PageClients /\ client'.state = "connected"
      /\ client'.attempt = client.attempt /\ client'.tail = client.tail
      /\ client'.crossed = client.crossed /\ client'.thrown = client.thrown
  BY ClientGoes DEF MP!Goes, MobileInv, MobileTypes, PageStates
<1>2. page' \in MobilePages /\ page'.connected /\ page'.qr = page.qr
  BY PageSays, PagesAssumption DEF MobileInv, MobileTypes
<1>3. intervals' = {} /\ timer' = 0
  BY DEF MP!ClearTimer, MobileInv, MP!OneCountdown
<1>4. MobileTypes'
  BY <1>1, <1>2, <1>3, PagesAssumption DEF MobileInv, MobileTypes
<1>5. ClientSound' /\ MP!PageShowsClient'
  BY <1>1, <1>2 DEF MobileInv, ClientSound, MP!PageShowsClient, MP!Shows
<1> QED  BY <1>3, <1>4, <1>5 DEF MobileInv, MP!OneCountdown

\* disconnect() begins.
LEMMA MobileEnds ==
  ASSUME MobileInv, NEW t \in {"connect", "send", "button"}, MP!Ends(t),
         UNCHANGED <<page, intervals, timer, requests>>
  PROVE  MobileInv'
<1>1. /\ client' \in PageClients /\ client'.state = "disconnected"
      /\ client'.attempt = client.attempt /\ client'.tail = t
      /\ client'.crossed = client.crossed /\ client'.thrown = client.thrown
  BY ClientEnds DEF MP!Ends, MobileInv, MobileTypes, PageCallers
<1> QED
  BY <1>1 DEF MobileInv, MobileTypes, ClientSound, MP!PageShowsClient, MP!Shows, MP!OneCountdown

LEMMA MobileConnect == MobileInv /\ MP!Connect => MobileInv'
<1> SUFFICES ASSUME MobileInv, MP!Connect  PROVE MobileInv'
  OBVIOUS
<1> DEFINE a == client.attempt + 1
<1>1. /\ client' \in PageClients /\ client'.state = "connecting" /\ client'.attempt = a
      /\ a \in 1 .. MaxAttempts /\ client'.tail = client.tail
      /\ client'.crossed = (client.crossed \/ client.tail # "nobody")
      /\ client'.thrown = client.thrown
  BY ClientBegins DEF MP!Connect, MP!Begins, MobileInv, MobileTypes
<1>2. ~ page.connected /\ page' = [page EXCEPT !.qr = a, !.status = "connecting"] /\ requests' = requests
  BY DEF MP!Connect
<1>3. timer' = a /\ intervals' = {a}
  BY DEF MP!Connect, MP!StartTimer, MobileInv, MP!OneCountdown
<1> HIDE DEF a
<1>3a. a \in 0 .. MaxAttempts /\ a # 0 /\ page \in MobilePages
  BY <1>1, PagesAssumption DEF MobileInv, MobileTypes
<1>4. page' \in MobilePages /\ page'.connected = page.connected /\ page'.qr = a
  BY <1>2, <1>3a DEF MobilePages
<1>5. MobileTypes' /\ MP!OneCountdown'
  BY <1>1, <1>2, <1>3, <1>3a, <1>4 DEF MobileInv, MobileTypes, MP!OneCountdown
<1>6. ClientSound' /\ MP!PageShowsClient'
  BY <1>1, <1>2, <1>4 DEF MP!PageShowsClient, MP!Shows, ClientSound
<1> QED  BY <1>5, <1>6 DEF MobileInv

\* The tail of disconnect() is done: the page is reset.
LEMMA MobileDisconnected == MobileInv /\ MP!Disconnected => MobileInv'
<1> SUFFICES ASSUME MobileInv, MP!Disconnected  PROVE MobileInv'
  OBVIOUS
<1>1. /\ client.tail # "nobody"
      /\ client' \in PageClients /\ client'.state = client.state
      /\ client'.attempt = client.attempt /\ client'.tail = "nobody"
      /\ client'.crossed = client.crossed /\ client'.thrown = client.thrown
  BY ClientTailEnds DEF MP!Disconnected, MP!TailEnds, MobileInv, MobileTypes
<1>2. page' \in MobilePages /\ ~ page'.connected /\ page'.qr = 0 /\ requests' = requests
  BY PagesAssumption DEF MP!Disconnected, MobilePages
<1>3. intervals' = {} /\ timer' = 0
  BY DEF MP!Disconnected, MP!ClearTimer, MobileInv, MP!OneCountdown
<1>4. MobileTypes' /\ MP!OneCountdown'
  BY <1>1, <1>2, <1>3, PagesAssumption DEF MobileInv, MobileTypes, MP!OneCountdown
<1>5. ClientSound' /\ MP!PageShowsClient'
  BY <1>1, <1>2 DEF MobileInv, MP!PageShowsClient, MP!Shows, ClientSound
<1> QED  BY <1>4, <1>5 DEF MobileInv

LEMMA MobileDisconnectFails == MobileInv /\ MP!DisconnectFails => MobileInv'
<1> SUFFICES ASSUME MobileInv, MP!DisconnectFails  PROVE MobileInv'
  OBVIOUS
<1>1. /\ client' \in PageClients /\ client'.state = client.state /\ client'.attempt = client.attempt
      /\ client'.tail = "nobody" /\ client'.thrown
  BY ClientTailThrows DEF MP!DisconnectFails, MP!TailThrows, MobileInv, MobileTypes
<1>2. page' \in MobilePages
  BY PageSays, PagesAssumption DEF MP!DisconnectFails, MP!Says, MobileInv, MobileTypes
<1> QED
  BY <1>1, <1>2
  DEF MP!DisconnectFails, MP!countdown, MobileInv, MobileTypes, ClientSound,
      MP!PageShowsClient, MP!Shows, MP!OneCountdown

\* The requests of the test actions.
LEMMA MobileAsks ==
  ASSUME MobileInv, MP!Ask \/ \E r \in requests.open : MP!Answered(r)
  PROVE  requests' \in MobileRequests /\ UNCHANGED <<client, page, intervals, timer>>
<1>0. requests \in MobileRequests
  BY DEF MobileInv, MobileTypes
<1>1. CASE MP!Ask
  <2> DEFINE n == requests.sent + 1
             o == IF client.state = "connected" THEN requests.open \union {n} ELSE requests.open
  <2>1. n \in 0 .. MaxRequests /\ n \in 1 .. MaxRequests /\ 0 \in 0 .. MaxRequests
    BY <1>0, <1>1, PagesAssumption DEF MP!Ask, MobileRequests
  <2>2. o \in SUBSET (1 .. MaxRequests)
    BY <1>0, <2>1 DEF MobileRequests
  <2>3. requests' = [requests EXCEPT !.sent = n, !.shown = 0, !.open = o]
    BY <1>0, <1>1 DEF MP!Ask, MobileRequests
  <2> HIDE DEF n, o
  <2>4. requests' \in MobileRequests
    BY <1>0, <2>1, <2>2, <2>3 DEF MobileRequests
  <2> QED  BY <1>1, <2>4 DEF MP!Ask, MP!countdown
<1>2. ASSUME NEW r \in requests.open, MP!Answered(r)
      PROVE  requests' \in MobileRequests /\ UNCHANGED <<client, page, intervals, timer>>
  <2>1. r \in 0 .. MaxRequests
    BY <1>0, PagesAssumption DEF MobileRequests
  <2> QED  BY <1>0, <1>2, <2>1 DEF MP!Answered, MP!countdown, MobileRequests
<1> QED  BY <1>1, <1>2

LEMMA MobileStep == MobileInv /\ [MP!Next]_(MP!vars) => MobileInv'
<1> SUFFICES ASSUME MobileInv, [MP!Next]_(MP!vars)  PROVE MobileInv'
  OBVIOUS
<1>0. MobileTypes /\ 0 \in 0 .. MaxAttempts
  BY PagesAssumption DEF MobileInv
<1>1. CASE MP!Mounted \/ MP!ConnectFails
  <2>1. page' \in MobilePages /\ page'.connected = page.connected /\ page'.qr = page.qr
    BY <1>0, <1>1, PageSays DEF MP!Mounted, MP!ConnectFails, MP!Says, MobileTypes
  <2> QED  BY <1>0, <1>1, <2>1, MobileSame DEF MP!Mounted, MP!ConnectFails, MP!countdown, MobileTypes
<1>2. CASE MP!Resumed \/ MP!Connected
  BY <1>2, MobileConnects DEF MP!Resumed, MP!Connected
<1>3. CASE MP!ResumeFails
  <2>1. /\ client' \in PageClients /\ client'.state = "disconnected"
        /\ client'.attempt = client.attempt /\ client'.tail = client.tail
        /\ client'.crossed = client.crossed /\ client'.thrown = client.thrown
    BY <1>0, <1>3, ClientGoes DEF MP!ResumeFails, MP!Goes, MobileTypes, PageStates
  <2>2. page' \in MobilePages /\ page'.connected = page.connected /\ page'.qr = page.qr
    BY <1>0, <1>3, PageSays DEF MP!ResumeFails, MP!Says, MobileTypes
  <2>3. client.state = "resuming" /\ UNCHANGED <<intervals, timer, requests>>
    BY <1>3 DEF MP!ResumeFails, MP!countdown
  <2>4. MobileTypes' /\ MP!OneCountdown'
    BY <1>0, <2>1, <2>2, <2>3 DEF MobileInv, MobileTypes, MP!OneCountdown
  <2>5. ClientSound' /\ MP!PageShowsClient'
    BY <2>1, <2>2, <2>3 DEF MobileInv, ClientSound, MP!PageShowsClient, MP!Shows
  <2> QED  BY <2>4, <2>5 DEF MobileInv
<1>4. CASE MP!ClientEnds \/ MP!Disconnect
  BY <1>4, MobileEnds DEF MP!ClientEnds, MP!Disconnect, MP!countdown
<1>5. ASSUME NEW a \in intervals, MP!Countdown(a)  PROVE MobileInv'
  <2>1. intervals = {timer} /\ timer # 0
    BY <1>5 DEF MobileInv, MP!OneCountdown
  <2>2. intervals' = {} /\ timer' = 0 /\ UNCHANGED <<client, requests>>
    BY <1>5, <2>1 DEF MP!Countdown
  <2>3. page' \in MobilePages /\ page'.connected = page.connected /\ page'.qr = 0
    BY <1>0, <1>5, PageSays DEF MP!Countdown, MobileTypes
  <2> QED
    BY <1>0, <2>2, <2>3
    DEF MobileInv, MobileTypes, ClientSound, MP!PageShowsClient, MP!Shows, MP!OneCountdown
<1>6. CASE MP!DisconnectIdle
  <2>1. intervals' = {} /\ timer' = 0 /\ UNCHANGED <<client, requests>>
    BY <1>6 DEF MP!DisconnectIdle, MP!ClearTimer, MobileInv, MP!OneCountdown
  <2>2. page' \in MobilePages /\ page'.connected = page.connected /\ page'.qr = 0
    BY <1>0, <1>6, PageSays DEF MP!DisconnectIdle, MobileTypes
  <2> QED
    BY <1>0, <2>1, <2>2
    DEF MobileInv, MobileTypes, ClientSound, MP!PageShowsClient, MP!Shows, MP!OneCountdown
<1>7. CASE MP!Ask \/ \E r \in requests.open : MP!Answered(r)
  BY <1>0, <1>7, MobileAsks, MobileSame DEF MobileTypes
<1>8. CASE UNCHANGED MP!vars
  BY <1>0, <1>8, MobileSame DEF MP!vars, MobileTypes
<1> QED
  BY <1>1, <1>2, <1>3, <1>4, <1>5, <1>6, <1>7, <1>8, MobileConnect, MobileDisconnected,
     MobileDisconnectFails
  DEF MP!Next

-----------------------------------------------------------------------------
(* The trusted and the untrusted demo *)

DemoPages ==
  [qr : 0 .. MaxAttempts, form : 0 .. MaxAttempts, connected : BOOLEAN,
   status : {"none", "ready", "connecting", "connected", "failed"}]
DemoTimers == DP!Timers \union {DP!NoTimer}

DappTypes ==
  /\ client \in PageClients /\ page \in DemoPages
  /\ intervals \subseteq DP!Timers /\ timer \in DemoTimers /\ clears \in DemoTimers
PanelTypes ==
  /\ wallet \in [state : PageStates, of : 0 .. MaxAttempts]
  /\ panel \in [connected : BOOLEAN, otp : 0 .. MaxAttempts]
  /\ pending \subseteq 0 .. MaxAttempts

LEMMA DemoTyped == DappTypes /\ PanelTypes <=> DP!TypeOK
BY DEF DappTypes, PanelTypes, DP!TypeOK, DP!ClientType, DP!States, DP!Callers, PageClients,
       PageStates, PageCallers, DemoPages, DemoTimers

DemoInv == DappTypes /\ PanelTypes /\ ClientSound /\ DP!PageShowsClient

LEMMA DemoInit == DP!Init => DemoInv
<1> SUFFICES ASSUME DP!Init  PROVE DemoInv
  OBVIOUS
<1>1. /\ client \in PageClients /\ client.attempt = 0 /\ client.tail = "nobody"
      /\ client.state \in {"resuming", "disconnected"}
  BY PageClientBegins DEF DP!Init, DP!ClientInit
<1>2. page \in DemoPages /\ ~ page.connected /\ page.qr = 0
  BY PagesAssumption DEF DP!Init, DemoPages
<1>3. DappTypes
  BY <1>1, <1>2 DEF DP!Init, DappTypes, DemoTimers
<1>4. PanelTypes
  BY PagesAssumption DEF DP!Init, PanelTypes, PageStates
<1> QED
  BY <1>1, <1>2, <1>3, <1>4 DEF DemoInv, ClientSound, DP!PageShowsClient, DP!Shows

\* The forms in which the page is changed.
LEMMA DemoSays ==
  ASSUME page \in DemoPages, NEW s \in {"ready", "connecting", "connected", "failed"}
  PROVE  /\ page' = [page EXCEPT !.status = s] =>
              page' \in DemoPages /\ page'.connected = page.connected /\ page'.qr = page.qr
         /\ page' = [page EXCEPT !.connected = TRUE, !.status = s] =>
              page' \in DemoPages /\ page'.connected /\ page'.qr = page.qr
BY DEF DemoPages

LEMMA DemoReset ==
  ASSUME NEW s \in {"ready", "failed"}, NEW b \in BOOLEAN,
         page' = [qr |-> 0, form |-> 0, connected |-> b, status |-> s]
  PROVE  page' \in DemoPages /\ page'.connected = b /\ page'.qr = 0
BY PagesAssumption DEF DemoPages

\* The countdowns.
LEMMA DemoStartTimer ==
  ASSUME intervals \subseteq DP!Timers, NEW a \in DP!Attempts, NEW k \in {"request", "code"},
         DP!StartTimer([of |-> a, kind |-> k])
  PROVE  intervals' \subseteq DP!Timers /\ timer' \in DemoTimers
BY DEF DP!StartTimer, DP!Timers, DemoTimers

LEMMA DemoClear ==
  ASSUME DappTypes, DP!Clear
  PROVE  intervals' \subseteq DP!Timers /\ timer' \in DemoTimers /\ clears' \in DemoTimers
BY DEF DappTypes, DP!Clear, DemoTimers

\* What a step leaves alone stays sound.
LEMMA DemoSame ==
  ASSUME DemoInv, client' = client, PanelTypes',
         page' \in DemoPages, page'.connected = page.connected, page'.qr \in {0, page.qr},
         intervals' \subseteq DP!Timers, timer' \in DemoTimers, clears' \in DemoTimers
  PROVE  DemoInv'
BY DEF DemoInv, DappTypes, ClientSound, DP!PageShowsClient, DP!Shows

LEMMA DemoConnects ==
  ASSUME DemoInv, PanelTypes', client.state \in {"resuming", "connecting", "offered"},
         DP!Goes("connected"),
         page' = [page EXCEPT !.connected = TRUE, !.status = "connected"],
         UNCHANGED <<intervals, timer, clears>>
  PROVE  DemoInv'
<1>1. /\ client' \in PageClients /\ client'.state = "connected"
      /\ client'.attempt = client.attempt /\ client'.tail = client.tail
      /\ client'.crossed = client.crossed /\ client'.thrown = client.thrown
  BY ClientGoes DEF DP!Goes, DemoInv, DappTypes, PageStates
<1>2. page' \in DemoPages /\ page'.connected /\ page'.qr = page.qr
  BY DemoSays, PagesAssumption DEF DemoInv, DappTypes
<1>3. DappTypes'
  BY <1>1, <1>2 DEF DemoInv, DappTypes
<1>4. ClientSound' /\ DP!PageShowsClient'
  BY <1>1, <1>2 DEF DemoInv, ClientSound, DP!PageShowsClient, DP!Shows
<1> QED  BY <1>3, <1>4 DEF DemoInv

LEMMA DemoEnds ==
  ASSUME DemoInv, PanelTypes', NEW t \in {"connect", "send", "button"}, DP!Ends(t),
         UNCHANGED <<page, intervals, timer>>, clears' \in DemoTimers
  PROVE  DemoInv'
<1>1. /\ client' \in PageClients /\ client'.state = "disconnected"
      /\ client'.attempt = client.attempt /\ client'.tail = t
      /\ client'.crossed = client.crossed /\ client'.thrown = client.thrown
  BY ClientEnds DEF DP!Ends, DemoInv, DappTypes, PageCallers
<1> QED
  BY <1>1 DEF DemoInv, DappTypes, ClientSound, DP!PageShowsClient, DP!Shows

LEMMA DemoConnect == DemoInv /\ PanelTypes' /\ DP!Connect => DemoInv'
<1> SUFFICES ASSUME DemoInv, PanelTypes', DP!Connect  PROVE DemoInv'
  OBVIOUS
<1> DEFINE a == client.attempt + 1
<1>1. /\ client' \in PageClients /\ client'.state = "connecting" /\ client'.attempt = a
      /\ a \in 1 .. MaxAttempts /\ client'.tail = client.tail
      /\ client'.crossed = (client.crossed \/ client.tail # "nobody")
      /\ client'.thrown = client.thrown
  BY ClientBegins DEF DP!Connect, DP!Begins, DemoInv, DappTypes
<1>2. /\ ~ page.connected /\ page' = [page EXCEPT !.qr = a, !.status = "connecting"]
      /\ DP!StartTimer([of |-> a, kind |-> "request"]) /\ clears' = clears
  BY DEF DP!Connect
<1> HIDE DEF a
<1>3. a \in 0 .. MaxAttempts /\ a # 0 /\ page \in DemoPages /\ a \in DP!Attempts
  BY <1>1, PagesAssumption DEF DemoInv, DappTypes, DP!Attempts
<1>4. page' \in DemoPages /\ page'.connected = page.connected /\ page'.qr = a
  BY <1>2, <1>3 DEF DemoPages
<1>5. intervals' \subseteq DP!Timers /\ timer' \in DemoTimers
  BY <1>2, <1>3, DemoStartTimer DEF DemoInv, DappTypes
<1>6. DappTypes'
  BY <1>1, <1>2, <1>4, <1>5 DEF DemoInv, DappTypes
<1>7. ClientSound' /\ DP!PageShowsClient'
  BY <1>1, <1>2, <1>4 DEF DP!PageShowsClient, DP!Shows, ClientSound
<1> QED  BY <1>6, <1>7 DEF DemoInv

LEMMA DemoOtpRequired == DemoInv /\ PanelTypes' /\ DP!OtpRequired => DemoInv'
<1> SUFFICES ASSUME DemoInv, PanelTypes', DP!OtpRequired  PROVE DemoInv'
  OBVIOUS
<1> DEFINE a == client.attempt
<1>1. /\ client' \in PageClients /\ client'.state = "offered"
      /\ client'.attempt = client.attempt /\ client'.tail = client.tail
      /\ client'.crossed = client.crossed /\ client'.thrown = client.thrown
  BY ClientGoes DEF DP!OtpRequired, DP!Goes, DemoInv, DappTypes, PageStates
<1>2. a \in 0 .. MaxAttempts
  BY DEF DemoInv, DappTypes, PageClients
<1>3. a \in DP!Attempts
  BY DEF DP!OtpRequired, DemoInv, DappTypes, DP!Timers
<1>4. page' = [page EXCEPT !.form = a] /\ DP!StartTimer([of |-> a, kind |-> "code"]) /\ clears' = clears
  BY DEF DP!OtpRequired
<1> HIDE DEF a
<1>5. page' \in DemoPages /\ page'.connected = page.connected /\ page'.qr = page.qr
  BY <1>2, <1>4 DEF DemoInv, DappTypes, DemoPages
<1>6. intervals' \subseteq DP!Timers /\ timer' \in DemoTimers
  BY <1>3, <1>4, DemoStartTimer DEF DemoInv, DappTypes
<1>7. DappTypes'
  BY <1>1, <1>4, <1>5, <1>6 DEF DemoInv, DappTypes
<1>8. ClientSound' /\ DP!PageShowsClient'
  BY <1>1, <1>5 DEF DP!OtpRequired, DemoInv, DP!PageShowsClient, DP!Shows, ClientSound
<1> QED  BY <1>7, <1>8 DEF DemoInv

LEMMA DemoDisconnected == DemoInv /\ PanelTypes' /\ DP!Disconnected => DemoInv'
<1> SUFFICES ASSUME DemoInv, PanelTypes', DP!Disconnected  PROVE DemoInv'
  OBVIOUS
<1>1. /\ client.tail # "nobody"
      /\ client' \in PageClients /\ client'.state = client.state
      /\ client'.attempt = client.attempt /\ client'.tail = "nobody"
      /\ client'.crossed = client.crossed /\ client'.thrown = client.thrown
  BY ClientTailEnds DEF DP!Disconnected, DP!TailEnds, DemoInv, DappTypes
<1>2. page' \in DemoPages /\ ~ page'.connected /\ page'.qr = 0
  BY PagesAssumption DEF DP!Disconnected, DemoPages
<1>3. DappTypes'
  BY <1>1, <1>2, DemoClear DEF DP!Disconnected, DemoInv, DappTypes
<1>4. ClientSound' /\ DP!PageShowsClient'
  BY <1>1, <1>2 DEF DemoInv, DP!PageShowsClient, DP!Shows, ClientSound
<1> QED  BY <1>3, <1>4 DEF DemoInv

LEMMA DemoDisconnectFails == DemoInv /\ PanelTypes' /\ DP!DisconnectFails => DemoInv'
<1> SUFFICES ASSUME DemoInv, PanelTypes', DP!DisconnectFails  PROVE DemoInv'
  OBVIOUS
<1>1. /\ client' \in PageClients /\ client'.state = client.state
      /\ client'.attempt = client.attempt /\ client'.tail = "nobody" /\ client'.thrown
  BY ClientTailThrows DEF DP!DisconnectFails, DP!TailThrows, DemoInv, DappTypes
<1>2. page' \in DemoPages
  BY DemoSays, PagesAssumption DEF DP!DisconnectFails, DP!Says, DemoInv, DappTypes
<1> QED
  BY <1>1, <1>2
  DEF DP!DisconnectFails, DemoInv, DappTypes, DemoTimers, ClientSound, DP!PageShowsClient, DP!Shows

LEMMA DemoDappStep == DemoInv /\ PanelTypes' /\ DP!DappStep => DemoInv'
<1> SUFFICES ASSUME DemoInv, PanelTypes', DP!DappStep  PROVE DemoInv'
  OBVIOUS
<1>0. DappTypes /\ 0 \in 0 .. MaxAttempts
  BY PagesAssumption DEF DemoInv
<1>1. CASE DP!Mounted \/ DP!ConnectFails
  <2>1. page' \in DemoPages /\ page'.connected = page.connected /\ page'.qr = page.qr
    BY <1>0, <1>1, DemoSays DEF DP!Mounted, DP!ConnectFails, DP!Says, DappTypes
  <2> QED  BY <1>0, <1>1, <2>1, DemoSame DEF DP!Mounted, DP!ConnectFails, DappTypes
<1>2. CASE DP!Resumed \/ DP!RightCode \/ (DP!Offered /\ ~ DP!OtpRequired)
  BY <1>2, DemoConnects DEF DP!Resumed, DP!RightCode, DP!Offered, DP!ClientConnects
<1>3. CASE DP!ResumeFails
  <2>1. /\ client' \in PageClients /\ client'.state = "disconnected"
        /\ client'.attempt = client.attempt /\ client'.tail = client.tail
        /\ client'.crossed = client.crossed /\ client'.thrown = client.thrown
    BY <1>0, <1>3, ClientGoes DEF DP!ResumeFails, DP!Goes, DappTypes, PageStates
  <2>2. page' \in DemoPages /\ page'.connected = page.connected /\ page'.qr = page.qr
    BY <1>0, <1>3, DemoSays DEF DP!ResumeFails, DP!Says, DappTypes
  <2>3. client.state = "resuming" /\ UNCHANGED <<intervals, timer, clears>>
    BY <1>3 DEF DP!ResumeFails
  <2>4. DappTypes'
    BY <1>0, <2>1, <2>2, <2>3 DEF DappTypes
  <2>5. ClientSound' /\ DP!PageShowsClient'
    BY <2>1, <2>2, <2>3 DEF DemoInv, ClientSound, DP!PageShowsClient, DP!Shows
  <2> QED  BY <2>4, <2>5 DEF DemoInv
<1>4. CASE DP!WrongCode \/ DP!AttemptFails \/ DP!SessionExpires \/ DP!Disconnect
  BY <1>0, <1>4, DemoEnds
  DEF DP!WrongCode, DP!AttemptFails, DP!SessionExpires, DP!Disconnect, DappTypes
<1>5. CASE DP!DisconnectIdle \/ \E t \in intervals : DP!Countdown(t)
  <2>1. page.connected \in BOOLEAN
    BY <1>0 DEF DappTypes, DemoPages
  <2>2. page' \in DemoPages /\ page'.connected = page.connected /\ page'.qr = 0
    BY <1>5, <2>1, DemoReset DEF DP!DisconnectIdle, DP!Countdown, DP!Reset
  <2> QED
    BY <1>0, <1>5, <2>2, DemoSame DEF DP!DisconnectIdle, DP!Countdown, DappTypes, DemoTimers
<1> QED
  BY <1>1, <1>2, <1>3, <1>4, <1>5, DemoConnect, DemoOtpRequired, DemoDisconnected,
     DemoDisconnectFails
  DEF DP!DappStep, DP!Offered

\* A step of the wallet's panel keeps its types; it reads the dApp's request.
LEMMA DemoWalletStep ==
  ASSUME PanelTypes, page \in DemoPages, DP!WalletStep
  PROVE  PanelTypes'
<1> USE DEF PanelTypes
<1>1. CASE DP!WalletResumed \/ DP!WalletConnected \/ DP!WalletEnds
  BY <1>1 DEF DP!WalletResumed, DP!WalletConnected, DP!WalletEnds, DP!WalletGoes, PageStates
<1>2. CASE DP!Scan
  <2> DEFINE q == page.qr
  <2>1. q \in 0 .. MaxAttempts
    BY DEF DemoPages
  <2>2. /\ \/ wallet' = [state |-> "connected", of |-> q] /\ panel' = [panel EXCEPT !.connected = TRUE]
           \/ wallet' = [state |-> "connecting", of |-> q] /\ panel' = [panel EXCEPT !.otp = q]
        /\ pending' = pending
    BY <1>2 DEF DP!Scan
  <2> HIDE DEF q
  <2>3. wallet' \in [state : PageStates, of : 0 .. MaxAttempts]
    <3>1. \E s \in PageStates : wallet' = [state |-> s, of |-> q]
      BY <2>2 DEF PageStates
    <3> QED  BY <2>1, <3>1
  <2>4. panel' \in [connected : BOOLEAN, otp : 0 .. MaxAttempts]
    <3>1. CASE panel' = [panel EXCEPT !.connected = TRUE]
      BY <3>1
    <3>2. CASE panel' = [panel EXCEPT !.otp = q]
      BY <2>1, <3>2
    <3> QED  BY <2>2, <3>1, <3>2
  <2> QED  BY <2>2, <2>3, <2>4
<1>3. CASE DP!WalletDisconnect
  BY <1>3, PagesAssumption DEF DP!WalletDisconnect, DP!WalletGoes, PageStates
<1>4. CASE DP!Requested \/ \E r \in pending : DP!Answer(r)
  BY <1>4 DEF DP!Requested, DP!Answer
<1> QED  BY <1>1, <1>2, <1>3, <1>4 DEF DP!WalletStep

LEMMA DemoStep == DemoInv /\ [DP!Next]_(DP!vars) => DemoInv'
<1> SUFFICES ASSUME DemoInv, [DP!Next]_(DP!vars)  PROVE DemoInv'
  OBVIOUS
<1>1. CASE DP!DappStep /\ UNCHANGED <<mode, DP!walletVars>>
  <2>1. PanelTypes'
    BY <1>1 DEF DP!walletVars, PanelTypes, DemoInv
  <2> QED  BY <1>1, <2>1, DemoDappStep
<1>2. CASE DP!WalletStep /\ UNCHANGED <<mode, DP!dappVars>>
  <2>1. PanelTypes'
    BY <1>2, DemoWalletStep DEF DemoInv, DappTypes
  <2> QED  BY <1>2, <2>1, DemoSame DEF DP!dappVars, DemoInv, DappTypes
<1>3. CASE UNCHANGED DP!vars
  <2>1. PanelTypes'
    BY <1>3 DEF DP!vars, DP!walletVars, PanelTypes, DemoInv
  <2> QED  BY <1>3, <2>1, DemoSame DEF DP!vars, DP!dappVars, DemoInv, DappTypes
<1> QED  BY <1>1, <1>2, <1>3 DEF DP!Next

-----------------------------------------------------------------------------
(* The load test async-delivery *)

\* A session whose task is over has its dApp closed, and its wallet too unless
\* setup or resume() failed; before the dApp's request there is no wallet.
AsyncInv ==
  /\ AD!TypeOK
  /\ \A s \in AD!Ids :
       /\ stage[s] \in {"none", "requesting"} => wallet[s] = "off"
       /\ stage[s] = "over" =>
            /\ dapp[s] = "closed"
            /\ wallet[s] = "open" => outcome[s] \in {"not set up", "not resumed"}
  /\ phase = "done" => \A s \in AD!Ids : stage[s] = "over"

LEMMA AsyncInit == AD!Init => AsyncInv
BY DEF AD!Init, AsyncInv, AD!TypeOK

\* A session goes on, and nothing else changes.
LEMMA AsyncGoes ==
  ASSUME AsyncInv, AD!Running, NEW s \in AD!Ids, NEW p \in {"parting", "waiting", "closing"},
         stage[s] \notin {"none", "requesting"}, AD!To(s, p),
         UNCHANGED <<phase, dapp, wallet, kept, message, outcome>>
  PROVE  AsyncInv'
<1>1. /\ stage' \in [AD!Ids -> {"none", "requesting", "pairing", "parting", "asking", "ready",
                               "resuming", "waiting", "closing", "over"}]
      /\ \A r \in AD!Ids : stage'[r] \in {p, stage[r]}
  BY DEF AsyncInv, AD!TypeOK, AD!To
<1>2. AD!TypeOK'
  BY <1>1 DEF AsyncInv, AD!TypeOK
<1>3. phase' # "done"
  BY DEF AD!Running
<1> QED  BY <1>1, <1>2, <1>3 DEF AsyncInv

LEMMA AsyncStep == AsyncInv /\ [AD!Next]_(AD!vars) => AsyncInv'
<1> SUFFICES ASSUME AsyncInv, [AD!Next]_(AD!vars)  PROVE AsyncInv'
  OBVIOUS
<1> USE DEF AsyncInv, AD!TypeOK
<1>1. CASE AD!Running /\ AD!Pause
  BY <1>1 DEF AD!Pause
<1>2. CASE AD!Running /\ AD!Report
  BY <1>2 DEF AD!Report
<1>3. ASSUME NEW s \in AD!Ids, AD!Running, AD!Step(s)  PROVE AsyncInv'
  <2>1. CASE AD!Start(s)
    BY <1>3, <2>1 DEF AD!Start, AD!To, AD!Running
  <2>2. CASE AD!Requested(s)
    BY <1>3, <2>2 DEF AD!Requested, AD!To, AD!Running
  <2>3. CASE AD!DappRejects(s)
    BY <1>3, <2>3 DEF AD!DappRejects
  <2>4. CASE AD!Paired(s) \/ AD!Resumed(s) \/ AD!Succeeds(s)
    BY <1>3, <2>4, AsyncGoes DEF AD!Paired, AD!Resumed, AD!Succeeds
  <2>5. CASE AD!Parted(s)
    BY <1>3, <2>5 DEF AD!Parted, AD!To, AD!Running
  <2>6. CASE AD!Asked(s)
    BY <1>3, <2>6 DEF AD!Asked, AD!To, AD!Running
  <2>7. CASE AD!SetupFails(s)
    BY <1>3, <2>7 DEF AD!SetupFails, AD!To, AD!Running
  <2>8. CASE AD!Recover(s)
    BY <1>3, <2>8 DEF AD!Recover, AD!To, AD!Running
  <2>9. CASE AD!Hears(s) \/ AD!TimesOut(s)
    BY <1>3, <2>9 DEF AD!Hears, AD!TimesOut, AD!Running
  <2>10. CASE AD!Closed(s) \/ AD!GivesUp(s)
    <3>1. /\ stage' = [stage EXCEPT ![s] = "over"] /\ stage[s] \in {"closing", "waiting"}
          /\ wallet' = [wallet EXCEPT ![s] = "closed"] /\ dapp' = [dapp EXCEPT ![s] = "closed"]
          /\ \E o \in {"received", "not received"} : outcome' = [outcome EXCEPT ![s] = o]
          /\ UNCHANGED <<phase, kept, message>>
      BY <2>10 DEF AD!Closed, AD!GivesUp, AD!To
    <3>2. PICK o \in {"received", "not received"} : outcome' = [outcome EXCEPT ![s] = o]
      BY <3>1
    <3>3. AD!TypeOK'
      <4>1. /\ phase' \in {"setup", "recovery", "done", "dead"} /\ kept' \in [AD!Ids -> BOOLEAN]
            /\ message' \in [AD!Ids -> {"none", "awaited", "received", "late"}]
        BY <3>1
      <4>2. /\ dapp' \in [AD!Ids -> {"off", "open", "closed"}]
            /\ wallet' \in [AD!Ids -> {"off", "open", "gone", "closed"}]
        BY <3>1
      <4>3. stage' \in [AD!Ids -> {"none", "requesting", "pairing", "parting", "asking", "ready",
                                  "resuming", "waiting", "closing", "over"}]
        BY <3>1
      <4>4. outcome' \in [AD!Ids -> {"none", "not requested", "not set up", "not resumed",
                                    "received", "not received"}]
        BY <3>2
      <4> QED  BY <4>1, <4>2, <4>3, <4>4
    <3>4. phase' # "done"
      BY <1>3, <3>1 DEF AD!Running
    <3>5. ASSUME NEW r \in AD!Ids
          PROVE  /\ stage'[r] \in {"none", "requesting"} => wallet'[r] = "off"
                 /\ stage'[r] = "over" =>
                      /\ dapp'[r] = "closed"
                      /\ wallet'[r] = "open" => outcome'[r] \in {"not set up", "not resumed"}
      <4>1. CASE r = s
        BY <3>1, <4>1
      <4>2. CASE r # s
        BY <3>1, <3>2, <4>2
      <4> QED  BY <4>1, <4>2
    <3> QED  BY <3>3, <3>4, <3>5
  <2>11. CASE AD!ResumeFails(s)
    BY <1>3, <2>11 DEF AD!ResumeFails, AD!To, AD!Running
  <2> QED
    BY <1>3, <2>1, <2>2, <2>3, <2>4, <2>5, <2>6, <2>7, <2>8, <2>9, <2>10, <2>11 DEF AD!Step
<1>4. CASE UNCHANGED AD!vars
  BY <1>4 DEF AD!vars
<1> QED  BY <1>1, <1>2, <1>3, <1>4 DEF AD!Next

LEMMA AsyncClosed == AsyncInv => AD!ClosedAtTheEnd
BY DEF AsyncInv, AD!ClosedAtTheEnd

-----------------------------------------------------------------------------
(* The load tests connection-storm and steady-state *)

\* The connections that have come about, those of them that are up, and how
\* many are lost.
Made == {c \in LC!Ids : result[c] \in {"immediate", "recovered"}}
Up   == {c \in LC!Ids : link[c] = "up"}
Lost == Cardinality(Made) - Cardinality(Up)

Heldings == [before : 0 .. Clients, peak : 0 .. Clients, reconnects : Nat, final : 0 .. Clients]
Facts    == [returns : 0 .. MaxReturns, worst : 0 .. Clients]

\* connect() of a client has resolved when its first dialing is over; no client
\* waits for it when the ramp is over.
Resolved ==
  /\ \A c \in LC!Ids :
       /\ result[c] = "none" <=> link[c] \in {"none", "dialing"}
       /\ result[c] = "failed" => link[c] = "closed"
       /\ test.phase # "ramp" => result[c] # "none"
       /\ test.phase = "ramp" /\ c > opened => link[c] = "none"
       /\ test.phase = "done" => link[c] = "closed"

\* What is counted, and what the next sample may add to it.
Counted ==
  /\ test.phase = "ramp" => held.before = 0 /\ held.reconnects = 0
  /\ test.phase = "hold" => Lost <= fact.worst /\ held.reconnects + held.before - Lost <= fact.returns
  /\ LC!CountsNoMore

ClientsInv == LC!TypeOK /\ Resolved /\ Counted

LEMMA LostCounts ==
  ASSUME NEW made \in SUBSET LC!Ids, NEW up \in SUBSET made
  PROVE  /\ IsFiniteSet(up) /\ Cardinality(made) - Cardinality(up) \in 0 .. Clients
         /\ \A c : c \notin up => Cardinality(up \union {c}) = Cardinality(up) + 1
         /\ \A c \in up : Cardinality(up \ {c}) = Cardinality(up) - 1
<1>1. IsFiniteSet(LC!Ids) /\ Cardinality(LC!Ids) = Clients
  BY FS_Interval, TestsAssumption DEF LC!Ids
<1>2. IsFiniteSet(made) /\ Cardinality(made) <= Clients /\ Cardinality(made) \in Nat
  BY <1>1, FS_Subset, FS_CardinalityType
<1>3. IsFiniteSet(up) /\ Cardinality(up) <= Cardinality(made) /\ Cardinality(up) \in Nat
  BY <1>2, FS_Subset, FS_CardinalityType
<1>4. Cardinality(made) - Cardinality(up) \in 0 .. Clients
  BY <1>2, <1>3, TestsAssumption
<1>5. \A c : c \notin up => Cardinality(up \union {c}) = Cardinality(up) + 1
  BY <1>3, FS_AddElement
<1>6. \A c \in up : Cardinality(up \ {c}) = Cardinality(up) - 1
  BY <1>3, FS_RemoveElement
<1> QED  BY <1>3, <1>4, <1>5, <1>6

LEMMA SameCardinality == ASSUME NEW S  PROVE LC!Cardinality(S) = Cardinality(S)
BY DEF LC!Cardinality, Cardinality

LEMMA LostIsLost ==
  /\ LC!LostAmong(link) = Lost
  /\ result' = result => LC!LostAmong(link') = Lost'
<1>1. LC!LostAmong(link) = Lost
  BY SameCardinality DEF LC!LostAmong, LC!With, Lost, Made, Up
<1>2. ASSUME result' = result  PROVE LC!LostAmong(link') = Lost'
  <2>1. Made' = Made
    BY <1>2 DEF Made
  <2>2. Lost' = Cardinality(Made) - Cardinality(Up')
    BY <2>1 DEF Lost
  <2>3. LC!LostAmong(link') = Cardinality(Made) - Cardinality({c \in LC!Ids : link'[c] = "up"})
    BY SameCardinality DEF LC!LostAmong, LC!With, Made
  <2> QED  BY <2>2, <2>3 DEF Up
<1> QED  BY <1>1, <1>2

LEMMA LostInRange == ClientsInv => Up \subseteq Made /\ Made \subseteq LC!Ids /\ Lost \in 0 .. Clients
<1> SUFFICES ASSUME ClientsInv
             PROVE  Up \subseteq Made /\ Made \subseteq LC!Ids /\ Lost \in 0 .. Clients
  OBVIOUS
<1>1. Up \subseteq Made /\ Made \subseteq LC!Ids
  BY DEF ClientsInv, LC!TypeOK, LC!Results, Resolved, Up, Made
<1> QED  BY <1>1, LostCounts DEF Lost

LEMMA ClientsInit == LC!Init => ClientsInv
<1> SUFFICES ASSUME LC!Init  PROVE ClientsInv
  OBVIOUS
<1>1. test.name \in {"connection-storm", "steady-state"} /\ test.phase = "ramp" /\ LC!TypeOK
  BY TestsAssumption DEF LC!Init, LC!TypeOK, LC!Nothing
<1>2. Resolved
  BY <1>1 DEF LC!Init, Resolved
<1>3. Counted
  BY <1>1 DEF LC!Init, LC!Nothing, Counted, LC!CountsNoMore
<1> QED  BY <1>1, <1>2, <1>3 DEF ClientsInv

\* The shapes in which the counts change.
LEMMA FactShapes ==
  ASSUME fact \in Facts, NEW n
  PROVE  /\ fact' = [fact EXCEPT !.returns = n] /\ n \in 0 .. MaxReturns =>
              fact' \in Facts /\ fact'.returns = n /\ fact'.worst = fact.worst
         /\ fact' = [fact EXCEPT !.worst = n] /\ n \in 0 .. Clients =>
              fact' \in Facts /\ fact'.returns = fact.returns /\ fact'.worst = n
BY DEF Facts

\* A client's connection changes, or its connect() resolves.
LEMMA LinkChanges ==
  ASSUME ClientsInv, NEW c \in LC!Ids, NEW l \in {"dialing", "up", "lost", "closed"},
         NEW r \in {"none", "immediate", "recovered", "failed"},
         link' = [link EXCEPT ![c] = l], result' = [result EXCEPT ![c] = r],
         UNCHANGED <<test, opened>>,
         link[c] # "none", link[c] # "closed", l # "dialing", r # "none",
         result[c] \in {"none", r},
         r = "failed" => l = "closed"
  PROVE  /\ link' \in [LC!Ids -> {"none", "dialing", "up", "lost", "closed"}]
         /\ result' \in [LC!Ids -> LC!Results \union {"none"}]
         /\ Resolved'
<1> USE DEF ClientsInv, LC!TypeOK
<1>1. /\ link' \in [LC!Ids -> {"none", "dialing", "up", "lost", "closed"}]
      /\ result' \in [LC!Ids -> LC!Results \union {"none"}]
  BY DEF LC!Results
<1>2. ASSUME NEW d \in LC!Ids
      PROVE  /\ result'[d] = "none" <=> link'[d] \in {"none", "dialing"}
             /\ result'[d] = "failed" => link'[d] = "closed"
             /\ test'.phase # "ramp" => result'[d] # "none"
             /\ test'.phase = "ramp" /\ d > opened' => link'[d] = "none"
             /\ test'.phase = "done" => link'[d] = "closed"
  <2>1. CASE d = c
    BY <2>1 DEF Resolved
  <2>2. CASE d # c
    BY <2>2 DEF Resolved
  <2> QED  BY <2>1, <2>2
<1> QED  BY <1>1, <1>2 DEF Resolved

LEMMA ClientsConnected ==
  ASSUME ClientsInv, NEW c \in LC!Ids, LC!Connected(c)
  PROVE  ClientsInv'
<1> DEFINE r == IF result[c] # "none" THEN result[c] ELSE IF erred[c] THEN "recovered" ELSE "immediate"
           n == IF test.phase = "hold" THEN fact.returns + 1 ELSE fact.returns
<1>1. /\ link[c] \in {"dialing", "lost"} /\ r \in {"immediate", "recovered"}
      /\ result[c] \in {"none", r}
      /\ test.phase = "hold" => link[c] = "lost" /\ r = result[c]
  BY DEF LC!Connected, ClientsInv, LC!TypeOK, LC!Results, Resolved
<1>2. n \in 0 .. MaxReturns
  BY <1>1, TestsAssumption DEF LC!Connected, ClientsInv, LC!TypeOK
<1>3. /\ link' = [link EXCEPT ![c] = "up"] /\ result' = [result EXCEPT ![c] = r]
      /\ fact' = [fact EXCEPT !.returns = n] /\ UNCHANGED <<test, opened, erred, held>>
  BY DEF LC!Connected, ClientsInv, LC!TypeOK, Facts
<1> HIDE DEF r
<1>4. fact \in Facts
  BY DEF ClientsInv, LC!TypeOK, Facts
<1>5. fact' \in Facts /\ fact'.returns = n /\ fact'.worst = fact.worst
  <2> HIDE DEF n
  <2> QED  BY <1>2, <1>3, <1>4, FactShapes
<1>6. /\ link' \in [LC!Ids -> {"none", "dialing", "up", "lost", "closed"}]
      /\ result' \in [LC!Ids -> LC!Results \union {"none"}]
      /\ Resolved'
  BY <1>1, <1>3, LinkChanges
<1>7. LC!TypeOK'
  BY <1>3, <1>5, <1>6 DEF ClientsInv, LC!TypeOK, Facts
<1>8. CASE test.phase = "hold"
  <2>1. result' = result
    BY <1>1, <1>3, <1>8 DEF ClientsInv, LC!TypeOK
  <2>2. Made' = Made /\ Up' = Up \union {c} /\ c \notin Up
    BY <1>1, <1>3, <1>8, <2>1 DEF Made, Up, ClientsInv, LC!TypeOK
  <2>3. Cardinality(Up') = Cardinality(Up) + 1 /\ Lost \in 0 .. Clients
    BY <2>2, LostInRange, LostCounts
  <2>4. Cardinality(Up) \in Nat /\ Cardinality(Made) \in Nat
    BY LostInRange, LostCounts, FS_CardinalityType, FS_Subset, FS_Interval, TestsAssumption DEF LC!Ids
  <2>5. Lost' = Lost - 1
    BY <2>2, <2>3, <2>4 DEF Lost
  <2> QED
    BY <1>3, <1>4, <1>5, <1>6, <1>7, <1>8, <2>3, <2>5, TestsAssumption
    DEF ClientsInv, Counted, LC!CountsNoMore, LC!TypeOK, Facts, Heldings
<1>9. CASE test.phase # "hold"
  BY <1>3, <1>4, <1>5, <1>6, <1>7, <1>9 DEF ClientsInv, Counted, LC!CountsNoMore
<1> QED  BY <1>8, <1>9

LEMMA ClientsLose ==
  ASSUME ClientsInv, NEW c \in LC!Ids, LC!Lose(c)
  PROVE  ClientsInv'
<1> DEFINE w == LC!Worst(link', test.phase = "hold")
<1>1. /\ link[c] = "up" /\ link' = [link EXCEPT ![c] = "lost"]
      /\ fact' = [fact EXCEPT !.worst = w] /\ UNCHANGED <<test, opened, erred, result, held>>
  BY DEF LC!Lose
<1>2. /\ result[c] \in {"immediate", "recovered"} /\ result' = [result EXCEPT ![c] = result[c]]
      /\ fact \in Facts
  BY <1>1 DEF ClientsInv, LC!TypeOK, LC!Results, Resolved, Facts
<1>3. /\ link' \in [LC!Ids -> {"none", "dialing", "up", "lost", "closed"}]
      /\ result' \in [LC!Ids -> LC!Results \union {"none"}]
      /\ Resolved'
  BY <1>1, <1>2, LinkChanges
<1>4. Made' = Made /\ Up' = Up \ {c} /\ c \in Up /\ c \in Made
  BY <1>1, <1>2 DEF Made, Up, ClientsInv, LC!TypeOK
<1>5. /\ Cardinality(Up) \in Nat /\ Cardinality(Made) \in Nat
      /\ Cardinality(Up') = Cardinality(Up) - 1 /\ Lost \in 0 .. Clients
  BY <1>4, LostInRange, LostCounts, FS_CardinalityType, FS_Subset, FS_Interval, TestsAssumption
  DEF LC!Ids
<1>6. Lost' = Lost + 1
  BY <1>4, <1>5 DEF Lost
<1>7. Lost' \in 0 .. Clients
  <2>1. Made \in SUBSET LC!Ids /\ Up' \in SUBSET Made
    BY <1>4, LostInRange
  <2> QED  BY <1>4, <2>1, LostCounts DEF Lost
<1>8. /\ w \in 0 .. Clients /\ fact.worst <= w
      /\ test.phase = "hold" => Lost' <= w
      /\ test.phase # "hold" => w = fact.worst
  BY <1>1, <1>2, <1>7, LostIsLost, TestsAssumption DEF LC!Worst, Facts
<1> HIDE DEF w
<1>9. fact' \in Facts /\ fact'.returns = fact.returns /\ fact'.worst = w
  BY <1>1, <1>2, <1>8, FactShapes
<1>10. LC!TypeOK'
  BY <1>1, <1>3, <1>9 DEF ClientsInv, LC!TypeOK, Facts
<1>11. Counted'
  BY <1>1, <1>2, <1>5, <1>6, <1>8, <1>9, TestsAssumption
  DEF ClientsInv, Counted, LC!CountsNoMore, LC!TypeOK, Facts
<1> QED  BY <1>3, <1>10, <1>11 DEF ClientsInv

\* The ramp: clients are opened, err and time out.
LEMMA ClientsOpen == ClientsInv /\ LC!Open => ClientsInv'
<1> SUFFICES ASSUME ClientsInv, LC!Open  PROVE ClientsInv'
  OBVIOUS
<1> DEFINE o == opened + 1
<1>1. o \in LC!Ids /\ o \in 0 .. Clients /\ o > opened
  BY TestsAssumption DEF LC!Open, ClientsInv, LC!TypeOK, LC!Ids
<1>2. /\ test.phase = "ramp" /\ opened' = o /\ link' = [link EXCEPT ![o] = "dialing"]
      /\ UNCHANGED <<test, erred, result, held, fact>>
  BY DEF LC!Open
<1>3. \A c \in LC!Ids : c > o => c > opened
  BY TestsAssumption DEF ClientsInv, LC!TypeOK, LC!Ids
<1> HIDE DEF o
<1>4. LC!TypeOK'
  BY <1>1, <1>2 DEF ClientsInv, LC!TypeOK
<1>5. link[o] = "none" /\ result[o] = "none" /\ ~ o > o
  BY <1>1, <1>2, TestsAssumption DEF ClientsInv, Resolved
<1>6. Resolved'
  BY <1>1, <1>2, <1>3, <1>5 DEF ClientsInv, LC!TypeOK, Resolved
<1>7. Counted'
  BY <1>2 DEF ClientsInv, Counted, LC!CountsNoMore
<1> QED  BY <1>4, <1>6, <1>7 DEF ClientsInv

LEMMA ClientsTimesOut ==
  ASSUME ClientsInv, NEW c \in LC!Ids, LC!TimesOut(c)
  PROVE  ClientsInv'
<1>1. /\ link[c] = "dialing" /\ link' = [link EXCEPT ![c] = "closed"]
      /\ result' = [result EXCEPT ![c] = "failed"] /\ UNCHANGED <<test, opened, erred, held, fact>>
  BY DEF LC!TimesOut
<1>2. result[c] = "none" /\ test.phase = "ramp"
  BY <1>1 DEF ClientsInv, LC!TypeOK, Resolved
<1>3. /\ link' \in [LC!Ids -> {"none", "dialing", "up", "lost", "closed"}]
      /\ result' \in [LC!Ids -> LC!Results \union {"none"}]
      /\ Resolved'
  BY <1>1, <1>2, LinkChanges
<1>4. LC!TypeOK' /\ Counted'
  BY <1>1, <1>2, <1>3 DEF ClientsInv, LC!TypeOK, Counted, LC!CountsNoMore
<1> QED  BY <1>3, <1>4 DEF ClientsInv

\* Every connect() has resolved: what is lost now is the first worst of the hold.
LEMMA ClientsRampEnds == ClientsInv /\ LC!RampEnds => ClientsInv'
<1> SUFFICES ASSUME ClientsInv, LC!RampEnds  PROVE ClientsInv'
  OBVIOUS
<1> DEFINE to == IF test.name = "connection-storm" THEN "closing"
                 ELSE IF LC!With({"failed"}) = LC!Ids THEN "done" ELSE "hold"
           w == LC!Worst(link, test'.phase = "hold")
<1>1. /\ test.phase = "ramp" /\ opened = Clients /\ LC!With({"none"}) = {}
      /\ test' = [test EXCEPT !.phase = to] /\ fact' = [fact EXCEPT !.worst = w]
      /\ UNCHANGED <<opened, link, erred, result, held>>
  BY DEF LC!RampEnds, LC!Goes
<1>2. /\ to \in {"closing", "done", "hold"}
      /\ to = "done" => \A c \in LC!Ids : result[c] = "failed"
      /\ \A c \in LC!Ids : result[c] # "none"
  BY <1>1 DEF LC!With
<1> HIDE DEF to
<1>3. /\ test' \in [name : {"connection-storm", "steady-state"},
                    phase : {"ramp", "hold", "closing", "done"}]
      /\ test'.phase = to
  BY <1>1, <1>2 DEF ClientsInv, LC!TypeOK
<1>4. Lost \in 0 .. Clients /\ Lost' = Lost /\ fact \in Facts
  BY <1>1, LostInRange DEF Lost, Made, Up, ClientsInv, LC!TypeOK, Facts
<1>5. w \in 0 .. Clients /\ fact.worst <= w /\ (to = "hold" => Lost <= w)
  BY <1>3, <1>4, LostIsLost, TestsAssumption DEF LC!Worst, Facts
<1> HIDE DEF w
<1>6. fact' \in Facts /\ fact'.returns = fact.returns /\ fact'.worst = w
  BY <1>1, <1>4, <1>5, FactShapes
<1>7. LC!TypeOK'
  BY <1>1, <1>3, <1>6 DEF ClientsInv, LC!TypeOK, Facts
<1>8. Resolved'
  BY <1>1, <1>2, <1>3 DEF ClientsInv, Resolved
<1>9. Counted'
  <2>1. held.before = 0 /\ held.reconnects = 0 /\ fact.returns \in Nat /\ w \in Nat
        /\ held.peak <= fact.worst /\ held.peak \in Nat /\ fact.worst \in Nat
    BY <1>1, <1>4, <1>5, TestsAssumption DEF ClientsInv, Counted, LC!CountsNoMore, Facts, LC!TypeOK
  <2> QED
    BY <1>1, <1>2, <1>3, <1>4, <1>5, <1>6, <2>1 DEF Counted, LC!CountsNoMore
<1> QED  BY <1>7, <1>8, <1>9 DEF ClientsInv

\* A sample: what has come back since the last one is counted.
LEMMA ClientsSample == ClientsInv /\ LC!Sample => ClientsInv'
<1> SUFFICES ASSUME ClientsInv, LC!Sample  PROVE ClientsInv'
  OBVIOUS
<1> DEFINE p == IF Lost > held.peak THEN Lost ELSE held.peak
           r == IF Lost < held.before THEN held.reconnects + (held.before - Lost) ELSE held.reconnects
<1>0. held \in Heldings /\ fact \in Facts /\ Lost \in 0 .. Clients
  BY LostInRange DEF ClientsInv, LC!TypeOK, Heldings, Facts
<1>1. /\ test.phase = "hold" /\ held' = [held EXCEPT !.peak = p, !.reconnects = r, !.before = Lost]
      /\ UNCHANGED <<test, opened, link, erred, result, fact>>
  BY <1>0, LostIsLost DEF LC!Sample, Heldings
<1>2. p \in 0 .. Clients /\ r \in Nat
  BY <1>0, TestsAssumption DEF Heldings
<1>3. p <= fact.worst /\ r <= fact.returns /\ Lost <= fact.worst
  BY <1>0, <1>1, TestsAssumption DEF ClientsInv, Counted, LC!CountsNoMore, Heldings, Facts
<1> HIDE DEF p, r
<1>4. held' \in Heldings /\ held'.peak = p /\ held'.reconnects = r /\ held'.before = Lost
  <2> DEFINE l == Lost
  <2>1. l \in 0 .. Clients /\ held' = [held EXCEPT !.peak = p, !.reconnects = r, !.before = l]
    BY <1>0, <1>1
  <2> HIDE DEF l
  <2>2. held' \in Heldings /\ held'.peak = p /\ held'.reconnects = r /\ held'.before = l
    BY <1>0, <1>2, <2>1 DEF Heldings
  <2> QED  BY <2>2 DEF l
<1>5. Lost' = Lost
  BY <1>1 DEF Lost, Made, Up
<1>6. LC!TypeOK' /\ Resolved'
  BY <1>1, <1>4 DEF ClientsInv, LC!TypeOK, Heldings, Resolved
<1>7. Counted'
  BY <1>0, <1>1, <1>2, <1>3, <1>4, <1>5, TestsAssumption DEF Counted, LC!CountsNoMore, Facts
<1> QED  BY <1>6, <1>7 DEF ClientsInv

\* The hold ends, and the test.
LEMMA ClientsEnd == ClientsInv /\ (LC!HoldEnds \/ LC!Close) => ClientsInv'
<1> SUFFICES ASSUME ClientsInv, LC!HoldEnds \/ LC!Close  PROVE ClientsInv'
  OBVIOUS
<1>1. \A s \in {"closing", "done"} : test' = [test EXCEPT !.phase = s] =>
        /\ test' \in [name : {"connection-storm", "steady-state"},
                      phase : {"ramp", "hold", "closing", "done"}]
        /\ test'.phase = s
  BY DEF ClientsInv, LC!TypeOK
<1>2. CASE LC!HoldEnds
  <2> DEFINE f == LC!LostAmong(link)
  <2>1. /\ test.phase = "hold" /\ test' = [test EXCEPT !.phase = "closing"]
        /\ held' = [held EXCEPT !.final = f] /\ UNCHANGED <<opened, link, erred, result, fact>>
    BY <1>2 DEF LC!HoldEnds, LC!Goes
  <2>2. f \in 0 .. Clients /\ held \in Heldings
    BY LostIsLost, LostInRange DEF ClientsInv, LC!TypeOK, Heldings
  <2> HIDE DEF f
  <2>3. held' \in Heldings /\ held'.reconnects = held.reconnects /\ held'.peak = held.peak
    BY <2>1, <2>2 DEF Heldings
  <2>4. LC!TypeOK' /\ Resolved'
    BY <1>1, <2>1, <2>3 DEF ClientsInv, LC!TypeOK, Heldings, Resolved
  <2>5. Counted'
    BY <1>1, <2>1, <2>3 DEF ClientsInv, Counted, LC!CountsNoMore
  <2> QED  BY <2>4, <2>5 DEF ClientsInv
<1>3. CASE LC!Close
  <2>1. /\ test.phase = "closing" /\ test' = [test EXCEPT !.phase = "done"]
        /\ link' = [c \in LC!Ids |-> "closed"] /\ UNCHANGED <<opened, erred, result, held, fact>>
    BY <1>3 DEF LC!Close, LC!Goes
  <2>2. LC!TypeOK' /\ Resolved'
    BY <1>1, <2>1 DEF ClientsInv, LC!TypeOK, Resolved
  <2>3. Counted'
    BY <1>1, <2>1 DEF ClientsInv, Counted, LC!CountsNoMore
  <2> QED  BY <2>2, <2>3 DEF ClientsInv
<1> QED  BY <1>2, <1>3

LEMMA ClientsStep == ClientsInv /\ [LC!Next]_(LC!vars) => ClientsInv'
<1> SUFFICES ASSUME ClientsInv, [LC!Next]_(LC!vars)  PROVE ClientsInv'
  OBVIOUS
<1>1. ASSUME NEW c \in LC!Ids, LC!Errs(c)  PROVE ClientsInv'
  <2>1. Lost' = Lost
    BY <1>1 DEF LC!Errs, Lost, Made, Up
  <2> QED
    BY <1>1, <2>1 DEF LC!Errs, ClientsInv, LC!TypeOK, Resolved, Counted, LC!CountsNoMore
<1>2. CASE UNCHANGED LC!vars
  <2>1. Lost' = Lost
    BY <1>2 DEF LC!vars, Lost, Made, Up
  <2> QED
    BY <1>2, <2>1 DEF LC!vars, ClientsInv, LC!TypeOK, Resolved, Counted, LC!CountsNoMore
<1> QED
  BY <1>1, <1>2, ClientsOpen, ClientsRampEnds, ClientsSample, ClientsEnd, ClientsConnected,
     ClientsTimesOut, ClientsLose
  DEF LC!Next

LEMMA ClientsClosed == ClientsInv => LC!NothingLeftOpen
BY DEF ClientsInv, Resolved, LC!NothingLeftOpen

-----------------------------------------------------------------------------
(* The load tests of session pairs *)

PairStages == {"none", "scan", "joining", "buffer", "sending", "waiting", "pause", "over", "dropped"}
Marks ==
  [at : {"none", "open", "late", "answering", "answered", "failed", "heard"}, id : 0 .. Messages]
Verdicts == {"none", "ok", "mismatch", "failed"}

\* One pair: its stage s and exchange r, what the listeners of its wallet and of
\* its dApp have come to (w and d), the exchanges nobody attends to (l), the
\* requests and the responses under way (tw and td) and the verdicts (v).
PairTyped(s, r, w, d, l, tw, td, v) ==
  /\ s \in PairStages /\ r \in 0 .. Messages
  /\ w \in [LP!Rounds -> Marks] /\ d \in [LP!Rounds -> Marks] /\ l \subseteq LP!Rounds
  /\ tw \in Seq(LP!Rounds) /\ td \in Seq(LP!Rounds) /\ v \in [LP!Rounds -> Verdicts]
  /\ s \in {"none", "scan", "joining"} => r = 0
  /\ s \in {"buffer", "sending", "waiting", "pause"} => r # 0

\* While every request of the pair could be sent, only the exchange under way
\* listens, and a request is under way or heard once.
HeardOnce(s, r, w, d, l, tw) ==
  /\ \A k \in LP!Rounds : d[k].at = "late" => w[k].at # "open"
  /\ l = {} =>
       /\ \A k \in LP!Rounds :
            /\ w[k].at = "open" => k = r /\ s \in {"sending", "waiting"}
            /\ w[k].id <= r /\ (s \in {"buffer", "sending"} => w[k].id # r)
            /\ \A j \in LP!Rounds : j # k /\ w[j].id # 0 => w[j].id # w[k].id
            /\ \A i \in 1 .. Len(tw) : tw[i] # w[k].id
       /\ \A i \in 1 .. Len(tw) :
            /\ tw[i] <= r /\ (s \in {"buffer", "sending"} => tw[i] # r)
            /\ \A j \in 1 .. Len(tw) : tw[i] = tw[j] => i = j

\* The exchanges that have returned.
Returned(s, r) == {k \in LP!Rounds : k < r \/ (k = r /\ s \in {"pause", "over", "dropped"})}

\* An exchange that waits cannot succeed any more, or its request is under way,
\* is being answered, its response is under way, or has come.
Awaits(r, w, d, tw, td) ==
  \/ w[r].at \in {"late", "failed"} \/ d[r].at = "late"
  \/ w[r].at = "open" /\ d[r].at = "open" /\ tw = <<r>> /\ td = <<>>
  \/ w[r].at = "answering" /\ w[r].id = r /\ d[r].at = "open" /\ tw = <<>> /\ td = <<>>
  \/ w[r].at = "answered" /\ w[r].id = r /\ d[r].at = "open" /\ tw = <<>> /\ td = <<r>>
  \/ w[r].at = "answered" /\ w[r].id = r /\ d[r].at = "heard" /\ d[r].id = r /\ tw = <<>> /\ td = <<>>

\* Until an exchange fails, those that have returned have heard both messages,
\* and nothing is under way but of the exchange that waits.
InStep(s, r, w, d, tw, td) ==
  /\ \A k \in LP!Rounds :
       IF k \in Returned(s, r) THEN w[k].at = "answered" /\ d[k].at = "heard"
       ELSE (k = r /\ s \in {"sending", "waiting"}) \/ (w[k].at = "none" /\ d[k].at = "none")
  /\ s # "waiting" => tw = <<>> /\ td = <<>>
  /\ s = "sending" => w[r].at \in {"open", "late"} /\ d[r].at \in {"open", "late"}
  /\ s = "waiting" => Awaits(r, w, d, tw, td)

Matches(s, r, w, d, tw, td, v) ==
  /\ \A k \in LP!Rounds :
       /\ v[k] # "none" => k \in Returned(s, r)
       /\ v[k] \in {"ok", "mismatch"} =>
            /\ w[k].at = "answered"
            /\ (v[k] = "ok" /\ w[k].id = k) \/ \E j \in 1 .. k - 1 : v[j] = "failed"
  /\ (\A k \in LP!Rounds : v[k] # "failed") => InStep(s, r, w, d, tw, td)

PairSound(s, r, w, d, l, tw, td, v) ==
  /\ PairTyped(s, r, w, d, l, tw, td, v)
  /\ HeardOnce(s, r, w, d, l, tw)
  /\ Matches(s, r, w, d, tw, td, v)

\* Facts about sequences and marks.
LEMMA TailOf ==
  ASSUME NEW T, NEW q \in Seq(T), q # <<>>
  PROVE  /\ Tail(q) \in Seq(T) /\ Len(Tail(q)) = Len(q) - 1 /\ Head(q) \in T /\ Head(q) = q[1]
         /\ Len(q) \in Nat \ {0}
         /\ \A i \in 1 .. Len(Tail(q)) : Tail(q)[i] = q[i + 1] /\ i + 1 \in 1 .. Len(q)
OBVIOUS

LEMMA AppendTo ==
  ASSUME NEW T, NEW q \in Seq(T), NEW x \in T
  PROVE  /\ Append(q, x) \in Seq(T) /\ Len(Append(q, x)) = Len(q) + 1 /\ Len(q) \in Nat
         /\ \A i \in 1 .. Len(q) + 1 : Append(q, x)[i] = IF i = Len(q) + 1 THEN x ELSE q[i]
         /\ q = <<>> => Append(q, x) = <<x>>
<1>1. /\ Append(q, x) \in Seq(T) /\ Len(Append(q, x)) = Len(q) + 1 /\ Len(q) \in Nat
      /\ \A i \in 1 .. Len(q) + 1 : Append(q, x)[i] = IF i = Len(q) + 1 THEN x ELSE q[i]
  OBVIOUS
<1>2. Append(<<>>, x) = <<x>>
  OBVIOUS
<1> QED  BY <1>1, <1>2

LEMMA OneMessage == ASSUME NEW x  PROVE Head(<<x>>) = x /\ Tail(<<x>>) = <<>> /\ <<x>> # <<>>
OBVIOUS

LEMMA MarkIs ==
  ASSUME NEW a \in {"none", "open", "late", "answering", "answered", "failed", "heard"},
         NEW i \in 0 .. Messages
  PROVE  /\ [at |-> a, id |-> i] \in Marks
         /\ [at |-> a, id |-> i].at = a /\ [at |-> a, id |-> i].id = i
BY DEF Marks

LEMMA IdsAreNumbers ==
  ASSUME NEW s, NEW r, NEW w, NEW d, NEW l, NEW tw, NEW td, NEW v,
         PairTyped(s, r, w, d, l, tw, td, v)
  PROVE  /\ \A k \in LP!Rounds : w[k].id \in Nat
         /\ \A i \in 1 .. Len(tw) : tw[i] \in Nat
<1>1. ASSUME NEW k \in LP!Rounds  PROVE w[k].id \in Nat
  <2>1. w[k] \in Marks
    BY DEF PairTyped
  <2> QED  BY <2>1, TestsAssumption DEF Marks
<1>2. ASSUME NEW i \in 1 .. Len(tw)  PROVE tw[i] \in Nat
  <2>1. tw[i] \in LP!Rounds
    BY DEF PairTyped
  <2> QED  BY <2>1, TestsAssumption DEF LP!Rounds
<1> QED  BY <1>1, <1>2

\* The wallet hears a request.
LEMMA SoundWalletHears ==
  ASSUME NEW s, NEW r, NEW w, NEW d, NEW l, NEW tw, NEW td, NEW v,
         PairSound(s, r, w, d, l, tw, td, v), tw # <<>>,
         NEW x, x = [k \in LP!Rounds |->
                       IF w[k].at = "open" THEN [at |-> "answering", id |-> Head(tw)] ELSE w[k]]
  PROVE  PairSound(s, r, x, d, l, Tail(tw), td, v)
<1> DEFINE h == Head(tw)
           m == [at |-> "answering", id |-> h]
<1>1. PairTyped(s, r, w, d, l, tw, td, v) /\ HeardOnce(s, r, w, d, l, tw) /\ Matches(s, r, w, d, tw, td, v)
  BY DEF PairSound
<1>2. tw \in Seq(LP!Rounds) /\ w \in [LP!Rounds -> Marks]
  BY <1>1 DEF PairTyped
<1>3. /\ Tail(tw) \in Seq(LP!Rounds) /\ Len(Tail(tw)) = Len(tw) - 1 /\ h \in LP!Rounds /\ h = tw[1]
      /\ Len(tw) \in Nat \ {0}
      /\ \A i \in 1 .. Len(Tail(tw)) : Tail(tw)[i] = tw[i + 1] /\ i + 1 \in 1 .. Len(tw)
  BY <1>2, TailOf
<1>4. m \in Marks /\ m.at = "answering" /\ m.id = h /\ h \in 1 .. Messages
  BY <1>3, MarkIs, TestsAssumption DEF LP!Rounds
<1>5. \A k \in LP!Rounds : x[k] = IF w[k].at = "open" THEN m ELSE w[k]
  OBVIOUS
<1>6. x \in [LP!Rounds -> Marks]
  BY <1>2, <1>4
<1>7. PairTyped(s, r, x, d, l, Tail(tw), td, v)
  BY <1>1, <1>3, <1>6 DEF PairTyped
<1> DEFINE t == Tail(tw)
<1> HIDE DEF m, h, t
<1>8. HeardOnce(s, r, x, d, l, t)
  <2>1. \A k \in LP!Rounds : x[k].at # "open" 
    BY <1>4, <1>5
  <2>2. ASSUME l = {}, NEW k \in LP!Rounds
        PROVE  /\ x[k].id <= r /\ (s \in {"buffer", "sending"} => x[k].id # r)
               /\ \A j \in LP!Rounds : j # k /\ x[j].id # 0 => x[j].id # x[k].id
               /\ \A i \in 1 .. Len(t) : t[i] # x[k].id
    <3>1. /\ h <= r /\ (s \in {"buffer", "sending"} => h # r)
          /\ \A j \in LP!Rounds : w[j].id # h
          /\ \A i \in 1 .. Len(t) : t[i] # h
      BY <1>1, <1>3, <2>2 DEF HeardOnce, t
    <3>2. \A j \in LP!Rounds : w[j].at = "open" => j = r
      BY <1>1, <2>2 DEF HeardOnce
    <3>3. CASE w[k].at = "open"
      <4>1. x[k].id = h /\ \A j \in LP!Rounds : j # k => x[j] = w[j]
        BY <1>4, <1>5, <3>2, <3>3
      <4> QED  BY <3>1, <4>1
    <3>4. CASE w[k].at # "open"
      <4>1. x[k] = w[k] /\ \A j \in LP!Rounds : x[j] = w[j] \/ x[j].id = h
        BY <1>4, <1>5, <3>4
      <4>2. \A i \in 1 .. Len(t) : t[i] # w[k].id
        BY <1>1, <1>3, <2>2 DEF HeardOnce, t
      <4>3. /\ w[k].id <= r /\ (s \in {"buffer", "sending"} => w[k].id # r)
            /\ \A j \in LP!Rounds : j # k /\ w[j].id # 0 => w[j].id # w[k].id
        BY <1>1, <2>2 DEF HeardOnce
      <4> QED  BY <3>1, <4>1, <4>2, <4>3
    <3> QED  BY <3>3, <3>4
  <2>3. ASSUME l = {}, NEW i \in 1 .. Len(t)
        PROVE  /\ t[i] <= r /\ (s \in {"buffer", "sending"} => t[i] # r)
               /\ \A j \in 1 .. Len(t) : t[i] = t[j] => i = j
    BY <1>1, <1>3, <2>3 DEF HeardOnce, t
  <2> QED  BY <1>1, <2>1, <2>2, <2>3 DEF HeardOnce
<1>9. Matches(s, r, x, d, t, td, v)
  <2>1. \A k \in LP!Rounds : w[k].at = "answered" => x[k] = w[k]
    BY <1>5
  <2>2. ASSUME \A k \in LP!Rounds : v[k] # "failed"  PROVE InStep(s, r, x, d, t, td)
    <3>1. InStep(s, r, w, d, tw, td) /\ s = "waiting" /\ r \in LP!Rounds
      BY <1>1, <2>2, TestsAssumption DEF Matches, InStep, PairTyped, LP!Rounds
    <3>2. \A k \in LP!Rounds : k # r => x[k] = w[k]
      BY <1>5, <3>1 DEF InStep
    <3>3. Awaits(r, x, d, t, td)
      <4>1. CASE w[r].at \in {"late", "failed"} \/ d[r].at = "late"
        BY <1>5, <3>1, <4>1 DEF Awaits
      <4>2. CASE w[r].at = "open" /\ d[r].at = "open" /\ tw = <<r>> /\ td = <<>>
        <5>1. h = r /\ t = <<>>
          BY <4>2, OneMessage DEF h, t
        <5> QED  BY <1>4, <1>5, <3>1, <4>2, <5>1 DEF Awaits
      <4> QED  BY <3>1, <4>1, <4>2 DEF InStep, Awaits
    <3>4. \A k \in LP!Rounds :
            IF k \in Returned(s, r) THEN x[k].at = "answered" /\ d[k].at = "heard"
            ELSE k = r \/ (x[k].at = "none" /\ d[k].at = "none")
      BY <2>1, <3>1, <3>2 DEF InStep
    <3> QED  BY <3>1, <3>3, <3>4 DEF InStep
  <2> QED  BY <1>1, <2>1, <2>2 DEF Matches
<1> QED  BY <1>7, <1>8, <1>9 DEF PairSound, t

\* What answering, failing, hearing and timing out share: the marks of one
\* exchange k change, or those of the dApp's, and its messages are the same.
LEMMA SoundAnswers ==
  ASSUME NEW s, NEW r, NEW w, NEW d, NEW l, NEW tw, NEW td, NEW v,
         PairSound(s, r, w, d, l, tw, td, v), NEW k \in LP!Rounds, w[k].at = "answering",
         NEW x, NEW a \in {"answered", "failed"},
         x = [w EXCEPT ![k] = [at |-> a, id |-> w[k].id]],
         NEW y, y = IF a = "answered" THEN Append(td, k) ELSE td
  PROVE  PairSound(s, r, x, d, l, tw, y, v)
<1> DEFINE m == [at |-> a, id |-> w[k].id]
<1>1. PairTyped(s, r, w, d, l, tw, td, v) /\ HeardOnce(s, r, w, d, l, tw) /\ Matches(s, r, w, d, tw, td, v)
  BY DEF PairSound
<1>2. w \in [LP!Rounds -> Marks] /\ w[k].id \in 0 .. Messages /\ td \in Seq(LP!Rounds)
  BY <1>1 DEF PairTyped, Marks
<1>3. m \in Marks /\ m.at = a /\ m.id = w[k].id
  BY <1>2, MarkIs
<1>4. x = [w EXCEPT ![k] = m]
  OBVIOUS
<1> HIDE DEF m
<1>5. /\ x \in [LP!Rounds -> Marks] /\ x[k] = m
      /\ \A j \in LP!Rounds : (j # k => x[j] = w[j]) /\ x[j].id = w[j].id
  BY <1>2, <1>3, <1>4
<1>6. y \in Seq(LP!Rounds)
  BY <1>2, AppendTo
<1>7. PairTyped(s, r, x, d, l, tw, y, v)
  BY <1>1, <1>5, <1>6 DEF PairTyped
<1>8. HeardOnce(s, r, x, d, l, tw)
  <2>1. \A j \in LP!Rounds : x[j].at = "open" => w[j].at = "open"
    BY <1>3, <1>5
  <2> QED  BY <1>1, <1>5, <2>1 DEF HeardOnce
<1>9. Matches(s, r, x, d, tw, y, v)
  <2>1. \A j \in LP!Rounds : w[j].at = "answered" => x[j] = w[j]
    BY <1>5
  <2>2. ASSUME \A j \in LP!Rounds : v[j] # "failed"  PROVE InStep(s, r, x, d, tw, y)
    <3>1. InStep(s, r, w, d, tw, td)
      BY <1>1, <2>2 DEF Matches
    <3>2. k = r /\ s = "waiting"
      BY <3>1 DEF InStep
    <3>3. Awaits(r, x, d, tw, y)
      <4>1. CASE d[r].at = "late" \/ a = "failed"
        BY <1>3, <1>5, <3>2, <4>1 DEF Awaits
      <4>2. CASE a = "answered" /\ d[r].at # "late"
        <5>1. w[r].id = r /\ d[r].at = "open" /\ tw = <<>> /\ td = <<>>
          BY <3>1, <3>2, <4>2 DEF InStep, Awaits
        <5>2. y = <<r>>
          BY <3>2, <4>2, <5>1, AppendTo, <1>2
        <5> QED  BY <1>3, <1>5, <3>2, <4>2, <5>1, <5>2 DEF Awaits
      <4> QED  BY <4>1, <4>2
    <3> QED  BY <1>5, <3>1, <3>2, <3>3 DEF InStep
  <2> QED  BY <1>1, <2>1, <2>2 DEF Matches
<1> QED  BY <1>7, <1>8, <1>9 DEF PairSound

\* The dApp hears a response.
LEMMA SoundDappHears ==
  ASSUME NEW s, NEW r, NEW w, NEW d, NEW l, NEW tw, NEW td, NEW v,
         PairSound(s, r, w, d, l, tw, td, v), td # <<>>,
         NEW x, x = [k \in LP!Rounds |->
                       IF d[k].at = "open" THEN [at |-> "heard", id |-> Head(td)] ELSE d[k]]
  PROVE  PairSound(s, r, w, x, l, tw, Tail(td), v)
<1> DEFINE h == Head(td)
           m == [at |-> "heard", id |-> h]
           t == Tail(td)
<1>1. PairTyped(s, r, w, d, l, tw, td, v) /\ HeardOnce(s, r, w, d, l, tw) /\ Matches(s, r, w, d, tw, td, v)
  BY DEF PairSound
<1>2. td \in Seq(LP!Rounds) /\ d \in [LP!Rounds -> Marks]
  BY <1>1 DEF PairTyped
<1>3. t \in Seq(LP!Rounds) /\ h \in LP!Rounds
  BY <1>2, TailOf
<1>4. m \in Marks /\ m.at = "heard" /\ m.id = h /\ h \in 1 .. Messages
  BY <1>3, MarkIs, TestsAssumption DEF LP!Rounds
<1>5. \A k \in LP!Rounds : x[k] = IF d[k].at = "open" THEN m ELSE d[k]
  OBVIOUS
<1>6. x \in [LP!Rounds -> Marks]
  BY <1>2, <1>4
<1> HIDE DEF m, h, t
<1>7. PairTyped(s, r, w, x, l, tw, t, v)
  BY <1>1, <1>3, <1>6 DEF PairTyped
<1>8. HeardOnce(s, r, w, x, l, tw)
  <2>1. \A k \in LP!Rounds : x[k].at = "late" => d[k].at = "late"
    BY <1>4, <1>5
  <2> QED  BY <1>1, <2>1 DEF HeardOnce
<1>9. Matches(s, r, w, x, tw, t, v)
  <2>2. ASSUME \A k \in LP!Rounds : v[k] # "failed"  PROVE InStep(s, r, w, x, tw, t)
    <3>1. InStep(s, r, w, d, tw, td) /\ s = "waiting" /\ r \in LP!Rounds
      BY <1>1, <2>2, TestsAssumption DEF Matches, InStep, PairTyped, LP!Rounds
    <3>2. \A k \in LP!Rounds : k # r => x[k] = d[k]
      BY <1>5, <3>1 DEF InStep
    <3>3. Awaits(r, w, x, tw, t)
      <4>1. CASE w[r].at \in {"late", "failed"} \/ d[r].at = "late"
        BY <1>5, <3>1, <4>1 DEF Awaits
      <4>2. CASE w[r].at = "answered" /\ w[r].id = r /\ d[r].at = "open" /\ tw = <<>> /\ td = <<r>>
        <5>1. h = r /\ t = <<>>
          BY <4>2, OneMessage DEF h, t
        <5> QED  BY <1>4, <1>5, <3>1, <4>2, <5>1 DEF Awaits
      <4> QED  BY <3>1, <4>1, <4>2 DEF InStep, Awaits
    <3>4. \A k \in LP!Rounds :
            IF k \in Returned(s, r) THEN w[k].at = "answered" /\ x[k].at = "heard"
            ELSE k = r \/ (w[k].at = "none" /\ x[k].at = "none")
      BY <3>1, <3>2, <1>5 DEF InStep
    <3> QED  BY <3>1, <3>3, <3>4 DEF InStep
  <2> QED  BY <1>1, <2>2 DEF Matches
<1> QED  BY <1>7, <1>8, <1>9 DEF PairSound, t

\* The time of a listener is over; the dApp's is longer.
LEMMA SoundTimesOut ==
  ASSUME NEW s, NEW r, NEW w, NEW d, NEW l, NEW tw, NEW td, NEW v,
         PairSound(s, r, w, d, l, tw, td, v), NEW k \in LP!Rounds
  PROVE  /\ w[k].at = "open" =>
              PairSound(s, r, [w EXCEPT ![k] = [at |-> "late", id |-> 0]], d, l, tw, td, v)
         /\ d[k].at = "open" /\ w[k].at # "open" =>
              PairSound(s, r, w, [d EXCEPT ![k] = [at |-> "late", id |-> 0]], l, tw, td, v)
<1> DEFINE m == [at |-> "late", id |-> 0]
<1>1. PairTyped(s, r, w, d, l, tw, td, v) /\ HeardOnce(s, r, w, d, l, tw) /\ Matches(s, r, w, d, tw, td, v)
  BY DEF PairSound
<1>2. w \in [LP!Rounds -> Marks] /\ d \in [LP!Rounds -> Marks] /\ r \in Nat
      /\ \A i \in 1 .. Len(tw) : tw[i] # 0
  BY <1>1, TestsAssumption DEF PairTyped, LP!Rounds
<1>3. m \in Marks /\ m.at = "late" /\ m.id = 0
  BY MarkIs, TestsAssumption
<1> HIDE DEF m
<1>4. ASSUME w[k].at = "open"  PROVE PairSound(s, r, [w EXCEPT ![k] = m], d, l, tw, td, v)
  <2> DEFINE x == [w EXCEPT ![k] = m]
  <2>1. x \in [LP!Rounds -> Marks] /\ x[k] = m /\ \A j \in LP!Rounds : j # k => x[j] = w[j]
    BY <1>2, <1>3
  <2> HIDE DEF x
  <2>2. PairTyped(s, r, x, d, l, tw, td, v)
    BY <1>1, <2>1 DEF PairTyped
  <2>3. HeardOnce(s, r, x, d, l, tw)
    <3>1. \A j \in LP!Rounds : d[j].at = "late" => x[j].at # "open"
      BY <1>1, <1>3, <2>1 DEF HeardOnce
    <3>2. ASSUME l = {}, NEW j \in LP!Rounds
          PROVE  /\ x[j].at = "open" => j = r /\ s \in {"sending", "waiting"}
                 /\ x[j].id <= r /\ (s \in {"buffer", "sending"} => x[j].id # r)
                 /\ \A i \in LP!Rounds : i # j /\ x[i].id # 0 => x[i].id # x[j].id
                 /\ \A i \in 1 .. Len(tw) : tw[i] # x[j].id
      <4>1. CASE j = k
        BY <1>1, <1>2, <1>3, <2>1, <3>2, <4>1 DEF HeardOnce, PairTyped
      <4>2. CASE j # k
        BY <1>1, <1>3, <2>1, <3>2, <4>2 DEF HeardOnce
      <4> QED  BY <4>1, <4>2
    <3> QED  BY <1>1, <3>1, <3>2 DEF HeardOnce
  <2>4. Matches(s, r, x, d, tw, td, v)
    <3>1. \A j \in LP!Rounds : w[j].at = "answered" => x[j] = w[j]
      BY <1>4, <2>1
    <3>2. ASSUME \A j \in LP!Rounds : v[j] # "failed"  PROVE InStep(s, r, x, d, tw, td)
      <4>1. InStep(s, r, w, d, tw, td)
        BY <1>1, <3>2 DEF Matches
      <4>2. k = r /\ s \in {"sending", "waiting"}
        BY <1>4, <4>1 DEF InStep
      <4>3. k \notin Returned(s, r)
        BY <1>4, <4>1 DEF InStep
      <4>4. \A j \in LP!Rounds :
              IF j \in Returned(s, r) THEN x[j].at = "answered" /\ d[j].at = "heard"
              ELSE (j = r /\ s \in {"sending", "waiting"}) \/ (x[j].at = "none" /\ d[j].at = "none")
        BY <2>1, <4>1, <4>2, <4>3 DEF InStep
      <4>5. s = "sending" => x[r].at \in {"open", "late"} /\ d[r].at \in {"open", "late"}
        BY <1>3, <2>1, <4>1, <4>2 DEF InStep
      <4>6. Awaits(r, x, d, tw, td)
        BY <1>3, <2>1, <4>2 DEF Awaits
      <4> QED  BY <4>1, <4>4, <4>5, <4>6 DEF InStep
    <3> QED  BY <1>1, <3>1, <3>2 DEF Matches
  <2> QED  BY <2>2, <2>3, <2>4 DEF PairSound, x
<1>5. ASSUME d[k].at = "open", w[k].at # "open"
      PROVE  PairSound(s, r, w, [d EXCEPT ![k] = m], l, tw, td, v)
  <2> DEFINE x == [d EXCEPT ![k] = m]
  <2>1. x \in [LP!Rounds -> Marks] /\ x[k] = m /\ \A j \in LP!Rounds : j # k => x[j] = d[j]
    BY <1>2, <1>3
  <2> HIDE DEF x
  <2>2. PairTyped(s, r, w, x, l, tw, td, v)
    BY <1>1, <2>1 DEF PairTyped
  <2>3. HeardOnce(s, r, w, x, l, tw)
    BY <1>1, <1>5, <2>1 DEF HeardOnce
  <2>4. Matches(s, r, w, x, tw, td, v)
    <3>1. ASSUME \A j \in LP!Rounds : v[j] # "failed"  PROVE InStep(s, r, w, x, tw, td)
      <4>1. InStep(s, r, w, d, tw, td)
        BY <1>1, <3>1 DEF Matches
      <4>2. k = r /\ s \in {"sending", "waiting"}
        BY <1>5, <4>1 DEF InStep
      <4>3. k \notin Returned(s, r)
        BY <1>5, <4>1 DEF InStep
      <4>4. \A j \in LP!Rounds :
              IF j \in Returned(s, r) THEN w[j].at = "answered" /\ x[j].at = "heard"
              ELSE (j = r /\ s \in {"sending", "waiting"}) \/ (w[j].at = "none" /\ x[j].at = "none")
        BY <2>1, <4>1, <4>2, <4>3 DEF InStep
      <4>5. s = "sending" => w[r].at \in {"open", "late"} /\ x[r].at \in {"open", "late"}
        BY <1>3, <2>1, <4>1, <4>2 DEF InStep
      <4>6. Awaits(r, w, x, tw, td)
        BY <1>3, <2>1, <4>2 DEF Awaits
      <4> QED  BY <4>1, <4>4, <4>5, <4>6 DEF InStep
    <3> QED  BY <1>1, <3>1 DEF Matches
  <2> QED  BY <2>2, <2>3, <2>4 DEF PairSound, x
<1> QED  BY <1>4, <1>5 DEF m

\* How the task of a pair goes on: to exchange r2 at stage s2.
Onward(s2, r2, r) ==
  \/ s2 \in {"pause", "dropped", "over"} /\ r2 = r
  \/ s2 = "buffer" /\ r2 = r + 1 /\ r < Messages

LEMMA SoundMoves ==
  ASSUME NEW s, NEW r, NEW w, NEW d, NEW l, NEW tw, NEW td, NEW v,
         PairSound(s, r, w, d, l, tw, td, v), NEW s2, NEW r2,
         \/ s \in {"none", "scan", "joining"} /\ s2 \in {"scan", "joining"} /\ r2 = r
         \/ s \in {"scan", "joining", "pause"} /\ s2 \in {"buffer", "over"} /\ Onward(s2, r2, r)
  PROVE  PairSound(s2, r2, w, d, l, tw, td, v)
<1>1. PairTyped(s, r, w, d, l, tw, td, v) /\ HeardOnce(s, r, w, d, l, tw) /\ Matches(s, r, w, d, tw, td, v)
  BY DEF PairSound
<1>2. /\ s \notin {"buffer", "sending", "waiting"} /\ s2 \notin {"sending", "waiting"}
      /\ r \in 0 .. Messages /\ r2 \in 0 .. Messages /\ s2 \in PairStages
      /\ s2 \in {"none", "scan", "joining"} => r2 = 0
      /\ s2 \in {"buffer", "sending", "waiting", "pause"} => r2 # 0
      /\ r <= r2 /\ (s2 = "buffer" => r < r2)
  BY <1>1, TestsAssumption DEF PairTyped, PairStages, Onward
<1>3. Returned(s2, r2) = Returned(s, r)
  BY <1>1, <1>2, TestsAssumption DEF Returned, Onward, PairTyped, LP!Rounds
<1>4. PairTyped(s2, r2, w, d, l, tw, td, v)
  BY <1>1, <1>2 DEF PairTyped
<1>5. HeardOnce(s2, r2, w, d, l, tw)
  <2>1. \A n \in Nat : n <= r => n <= r2 /\ (s2 \in {"buffer", "sending"} => n # r2)
    BY <1>2, TestsAssumption
  <2>2. /\ \A k \in LP!Rounds : w[k].id \in Nat
        /\ \A i \in 1 .. Len(tw) : tw[i] \in Nat
    BY <1>1, IdsAreNumbers
  <2> QED  BY <1>1, <1>2, <2>1, <2>2 DEF HeardOnce
<1>6. Matches(s2, r2, w, d, tw, td, v)
  BY <1>1, <1>2, <1>3 DEF Matches, InStep
<1> QED  BY <1>4, <1>5, <1>6 DEF PairSound

\* Both listeners are set.
LEMMA SoundSends ==
  ASSUME NEW r, NEW w, NEW d, NEW l, NEW tw, NEW td, NEW v,
         PairSound("buffer", r, w, d, l, tw, td, v),
         NEW o, o = [at |-> "open", id |-> 0]
  PROVE  PairSound("sending", r, [w EXCEPT ![r] = o], [d EXCEPT ![r] = o], l, tw, td, v)
<1> DEFINE x == [w EXCEPT ![r] = o]
           y == [d EXCEPT ![r] = o]
<1>1. /\ PairTyped("buffer", r, w, d, l, tw, td, v) /\ HeardOnce("buffer", r, w, d, l, tw)
      /\ Matches("buffer", r, w, d, tw, td, v)
  BY DEF PairSound
<1>2. /\ w \in [LP!Rounds -> Marks] /\ d \in [LP!Rounds -> Marks] /\ r \in LP!Rounds /\ r # 0
      /\ \A i \in 1 .. Len(tw) : tw[i] # 0
  BY <1>1, TestsAssumption DEF PairTyped, LP!Rounds
<1>3. o \in Marks /\ o.at = "open" /\ o.id = 0
  BY MarkIs, TestsAssumption
<1>4. /\ x \in [LP!Rounds -> Marks] /\ x[r] = o /\ \A k \in LP!Rounds : k # r => x[k] = w[k]
      /\ y \in [LP!Rounds -> Marks] /\ y[r] = o /\ \A k \in LP!Rounds : k # r => y[k] = d[k]
  BY <1>2, <1>3
<1>5. Returned("sending", r) = Returned("buffer", r) /\ r \notin Returned("buffer", r)
  BY <1>2, TestsAssumption DEF Returned, LP!Rounds
<1> HIDE DEF x, y
<1>6. PairTyped("sending", r, x, y, l, tw, td, v)
  BY <1>1, <1>2, <1>4 DEF PairTyped, PairStages
<1>7. HeardOnce("sending", r, x, y, l, tw)
  <2>1. \A k \in LP!Rounds : y[k].at = "late" => x[k].at # "open"
    BY <1>1, <1>3, <1>4 DEF HeardOnce
  <2>2. ASSUME l = {}, NEW k \in LP!Rounds
        PROVE  /\ x[k].at = "open" => k = r
               /\ x[k].id <= r /\ x[k].id # r
               /\ \A j \in LP!Rounds : j # k /\ x[j].id # 0 => x[j].id # x[k].id
               /\ \A i \in 1 .. Len(tw) : tw[i] # x[k].id
    <3>1. CASE k = r
      BY <1>1, <1>2, <1>3, <1>4, <2>2, <3>1, TestsAssumption DEF HeardOnce, LP!Rounds
    <3>2. CASE k # r
      BY <1>1, <1>3, <1>4, <2>2, <3>2 DEF HeardOnce
    <3> QED  BY <3>1, <3>2
  <2> QED  BY <1>1, <2>1, <2>2 DEF HeardOnce
<1>8. Matches("sending", r, x, y, tw, td, v)
  <2>1. \A k \in LP!Rounds : k \in Returned("buffer", r) => x[k] = w[k] /\ y[k] = d[k]
    BY <1>4, <1>5
  <2>2. ASSUME \A k \in LP!Rounds : v[k] # "failed"  PROVE InStep("sending", r, x, y, tw, td)
    <3>1. InStep("buffer", r, w, d, tw, td)
      BY <1>1, <2>2 DEF Matches
    <3> QED  BY <1>3, <1>4, <1>5, <2>1, <3>1 DEF InStep
  <2> QED  BY <1>1, <1>5, <2>1, <2>2 DEF Matches
<1> QED  BY <1>6, <1>7, <1>8 DEF PairSound, x, y

\* The relay has the request.
LEMMA SoundSent ==
  ASSUME NEW r, NEW w, NEW d, NEW l, NEW tw, NEW td, NEW v,
         PairSound("sending", r, w, d, l, tw, td, v)
  PROVE  PairSound("waiting", r, w, d, l, Append(tw, r), td, v)
<1> DEFINE t == Append(tw, r)
<1>1. /\ PairTyped("sending", r, w, d, l, tw, td, v) /\ HeardOnce("sending", r, w, d, l, tw)
      /\ Matches("sending", r, w, d, tw, td, v)
  BY DEF PairSound
<1>2. tw \in Seq(LP!Rounds) /\ r \in LP!Rounds /\ r \in Nat
  BY <1>1, TestsAssumption DEF PairTyped, LP!Rounds
<1>3. /\ t \in Seq(LP!Rounds) /\ Len(t) = Len(tw) + 1 /\ Len(tw) \in Nat
      /\ \A i \in 1 .. Len(tw) + 1 : t[i] = IF i = Len(tw) + 1 THEN r ELSE tw[i]
      /\ tw = <<>> => t = <<r>>
  BY <1>2, AppendTo
<1>4. Returned("waiting", r) = Returned("sending", r)
  BY DEF Returned
<1> HIDE DEF t
<1>5. PairTyped("waiting", r, w, d, l, t, td, v)
  BY <1>1, <1>3 DEF PairTyped, PairStages
<1>6. HeardOnce("waiting", r, w, d, l, t)
  <2>1. ASSUME l = {}, NEW i \in 1 .. Len(t)
        PROVE  /\ t[i] <= r /\ \A k \in LP!Rounds : t[i] # w[k].id
               /\ \A j \in 1 .. Len(t) : t[i] = t[j] => i = j
    <3>1. /\ \A j \in 1 .. Len(tw) : t[j] = tw[j] /\ t[j] <= r /\ t[j] # r
          /\ t[Len(tw) + 1] = r /\ Len(t) = Len(tw) + 1 /\ Len(tw) \in Nat
      BY <1>1, <1>3, <2>1 DEF HeardOnce
    <3>2. CASE i = Len(tw) + 1
      <4>1. \A k \in LP!Rounds : w[k].id # r
        BY <1>1, <2>1 DEF HeardOnce
      <4> QED  BY <1>2, <3>1, <3>2, <4>1
    <3>3. CASE i # Len(tw) + 1
      <4>1. i \in 1 .. Len(tw)
        BY <3>1, <3>3
      <4> QED  BY <1>1, <2>1, <3>1, <4>1 DEF HeardOnce
    <3> QED  BY <3>2, <3>3
  <2> QED  BY <1>1, <2>1 DEF HeardOnce
<1>7. Matches("waiting", r, w, d, t, td, v)
  <2>1. ASSUME \A k \in LP!Rounds : v[k] # "failed"  PROVE InStep("waiting", r, w, d, t, td)
    <3>1. InStep("sending", r, w, d, tw, td)
      BY <1>1, <2>1 DEF Matches
    <3>2. Awaits(r, w, d, t, td)
      BY <1>3, <3>1 DEF InStep, Awaits
    <3> QED  BY <1>4, <3>1, <3>2 DEF InStep
  <2> QED  BY <1>1, <1>4, <2>1 DEF Matches
<1> QED  BY <1>5, <1>6, <1>7 DEF PairSound, t

\* What an exchange that returns leaves.
LEMMA OnwardFacts ==
  ASSUME NEW s \in {"sending", "waiting"}, NEW r \in LP!Rounds, NEW s2, NEW r2, Onward(s2, r2, r)
  PROVE  /\ s2 \in PairStages /\ s2 \notin {"none", "scan", "joining", "sending", "waiting"}
         /\ r2 \in 0 .. Messages /\ r2 # 0 /\ r <= r2 /\ (s2 = "buffer" => r < r2)
         /\ Returned(s2, r2) = Returned(s, r) \union {r} /\ r \notin Returned(s, r)
BY TestsAssumption DEF Onward, PairStages, Returned, LP!Rounds

\* The request could not be sent: nobody attends to the exchange.
LEMMA SoundFails ==
  ASSUME NEW r, NEW w, NEW d, NEW l, NEW tw, NEW td, NEW v,
         PairSound("sending", r, w, d, l, tw, td, v), NEW s2, NEW r2, Onward(s2, r2, r)
  PROVE  PairSound(s2, r2, w, d, l \union {r}, tw, td, [v EXCEPT ![r] = "failed"])
<1> DEFINE x == [v EXCEPT ![r] = "failed"]
<1>1. /\ PairTyped("sending", r, w, d, l, tw, td, v) /\ HeardOnce("sending", r, w, d, l, tw)
      /\ Matches("sending", r, w, d, tw, td, v)
  BY DEF PairSound
<1>2. r \in LP!Rounds /\ v \in [LP!Rounds -> Verdicts]
  BY <1>1, TestsAssumption DEF PairTyped, LP!Rounds
<1>3. /\ x \in [LP!Rounds -> Verdicts] /\ x[r] = "failed" /\ \A k \in LP!Rounds : k # r => x[k] = v[k]
  BY <1>2 DEF Verdicts
<1> HIDE DEF x
<1>4. /\ s2 \in PairStages /\ s2 \notin {"none", "scan", "joining", "sending", "waiting"}
      /\ r2 \in 0 .. Messages /\ r2 # 0
      /\ Returned(s2, r2) = Returned("sending", r) \union {r} /\ r \notin Returned("sending", r)
  BY <1>2, OnwardFacts
<1>5. PairTyped(s2, r2, w, d, l \union {r}, tw, td, x)
  BY <1>1, <1>2, <1>3, <1>4 DEF PairTyped
<1>6. HeardOnce(s2, r2, w, d, l \union {r}, tw)
  <2>1. l \union {r} # {}
    OBVIOUS
  <2> QED  BY <1>1, <2>1 DEF HeardOnce
<1>7. Matches(s2, r2, w, d, tw, td, x)
  <2>1. \A k \in LP!Rounds : v[k] = "failed" => x[k] = "failed"
    BY <1>3
  <2>2. ASSUME NEW k \in LP!Rounds
        PROVE  /\ x[k] # "none" => k \in Returned(s2, r2)
               /\ x[k] \in {"ok", "mismatch"} =>
                    /\ w[k].at = "answered"
                    /\ (x[k] = "ok" /\ w[k].id = k) \/ \E j \in 1 .. k - 1 : x[j] = "failed"
    <3>1. CASE k = r
      BY <1>3, <1>4, <3>1
    <3>2. CASE k # r
      <4>1. \A j \in 1 .. k - 1 : j \in LP!Rounds
        BY TestsAssumption DEF LP!Rounds
      <4> QED  BY <1>1, <1>3, <1>4, <2>1, <3>2, <4>1 DEF Matches
    <3> QED  BY <3>1, <3>2
  <2> QED  BY <1>2, <1>3, <2>2 DEF Matches
<1> QED  BY <1>5, <1>6, <1>7 DEF PairSound, x

\* Both promises have resolved, or one has rejected.
LEMMA SoundSettles ==
  ASSUME NEW r, NEW w, NEW d, NEW l, NEW tw, NEW td, NEW v,
         PairSound("waiting", r, w, d, l, tw, td, v), NEW s2, NEW r2, Onward(s2, r2, r), NEW e,
         \/ /\ w[r].at = "answered" /\ d[r].at = "heard"
            /\ e = IF d[r].id = r THEN "ok" ELSE "mismatch"
         \/ (w[r].at \in {"failed", "late"} \/ d[r].at = "late") /\ e = "failed"
  PROVE  PairSound(s2, r2, w, d, l, tw, td, [v EXCEPT ![r] = e])
<1> DEFINE x == [v EXCEPT ![r] = e]
<1>1. /\ PairTyped("waiting", r, w, d, l, tw, td, v) /\ HeardOnce("waiting", r, w, d, l, tw)
      /\ Matches("waiting", r, w, d, tw, td, v)
  BY DEF PairSound
<1>2. r \in LP!Rounds /\ v \in [LP!Rounds -> Verdicts] /\ e \in Verdicts /\ e # "none"
  BY <1>1, TestsAssumption DEF PairTyped, LP!Rounds, Verdicts
<1>3. /\ x \in [LP!Rounds -> Verdicts] /\ x[r] = e /\ \A k \in LP!Rounds : k # r => x[k] = v[k]
  BY <1>2
<1> HIDE DEF x
<1>4. /\ s2 \in PairStages /\ s2 \notin {"none", "scan", "joining", "sending", "waiting"}
      /\ r2 \in 0 .. Messages /\ r2 # 0 /\ r <= r2 /\ (s2 = "buffer" => r < r2)
      /\ Returned(s2, r2) = Returned("waiting", r) \union {r} /\ r \notin Returned("waiting", r)
  BY <1>2, OnwardFacts
<1>5. PairTyped(s2, r2, w, d, l, tw, td, x)
  BY <1>1, <1>3, <1>4 DEF PairTyped
<1>6. HeardOnce(s2, r2, w, d, l, tw)
  <2>1. w[r].at # "open"
    BY <1>1, <1>2 DEF HeardOnce
  <2>2. \A n \in Nat : n <= r => n <= r2 /\ (s2 \in {"buffer", "sending"} => n # r2)
    BY <1>2, <1>4, TestsAssumption DEF LP!Rounds
  <2>3. /\ \A k \in LP!Rounds : w[k].id \in Nat
        /\ \A i \in 1 .. Len(tw) : tw[i] \in Nat
    BY <1>1, IdsAreNumbers
  <2> QED  BY <1>1, <2>1, <2>2, <2>3 DEF HeardOnce
<1>7. v[r] = "none"
  BY <1>1, <1>2, <1>4 DEF Matches
<1>8. Matches(s2, r2, w, d, tw, td, x)
  <2>1. \A k \in LP!Rounds : v[k] = "failed" => x[k] = "failed"
    BY <1>3, <1>7
  <2>2. \A k \in LP!Rounds : v[k] = "failed" => k \in 1 .. r - 1
    BY <1>1, <1>2, <1>4, TestsAssumption DEF Matches, Returned, LP!Rounds
  <2>3. ASSUME \A k \in LP!Rounds : v[k] # "failed", e # "failed"
        PROVE  /\ w[r].at = "answered" /\ d[r].at = "heard" /\ e = "ok" /\ w[r].id = r
               /\ tw = <<>> /\ td = <<>>
    <3>1. Awaits(r, w, d, tw, td)
      BY <1>1, <2>3 DEF Matches, InStep
    <3> QED  BY <2>3, <3>1 DEF Awaits
  <2>4. ASSUME NEW k \in LP!Rounds
        PROVE  /\ x[k] # "none" => k \in Returned(s2, r2)
               /\ x[k] \in {"ok", "mismatch"} =>
                    /\ w[k].at = "answered"
                    /\ (x[k] = "ok" /\ w[k].id = k) \/ \E j \in 1 .. k - 1 : x[j] = "failed"
    <3>1. CASE k = r
      <4>1. CASE \E j \in LP!Rounds : v[j] = "failed"
        BY <1>2, <1>3, <1>4, <2>1, <2>2, <3>1, <4>1
      <4>2. CASE \A j \in LP!Rounds : v[j] # "failed"
        BY <1>3, <1>4, <2>3, <3>1, <4>2
      <4> QED  BY <4>1, <4>2
    <3>2. CASE k # r
      <4>1. \A j \in 1 .. k - 1 : j \in LP!Rounds
        BY TestsAssumption DEF LP!Rounds
      <4> QED  BY <1>1, <1>3, <1>4, <2>1, <3>2, <4>1 DEF Matches
    <3> QED  BY <3>1, <3>2
  <2>5. ASSUME \A k \in LP!Rounds : x[k] # "failed"  PROVE InStep(s2, r2, w, d, tw, td)
    <3>1. (\A k \in LP!Rounds : v[k] # "failed") /\ e # "failed"
      BY <1>2, <1>3, <2>1, <2>5
    <3>2. InStep("waiting", r, w, d, tw, td)
      BY <1>1, <3>1 DEF Matches
    <3> QED  BY <1>4, <2>3, <3>1, <3>2 DEF InStep
  <2> QED  BY <2>4, <2>5 DEF Matches
<1> QED  BY <1>5, <1>6, <1>8 DEF PairSound, x

Sides == {"dapp", "wallet"}
ClientStates == {"off", "connecting", "connected", "closed"}
Tests ==
  [name : {"realistic-session", "steady-messaging"},
   phase : {"ramp", "messaging", "closing", "done", "dead"},
   late : BOOLEAN, awaited : SUBSET LP!Ids]

PairsTyped ==
  /\ test \in Tests
  /\ stage \in [LP!Ids -> PairStages] /\ client \in [LP!Ids -> [Sides -> ClientStates]]
  /\ round \in [LP!Ids -> 0 .. Messages] /\ ear \in [LP!Ids -> [Sides -> [LP!Rounds -> Marks]]]
  /\ loose \in [LP!Ids -> SUBSET LP!Rounds]
  /\ toWallet \in [LP!Ids -> Seq(LP!Rounds)] /\ toDapp \in [LP!Ids -> Seq(LP!Rounds)]
  /\ verdict \in [LP!Ids -> [LP!Rounds -> Verdicts]]

SoundPair(p) ==
  PairSound(stage[p], round[p], ear[p].wallet, ear[p].dapp, loose[p], toWallet[p], toDapp[p],
            verdict[p])

\* A pair without a wallet is at the beginning, or its dApp is closed.
PairCloses(s, c) ==
  /\ s \in {"pause", "dropped"} => LP!Steady
  /\ c.wallet = "off" => s \in {"none", "scan"} \/ c.dapp = "closed"

\* realistic-session awaits every pair before it closes their clients.
SessionCloses ==
  ~ LP!Steady =>
    /\ test.phase = "messaging" => test.awaited = LP!Ids
    /\ test.phase \in {"closing", "done"} => \A p \in LP!Ids : stage[p] = "over"
    /\ test.phase = "done" =>
         \A p \in LP!Ids : client[p].dapp = "closed" /\ client[p].wallet \in {"off", "closed"}

PairsInv ==
  /\ PairsTyped /\ SessionCloses
  /\ \A p \in LP!Ids : SoundPair(p) /\ PairCloses(stage[p], client[p])

LEMMA PairsAreTyped == PairsInv => LP!TypeOK
<1> SUFFICES ASSUME PairsInv  PROVE LP!TypeOK
  OBVIOUS
<1>1. PairsTyped
  BY DEF PairsInv
<1>2. test \in [name : {"realistic-session", "steady-messaging"},
               phase : {"ramp", "messaging", "closing", "done", "dead"},
               late : BOOLEAN, awaited : SUBSET LP!Ids]
  BY <1>1 DEF PairsTyped, Tests
<1>3. stage \in [LP!Ids -> {"none", "scan", "joining", "buffer", "sending", "waiting", "pause",
                           "over", "dropped"}]
  BY <1>1 DEF PairsTyped, PairStages
<1>4. ASSUME NEW p \in LP!Ids
      PROVE  /\ client[p] \in [{"dapp", "wallet"} -> {"off", "connecting", "connected", "closed"}]
             /\ round[p] \in 0 .. Messages
             /\ loose[p] \subseteq LP!Rounds
             /\ toWallet[p] \in Seq(LP!Rounds) /\ toDapp[p] \in Seq(LP!Rounds)
             /\ verdict[p] \in [LP!Rounds -> {"none", "ok", "mismatch", "failed"}]
  BY <1>1 DEF PairsTyped, Sides, ClientStates, Verdicts
<1>5. ASSUME NEW p \in LP!Ids, NEW k \in LP!Rounds, NEW side \in {"dapp", "wallet"}
      PROVE  ear[p][side][k].id \in 0 .. Messages
  <2>1. ear[p][side][k] \in Marks
    BY <1>1 DEF PairsTyped, Sides
  <2> QED  BY <2>1 DEF Marks
<1> QED  BY <1>2, <1>3, <1>4, <1>5 DEF LP!TypeOK

LEMMA PairsInit == LP!Init => PairsInv
<1> SUFFICES ASSUME LP!Init  PROVE PairsInv
  OBVIOUS
<1> USE TestsAssumption
<1>1. LP!Deaf \in Marks /\ LP!Deaf.at = "none" /\ LP!Deaf.id = 0
  BY MarkIs DEF LP!Deaf
<1>2. /\ test \in Tests /\ test.phase = "ramp"
      /\ stage \in [LP!Ids -> PairStages] /\ round \in [LP!Ids -> 0 .. Messages]
      /\ loose \in [LP!Ids -> SUBSET LP!Rounds]
      /\ toWallet \in [LP!Ids -> Seq(LP!Rounds)] /\ toDapp \in [LP!Ids -> Seq(LP!Rounds)]
      /\ verdict \in [LP!Ids -> [LP!Rounds -> Verdicts]]
  <2>1. stage \in [LP!Ids -> PairStages] /\ round \in [LP!Ids -> 0 .. Messages]
    BY DEF LP!Init, PairStages
  <2>2. /\ loose \in [LP!Ids -> SUBSET LP!Rounds]
        /\ toWallet \in [LP!Ids -> Seq(LP!Rounds)] /\ toDapp \in [LP!Ids -> Seq(LP!Rounds)]
    BY DEF LP!Init
  <2>3. verdict \in [LP!Ids -> [LP!Rounds -> Verdicts]]
    BY DEF LP!Init, Verdicts
  <2>4. test \in Tests /\ test.phase = "ramp"
    <3>1. test \in [name : {"realistic-session", "steady-messaging"}, phase : {"ramp"},
                    late : {FALSE}, awaited : {{}}]
      BY DEF LP!Init
    <3>2. /\ test.name \in {"realistic-session", "steady-messaging"} /\ test.phase = "ramp"
          /\ test.late \in BOOLEAN /\ test.awaited \in SUBSET LP!Ids
          /\ test = [name |-> test.name, phase |-> test.phase, late |-> test.late,
                     awaited |-> test.awaited]
      BY <3>1
    <3> DEFINE n == test.name
               h == test.phase
               b == test.late
               a == test.awaited
    <3>3. /\ n \in {"realistic-session", "steady-messaging"}
          /\ h \in {"ramp", "messaging", "closing", "done", "dead"}
          /\ b \in BOOLEAN /\ a \in SUBSET LP!Ids
          /\ test = [name |-> n, phase |-> h, late |-> b, awaited |-> a]
      BY <3>2
    <3> HIDE DEF n, h, b, a
    <3>4. test \in Tests
      BY Zenon, <3>3 DEF Tests
    <3> QED  BY <3>2, <3>4
  <2> QED  BY <2>1, <2>2, <2>3, <2>4
<1>3. client \in [LP!Ids -> [Sides -> ClientStates]]
  BY DEF LP!Init, Sides, ClientStates
<1>4. ear \in [LP!Ids -> [Sides -> [LP!Rounds -> Marks]]]
  BY <1>1 DEF LP!Init, Sides
<1>5. ASSUME NEW p \in LP!Ids  PROVE SoundPair(p) /\ PairCloses(stage[p], client[p])
  <2> DEFINE w == ear[p].wallet
             d == ear[p].dapp
             v == verdict[p]
  <2>1. /\ stage[p] = "none" /\ round[p] = 0 /\ loose[p] = {} /\ toWallet[p] = <<>> /\ toDapp[p] = <<>>
        /\ v = [k \in LP!Rounds |-> "none"]
        /\ w = [k \in LP!Rounds |-> LP!Deaf] /\ d = [k \in LP!Rounds |-> LP!Deaf]
    BY DEF LP!Init
  <2> HIDE DEF w, d, v
  <2>2. PairTyped("none", 0, w, d, {}, <<>>, <<>>, v)
    BY <1>1, <2>1 DEF PairTyped, PairStages, Verdicts
  <2>3. HeardOnce("none", 0, w, d, {}, <<>>)
    BY <1>1, <2>1 DEF HeardOnce
  <2>4. Matches("none", 0, w, d, <<>>, <<>>, v)
    BY <1>1, <2>1 DEF Matches, InStep, Returned, LP!Rounds
  <2>5. PairCloses("none", client[p])
    BY DEF PairCloses
  <2> QED  BY <2>1, <2>2, <2>3, <2>4, <2>5 DEF SoundPair, PairSound, w, d, v
<1>6. SessionCloses
  BY <1>2 DEF SessionCloses
<1> QED  BY <1>2, <1>3, <1>4, <1>5, <1>6 DEF PairsInv, PairsTyped

\* A step of pair p: its stage becomes s, its clients c, and the other parts as
\* PairSound names them.
PairGoes(p, s, c, r, e, l, tw, td, v) ==
  /\ stage' = [stage EXCEPT ![p] = s] /\ client' = [client EXCEPT ![p] = c]
  /\ round' = [round EXCEPT ![p] = r] /\ ear' = [ear EXCEPT ![p] = e]
  /\ loose' = [loose EXCEPT ![p] = l]
  /\ toWallet' = [toWallet EXCEPT ![p] = tw] /\ toDapp' = [toDapp EXCEPT ![p] = td]
  /\ verdict' = [verdict EXCEPT ![p] = v]

LEMMA PairStep ==
  ASSUME PairsInv, LP!Running, NEW p \in LP!Ids,
         NEW s, NEW c, NEW r, NEW e, NEW l, NEW tw, NEW td, NEW v,
         PairGoes(p, s, c, r, e, l, tw, td, v),
         c \in [Sides -> ClientStates], e \in [Sides -> [LP!Rounds -> Marks]],
         PairSound(s, r, e.wallet, e.dapp, l, tw, td, v), PairCloses(s, c),
         stage[p] = "over" => s = "over",
         test' = test \/ test' = [test EXCEPT !.phase = "dead"]
  PROVE  PairsInv'
<1>1. PairTyped(s, r, e.wallet, e.dapp, l, tw, td, v)
  BY DEF PairSound
<1>2. /\ stage' \in [LP!Ids -> PairStages] /\ client' \in [LP!Ids -> [Sides -> ClientStates]]
      /\ round' \in [LP!Ids -> 0 .. Messages] /\ ear' \in [LP!Ids -> [Sides -> [LP!Rounds -> Marks]]]
  BY <1>1 DEF PairsInv, PairsTyped, PairGoes, PairTyped
<1>3. /\ loose' \in [LP!Ids -> SUBSET LP!Rounds]
      /\ toWallet' \in [LP!Ids -> Seq(LP!Rounds)] /\ toDapp' \in [LP!Ids -> Seq(LP!Rounds)]
      /\ verdict' \in [LP!Ids -> [LP!Rounds -> Verdicts]]
  BY <1>1 DEF PairsInv, PairsTyped, PairGoes, PairTyped
<1>4. /\ test' \in Tests /\ test'.name = test.name
      /\ test'.phase # "dead" => test' = test
  BY DEF PairsInv, PairsTyped, Tests
<1>5. LP!Steady' = LP!Steady
  BY <1>4 DEF LP!Steady
<1>6. ASSUME NEW q \in LP!Ids  PROVE SoundPair(q)' /\ PairCloses(stage'[q], client'[q])
  <2>1. CASE q = p
    <3>1. /\ stage'[q] = s /\ client'[q] = c /\ round'[q] = r /\ ear'[q] = e /\ loose'[q] = l
          /\ toWallet'[q] = tw /\ toDapp'[q] = td /\ verdict'[q] = v
      BY <2>1 DEF PairsInv, PairsTyped, PairGoes
    <3> QED  BY <3>1 DEF SoundPair
  <2>2. CASE q # p
    <3>1. /\ stage'[q] = stage[q] /\ client'[q] = client[q] /\ round'[q] = round[q]
          /\ ear'[q] = ear[q] /\ loose'[q] = loose[q]
          /\ toWallet'[q] = toWallet[q] /\ toDapp'[q] = toDapp[q] /\ verdict'[q] = verdict[q]
      BY <2>2 DEF PairsInv, PairsTyped, PairGoes
    <3> QED  BY <3>1 DEF PairsInv, SoundPair
  <2> QED  BY <2>1, <2>2
<1>7. SessionCloses'
  <2>1. ASSUME ~ LP!Steady, test'.phase = "closing", NEW q \in LP!Ids  PROVE stage'[q] = "over"
    <3>1. stage[q] = "over"
      BY <1>4, <2>1 DEF PairsInv, SessionCloses
    <3> QED  BY <3>1 DEF PairsInv, PairsTyped, PairGoes
  <2>2. test'.phase # "done"
    BY <1>4 DEF LP!Running
  <2> QED  BY <1>4, <1>5, <2>1, <2>2 DEF PairsInv, SessionCloses
<1>8. \A q \in LP!Ids : PairCloses(stage[q], client[q])'
  BY <1>5, <1>6 DEF PairCloses
<1> QED  BY <1>2, <1>3, <1>4, <1>6, <1>7, <1>8 DEF PairsInv, PairsTyped

LEMMA EarIs ==
  ASSUME PairsInv, NEW p \in LP!Ids
  PROVE  /\ ear[p] \in [Sides -> [LP!Rounds -> Marks]]
         /\ ear[p].wallet \in [LP!Rounds -> Marks] /\ ear[p].dapp \in [LP!Rounds -> Marks]
         /\ SoundPair(p) /\ PairCloses(stage[p], client[p])
         /\ client[p] \in [Sides -> ClientStates]
         /\ stage[p] \in PairStages /\ round[p] \in 0 .. Messages /\ verdict[p] \in [LP!Rounds -> Verdicts]
         /\ loose[p] \in SUBSET LP!Rounds
         /\ toWallet[p] \in Seq(LP!Rounds) /\ toDapp[p] \in Seq(LP!Rounds)
BY DEF PairsInv, PairsTyped, Sides

\* A variable that a step leaves alone.
LEMMA Left ==
  ASSUME NEW S, NEW T, NEW f \in [S -> T], NEW x \in S
  PROVE  f = [f EXCEPT ![x] = f[x]]
OBVIOUS

LEMMA PairLeaves ==
  ASSUME PairsTyped, NEW p \in LP!Ids
  PROVE  /\ stage = [stage EXCEPT ![p] = stage[p]] /\ client = [client EXCEPT ![p] = client[p]]
         /\ round = [round EXCEPT ![p] = round[p]] /\ ear = [ear EXCEPT ![p] = ear[p]]
         /\ loose = [loose EXCEPT ![p] = loose[p]]
         /\ toWallet = [toWallet EXCEPT ![p] = toWallet[p]]
         /\ toDapp = [toDapp EXCEPT ![p] = toDapp[p]]
         /\ verdict = [verdict EXCEPT ![p] = verdict[p]]
BY DEF PairsTyped

\* The setup of a pair.
LEMMA PairSetup ==
  ASSUME PairsInv, LP!Running, NEW p \in LP!Ids,
         LP!Start(p) \/ LP!Join(p) \/ LP!Joined(p) \/ LP!JoinFails(p)
  PROVE  PairsInv'
<1>1. /\ SoundPair(p) /\ ear[p] \in [Sides -> [LP!Rounds -> Marks]] /\ PairsTyped
      /\ client[p] \in [Sides -> ClientStates] /\ PairCloses(stage[p], client[p])
  BY EarIs DEF PairsInv
<1>2. /\ stage[p] \in {"none", "scan", "joining"} /\ round[p] = 0 /\ round[p] < Messages
      /\ test' = test /\ UNCHANGED <<ear, loose, toWallet, toDapp, verdict>>
  BY <1>1, TestsAssumption DEF LP!Start, LP!Join, LP!Joined, LP!JoinFails, LP!work, SoundPair, PairSound, PairTyped
<1>3. PICK s, r, c :
        /\ stage' = [stage EXCEPT ![p] = s] /\ round' = [round EXCEPT ![p] = r]
        /\ client' = [client EXCEPT ![p] = c] /\ c \in [Sides -> ClientStates] /\ PairCloses(s, c)
        /\ \/ stage[p] \in {"none", "scan", "joining"} /\ s \in {"scan", "joining"} /\ r = round[p]
           \/ stage[p] \in {"scan", "joining"} /\ s \in {"buffer", "over"} /\ Onward(s, r, round[p])
  <2>1. CASE LP!Start(p)
    <3> DEFINE c == [client[p] EXCEPT !.dapp = "connecting"]
    <3>1. /\ stage' = [stage EXCEPT ![p] = "scan"] /\ round' = [round EXCEPT ![p] = round[p]]
          /\ client' = [client EXCEPT ![p] = c] /\ c \in [Sides -> ClientStates]
      BY <1>1, <2>1, PairLeaves DEF LP!Start, LP!To, Sides, ClientStates
    <3> QED  BY <1>2, <3>1 DEF PairCloses
  <2>2. CASE LP!Join(p)
    <3> DEFINE c == [client[p] EXCEPT !.wallet = "connecting"]
    <3>1. /\ stage' = [stage EXCEPT ![p] = "joining"] /\ round' = [round EXCEPT ![p] = round[p]]
          /\ client' = [client EXCEPT ![p] = c] /\ c \in [Sides -> ClientStates]
          /\ c.wallet = "connecting"
      BY <1>1, <2>2, PairLeaves DEF LP!Join, LP!To, Sides, ClientStates
    <3> QED  BY <1>2, <3>1 DEF PairCloses
  <2>3. CASE LP!Joined(p)
    <3> DEFINE c == [client[p] EXCEPT !.wallet = "connected"]
               m == ~ LP!Steady \/ ~ test.late
               s == IF m THEN "buffer" ELSE "over"
               r == IF m THEN round[p] + 1 ELSE round[p]
    <3>1. /\ stage' = [stage EXCEPT ![p] = s] /\ round' = [round EXCEPT ![p] = r]
          /\ client' = [client EXCEPT ![p] = c]
      BY <2>3 DEF LP!Joined, LP!Again, LP!To
    <3>2. c \in [Sides -> ClientStates] /\ c.wallet = "connected"
      BY <1>1 DEF Sides, ClientStates
    <3>3. stage[p] = "joining" /\ s \in {"buffer", "over"} /\ Onward(s, r, round[p])
      BY <1>2, <2>3 DEF LP!Joined, Onward
    <3> HIDE DEF c, m, s, r
    <3> QED  BY <3>1, <3>2, <3>3 DEF PairCloses
  <2>4. CASE LP!JoinFails(p)
    <3> DEFINE c == [dapp |-> "closed", wallet |-> IF stage[p] = "scan" THEN "off" ELSE "closed"]
    <3>1. /\ stage' = [stage EXCEPT ![p] = "over"] /\ round' = [round EXCEPT ![p] = round[p]]
          /\ client' = [client EXCEPT ![p] = c] /\ stage[p] \in {"scan", "joining"}
      BY <1>1, <2>4, PairLeaves DEF LP!JoinFails, LP!To
    <3>2. c \in [Sides -> ClientStates] /\ c.dapp = "closed"
      BY DEF Sides, ClientStates
    <3>3. Onward("over", round[p], round[p])
      BY DEF Onward
    <3> HIDE DEF c
    <3> QED  BY <3>1, <3>2, <3>3 DEF PairCloses
  <2> QED  BY <2>1, <2>2, <2>3, <2>4
<1>4. PairSound(s, r, ear[p].wallet, ear[p].dapp, loose[p], toWallet[p], toDapp[p], verdict[p])
  BY <1>1, <1>3, SoundMoves DEF SoundPair
<1>5. PairGoes(p, s, c, r, ear[p], loose[p], toWallet[p], toDapp[p], verdict[p])
  BY <1>1, <1>2, <1>3, PairLeaves DEF PairGoes
<1>6. stage[p] # "over"
  BY <1>2
<1> QED  BY <1>1, <1>2, <1>3, <1>4, <1>5, <1>6, PairStep

\* The dApp's connect(), which nobody awaits.
LEMMA PairDapp ==
  ASSUME PairsInv, LP!Running, NEW p \in LP!Ids, LP!DappConnects(p) \/ LP!DappFails(p)
  PROVE  PairsInv'
<1>1. /\ SoundPair(p) /\ ear[p] \in [Sides -> [LP!Rounds -> Marks]] /\ PairsTyped
      /\ client[p] \in [Sides -> ClientStates] /\ PairCloses(stage[p], client[p])
  BY EarIs DEF PairsInv
<1>2. PICK a \in {"connected", "closed"} :
        client' = [client EXCEPT ![p] = [client[p] EXCEPT !.dapp = a]]
  BY DEF LP!DappConnects, LP!DappFails
<1> DEFINE c == [client[p] EXCEPT !.dapp = a]
<1>3. c \in [Sides -> ClientStates] /\ c.wallet = client[p].wallet /\ c.dapp = a
  BY <1>1 DEF Sides, ClientStates
<1>4. client' = [client EXCEPT ![p] = c] /\ client[p].dapp = "connecting"
  BY <1>2 DEF LP!DappConnects, LP!DappFails
<1> HIDE DEF c
<1>5. PairCloses(stage[p], c)
  BY <1>1, <1>3, <1>4 DEF PairCloses
<1>6. test' = test /\ UNCHANGED <<stage, round, ear, loose, toWallet, toDapp, verdict>>
  BY DEF LP!DappConnects, LP!DappFails, LP!work
<1>7. PairGoes(p, stage[p], c, round[p], ear[p], loose[p], toWallet[p], toDapp[p], verdict[p])
  BY <1>1, <1>4, <1>6, PairLeaves DEF PairGoes
<1> QED  BY <1>1, <1>3, <1>5, <1>6, <1>7, PairStep DEF SoundPair

\* An exchange returns, and the task goes on.
LEMMA PairReturns ==
  ASSUME PairsInv, NEW p \in LP!Ids, NEW e, NEW b, LP!Returns(p, e, b)
  PROVE  \E s, r :
           /\ stage' = [stage EXCEPT ![p] = s] /\ round' = [round EXCEPT ![p] = r]
           /\ verdict' = [verdict EXCEPT ![p] = [verdict[p] EXCEPT ![round[p]] = e]]
           /\ Onward(s, r, round[p])
           /\ s \in {"pause", "dropped"} => LP!Steady
<1>1. /\ PairsTyped /\ verdict' = [verdict EXCEPT ![p] = [verdict[p] EXCEPT ![round[p]] = e]]
      /\ round = [round EXCEPT ![p] = round[p]]
  BY PairLeaves DEF LP!Returns, PairsInv, PairsTyped
<1>2. CASE LP!Steady
  <2> DEFINE s == IF b THEN "dropped" ELSE "pause"
  <2>1. stage' = [stage EXCEPT ![p] = s] /\ round' = round
    BY <1>2 DEF LP!Returns, LP!To
  <2>2. Onward(s, round[p], round[p])
    BY DEF Onward
  <2> QED  BY <1>1, <1>2, <2>1, <2>2
<1>3. CASE ~ LP!Steady
  <2> DEFINE m == round[p] < Messages
             s == IF m THEN "buffer" ELSE "over"
             r == IF m THEN round[p] + 1 ELSE round[p]
  <2>1. stage' = [stage EXCEPT ![p] = s] /\ round' = [round EXCEPT ![p] = r]
    BY <1>3 DEF LP!Returns, LP!Again, LP!To
  <2>2. Onward(s, r, round[p]) /\ s \notin {"pause", "dropped"}
    BY DEF Onward
  <2> HIDE DEF m, s, r
  <2> QED  BY <1>1, <2>1, <2>2
<1> QED  BY <1>2, <1>3

\* The exchange of a pair.
LEMMA PairSend == ASSUME PairsInv, LP!Running, NEW p \in LP!Ids, LP!Send(p)  PROVE PairsInv'
<1> DEFINE w == ear[p].wallet
           d == ear[p].dapp
           o == [at |-> "open", id |-> 0]
           x == [w EXCEPT ![round[p]] = o]
           y == [d EXCEPT ![round[p]] = o]
           e == [side \in {"dapp", "wallet"} |-> [ear[p][side] EXCEPT ![round[p]] = o]]
<1>1. /\ SoundPair(p) /\ PairsTyped /\ client[p] \in [Sides -> ClientStates]
      /\ w \in [LP!Rounds -> Marks] /\ d \in [LP!Rounds -> Marks] /\ ear[p] \in [Sides -> [LP!Rounds -> Marks]]
      /\ PairCloses(stage[p], client[p])
  BY EarIs DEF PairsInv
<1>2. /\ stage[p] = "buffer" /\ test' = test /\ UNCHANGED <<client, toWallet, toDapp>>
      /\ ear' = [ear EXCEPT ![p] = e]
  BY <1>1 DEF LP!Send, PairsTyped
<1>3. PairSound("sending", round[p], x, y, loose[p], toWallet[p], toDapp[p], verdict[p])
  BY <1>1, <1>2, SoundSends DEF SoundPair
<1>4. /\ x \in [LP!Rounds -> Marks] /\ y \in [LP!Rounds -> Marks]
  BY <1>3 DEF PairSound, PairTyped
<1>5. e.wallet = x /\ e.dapp = y /\ e \in [Sides -> [LP!Rounds -> Marks]]
  <2>1. e["wallet"] = x /\ e["dapp"] = y
    OBVIOUS
  <2>2. DOMAIN e = Sides /\ e = [side \in Sides |-> e[side]]
    BY DEF Sides
  <2> HIDE DEF e, x, y
  <2> QED  BY <1>4, <2>1, <2>2 DEF Sides
<1>6. CASE client[p].dapp = "connected" /\ LP!To(p, "sending") /\ UNCHANGED <<round, loose, verdict>>
  <2>1. PairGoes(p, "sending", client[p], round[p], e, loose[p], toWallet[p], toDapp[p], verdict[p])
    BY <1>1, <1>2, <1>6, PairLeaves DEF PairGoes, LP!To
  <2>2. PairCloses("sending", client[p])
    BY <1>1, <1>2 DEF PairCloses
  <2> HIDE DEF e, x, y, w, d
  <2> QED  BY <1>1, <1>2, <1>3, <1>5, <2>1, <2>2, PairStep
<1>7. CASE LP!Returns(p, "failed", TRUE) /\ loose' = [loose EXCEPT ![p] = loose[p] \union {round[p]}]
  <2>1. PICK s, r :
          /\ stage' = [stage EXCEPT ![p] = s] /\ round' = [round EXCEPT ![p] = r]
          /\ verdict' = [verdict EXCEPT ![p] = [verdict[p] EXCEPT ![round[p]] = "failed"]]
          /\ Onward(s, r, round[p])
          /\ s \in {"pause", "dropped"} => LP!Steady
    BY <1>7, PairReturns
  <2>2. PairSound(s, r, x, y, loose[p] \union {round[p]}, toWallet[p], toDapp[p],
                  [verdict[p] EXCEPT ![round[p]] = "failed"])
    <3> HIDE DEF x, y
    <3> QED  BY <1>3, <2>1, SoundFails
  <2>3. PairGoes(p, s, client[p], r, e, loose[p] \union {round[p]}, toWallet[p], toDapp[p],
                 [verdict[p] EXCEPT ![round[p]] = "failed"])
    BY <1>1, <1>2, <1>7, <2>1, PairLeaves DEF PairGoes
  <2>4. PairCloses(s, client[p])
    BY <1>1, <1>2, <2>1 DEF PairCloses
  <2> HIDE DEF e, x, y, w, d
  <2> QED  BY <1>1, <1>2, <1>5, <2>2, <2>3, <2>4, PairStep
<1> QED  BY <1>6, <1>7, <1>1 DEF LP!Send, PairsTyped

LEMMA PairSent ==
  ASSUME PairsInv, LP!Running, NEW p \in LP!Ids, LP!Sent(p) \/ LP!SendFails(p)
  PROVE  PairsInv'
<1>1. /\ SoundPair(p) /\ PairsTyped /\ client[p] \in [Sides -> ClientStates]
      /\ ear[p] \in [Sides -> [LP!Rounds -> Marks]] /\ PairCloses(stage[p], client[p])
      /\ stage[p] = "sending" /\ test' = test
  BY EarIs DEF PairsInv, LP!Sent, LP!SendFails
<1>2. CASE LP!Sent(p)
  <2> DEFINE t == Append(toWallet[p], round[p])
  <2>1. PairSound("waiting", round[p], ear[p].wallet, ear[p].dapp, loose[p], t, toDapp[p], verdict[p])
    BY <1>1, SoundSent DEF SoundPair
  <2>2. PairGoes(p, "waiting", client[p], round[p], ear[p], loose[p], t, toDapp[p], verdict[p])
    BY <1>1, <1>2, PairLeaves DEF PairGoes, LP!Sent, LP!To, PairsTyped
  <2>3. PairCloses("waiting", client[p])
    BY <1>1 DEF PairCloses
  <2> HIDE DEF t
  <2> QED  BY <1>1, <2>1, <2>2, <2>3, PairStep
<1>3. CASE LP!SendFails(p)
  <2>1. PICK s, r :
          /\ stage' = [stage EXCEPT ![p] = s] /\ round' = [round EXCEPT ![p] = r]
          /\ verdict' = [verdict EXCEPT ![p] = [verdict[p] EXCEPT ![round[p]] = "failed"]]
          /\ Onward(s, r, round[p])
          /\ s \in {"pause", "dropped"} => LP!Steady
    BY <1>3, PairReturns DEF LP!SendFails
  <2>2. PairSound(s, r, ear[p].wallet, ear[p].dapp, loose[p] \union {round[p]}, toWallet[p], toDapp[p],
                  [verdict[p] EXCEPT ![round[p]] = "failed"])
    BY <1>1, <2>1, SoundFails DEF SoundPair
  <2>3. PairGoes(p, s, client[p], r, ear[p], loose[p] \union {round[p]}, toWallet[p], toDapp[p],
                 [verdict[p] EXCEPT ![round[p]] = "failed"])
    <3>1. /\ loose' = [loose EXCEPT ![p] = loose[p] \union {round[p]}]
          /\ UNCHANGED <<client, ear, toWallet, toDapp>>
      BY <1>1, <1>3 DEF LP!SendFails, PairsTyped
    <3> QED  BY <1>1, <2>1, <3>1, PairLeaves DEF PairGoes
  <2>4. PairCloses(s, client[p])
    BY <1>1, <2>1 DEF PairCloses
  <2> QED  BY <1>1, <2>2, <2>3, <2>4, PairStep
<1> QED  BY <1>2, <1>3

LEMMA PairSettles ==
  ASSUME PairsInv, LP!Running, NEW p \in LP!Ids, LP!Settles(p)
  PROVE  PairsInv'
<1> DEFINE w == ear[p].wallet[round[p]]
           d == ear[p].dapp[round[p]]
<1>1. /\ SoundPair(p) /\ PairsTyped /\ client[p] \in [Sides -> ClientStates]
      /\ ear[p] \in [Sides -> [LP!Rounds -> Marks]] /\ PairCloses(stage[p], client[p])
      /\ stage[p] = "waiting" /\ test' = test
  BY EarIs DEF PairsInv, LP!Settles
<1>2. PICK e :
        /\ LP!Returns(p, e, FALSE)
        /\ \/ w.at = "answered" /\ d.at = "heard" /\ e = IF d.id = round[p] THEN "ok" ELSE "mismatch"
           \/ (w.at \in {"failed", "late"} \/ d.at = "late") /\ e = "failed"
  BY DEF LP!Settles
<1>3. PICK s, r :
        /\ stage' = [stage EXCEPT ![p] = s] /\ round' = [round EXCEPT ![p] = r]
        /\ verdict' = [verdict EXCEPT ![p] = [verdict[p] EXCEPT ![round[p]] = e]]
        /\ Onward(s, r, round[p])
        /\ s \in {"pause", "dropped"} => LP!Steady
  BY <1>2, PairReturns
<1>4. PairSound(s, r, ear[p].wallet, ear[p].dapp, loose[p], toWallet[p], toDapp[p],
                [verdict[p] EXCEPT ![round[p]] = e])
  <2>1. PairSound("waiting", round[p], ear[p].wallet, ear[p].dapp, loose[p], toWallet[p], toDapp[p],
                  verdict[p])
    BY <1>1 DEF SoundPair
  <2> QED  BY <1>2, <1>3, <2>1, SoundSettles
<1>5. PairGoes(p, s, client[p], r, ear[p], loose[p], toWallet[p], toDapp[p],
               [verdict[p] EXCEPT ![round[p]] = e])
  <2>1. UNCHANGED <<client, ear, loose, toWallet, toDapp>>
    BY DEF LP!Settles
  <2> QED  BY <1>1, <1>3, <2>1, PairLeaves DEF PairGoes
<1>6. PairCloses(s, client[p])
  BY <1>1, <1>3 DEF PairCloses
<1> QED  BY <1>1, <1>4, <1>5, <1>6, PairStep

LEMMA PairWakes ==
  ASSUME PairsInv, LP!Running, NEW p \in LP!Ids, LP!Wake(p)
  PROVE  PairsInv'
<1> DEFINE m == ~ test.late
           s == IF m THEN "buffer" ELSE "over"
           r == IF m THEN round[p] + 1 ELSE round[p]
<1>1. /\ SoundPair(p) /\ PairsTyped /\ client[p] \in [Sides -> ClientStates]
      /\ ear[p] \in [Sides -> [LP!Rounds -> Marks]] /\ PairCloses(stage[p], client[p])
      /\ stage[p] = "pause" /\ test' = test /\ UNCHANGED <<client, ear, loose, toWallet, toDapp, verdict>>
  BY EarIs DEF PairsInv, LP!Wake, LP!work
<1>2. stage' = [stage EXCEPT ![p] = s] /\ round' = [round EXCEPT ![p] = r]
  BY DEF LP!Wake, LP!Again, LP!To
<1>3. s \in {"buffer", "over"} /\ Onward(s, r, round[p])
  BY DEF LP!Wake, Onward
<1> HIDE DEF m, s, r
<1>4. PairSound(s, r, ear[p].wallet, ear[p].dapp, loose[p], toWallet[p], toDapp[p], verdict[p])
  BY <1>1, <1>3, SoundMoves DEF SoundPair
<1>5. PairGoes(p, s, client[p], r, ear[p], loose[p], toWallet[p], toDapp[p], verdict[p])
  BY <1>1, <1>2, PairLeaves DEF PairGoes
<1>6. PairCloses(s, client[p])
  BY <1>1, <1>3 DEF PairCloses
<1> QED  BY <1>1, <1>4, <1>5, <1>6, PairStep

\* A listener hears a message, answers, fails or is late.
LEMMA PairListens ==
  ASSUME PairsInv, LP!Running, NEW p \in LP!Ids, NEW side \in Sides, NEW x,
         ear' = [ear EXCEPT ![p] = [ear[p] EXCEPT ![side] = x]],
         NEW tw, NEW td, toWallet' = [toWallet EXCEPT ![p] = tw], toDapp' = [toDapp EXCEPT ![p] = td],
         PairSound(stage[p], round[p], IF side = "wallet" THEN x ELSE ear[p].wallet,
                   IF side = "dapp" THEN x ELSE ear[p].dapp, loose[p], tw, td, verdict[p]),
         test' = test \/ test' = [test EXCEPT !.phase = "dead"],
         UNCHANGED <<stage, client, round, loose, verdict>>
  PROVE  PairsInv'
<1> DEFINE e == [ear[p] EXCEPT ![side] = x]
<1>1. /\ PairsTyped /\ client[p] \in [Sides -> ClientStates]
      /\ ear[p] \in [Sides -> [LP!Rounds -> Marks]] /\ PairCloses(stage[p], client[p])
  BY EarIs DEF PairsInv
<1>2. /\ e.wallet = IF side = "wallet" THEN x ELSE ear[p].wallet
      /\ e.dapp = IF side = "dapp" THEN x ELSE ear[p].dapp
  BY <1>1 DEF Sides
<1>3. x \in [LP!Rounds -> Marks]
  BY DEF PairSound, PairTyped, Sides
<1>4. e \in [Sides -> [LP!Rounds -> Marks]]
  BY <1>1, <1>3
<1>5. ear' = [ear EXCEPT ![p] = e]
  OBVIOUS
<1> HIDE DEF e
<1>6. PairSound(stage[p], round[p], e.wallet, e.dapp, loose[p], tw, td, verdict[p])
  BY <1>2
<1>7. PairGoes(p, stage[p], client[p], round[p], e, loose[p], tw, td, verdict[p])
  BY <1>1, <1>5, PairLeaves DEF PairGoes
<1> QED  BY <1>1, <1>4, <1>6, <1>7, PairStep

LEMMA PairHears ==
  ASSUME PairsInv, LP!Running, NEW p \in LP!Ids, LP!WalletHears(p) \/ LP!DappHears(p)
  PROVE  PairsInv'
<1>1. /\ SoundPair(p) /\ PairsTyped /\ ear[p] \in [Sides -> [LP!Rounds -> Marks]]
  BY EarIs DEF PairsInv
<1>2. CASE LP!WalletHears(p)
  <2> DEFINE x == [k \in LP!Rounds |-> IF ear[p]["wallet"][k].at = "open"
                                        THEN [at |-> "answering", id |-> Head(toWallet[p])]
                                        ELSE ear[p]["wallet"][k]]
  <2>1. /\ ear' = [ear EXCEPT ![p] = [ear[p] EXCEPT !["wallet"] = x]]
        /\ toWallet' = [toWallet EXCEPT ![p] = Tail(toWallet[p])] /\ toWallet[p] # <<>>
        /\ toDapp' = [toDapp EXCEPT ![p] = toDapp[p]]
        /\ test' = test /\ UNCHANGED <<stage, client, round, loose, verdict>>
    BY <1>1, <1>2, PairLeaves DEF LP!WalletHears, LP!Hear, PairsTyped
  <2>2. PairSound(stage[p], round[p], x, ear[p].dapp, loose[p], Tail(toWallet[p]), toDapp[p], verdict[p])
    BY <1>1, <2>1, SoundWalletHears DEF SoundPair
  <2> HIDE DEF x
  <2> QED  BY <2>1, <2>2, PairListens DEF Sides
<1>3. CASE LP!DappHears(p)
  <2> DEFINE x == [k \in LP!Rounds |-> IF ear[p]["dapp"][k].at = "open"
                                        THEN [at |-> "heard", id |-> Head(toDapp[p])]
                                        ELSE ear[p]["dapp"][k]]
  <2>1. /\ ear' = [ear EXCEPT ![p] = [ear[p] EXCEPT !["dapp"] = x]]
        /\ toDapp' = [toDapp EXCEPT ![p] = Tail(toDapp[p])] /\ toDapp[p] # <<>>
        /\ toWallet' = [toWallet EXCEPT ![p] = toWallet[p]]
        /\ test' = test /\ UNCHANGED <<stage, client, round, loose, verdict>>
    BY <1>1, <1>3, PairLeaves DEF LP!DappHears, LP!Hear, PairsTyped
  <2>2. PairSound(stage[p], round[p], ear[p].wallet, x, loose[p], toWallet[p], Tail(toDapp[p]), verdict[p])
    BY <1>1, <2>1, SoundDappHears DEF SoundPair
  <2> HIDE DEF x
  <2> QED  BY <2>1, <2>2, PairListens DEF Sides
<1> QED  BY <1>2, <1>3

LEMMA PairAnswers ==
  ASSUME PairsInv, LP!Running, NEW p \in LP!Ids, NEW k \in LP!Rounds,
         LP!Answers(p, k) \/ LP!AnswerFails(p, k)
  PROVE  PairsInv'
<1>1. /\ SoundPair(p) /\ PairsTyped /\ ear[p] \in [Sides -> [LP!Rounds -> Marks]]
  BY EarIs DEF PairsInv
<1> DEFINE a == IF LP!Answers(p, k) THEN "answered" ELSE "failed"
           x == [ear[p]["wallet"] EXCEPT ![k] = [at |-> a, id |-> ear[p]["wallet"][k].id]]
           y == IF a = "answered" THEN Append(toDapp[p], k) ELSE toDapp[p]
<1>2. /\ a \in {"answered", "failed"} /\ ear[p].wallet[k].at = "answering"
      /\ toWallet' = [toWallet EXCEPT ![p] = toWallet[p]]
      /\ test' = test \/ test' = [test EXCEPT !.phase = "dead"]
      /\ UNCHANGED <<stage, client, round, loose, verdict>>
  BY <1>1, PairLeaves DEF LP!Answers, LP!AnswerFails, LP!Rejects
<1>3. ear' = [ear EXCEPT ![p] = [ear[p] EXCEPT !["wallet"] = x]] /\ toDapp' = [toDapp EXCEPT ![p] = y]
  <2>1. CASE LP!Answers(p, k)
    BY <1>1, <2>1 DEF LP!Answers, LP!Mark, PairsTyped
  <2>2. CASE ~ LP!Answers(p, k) /\ LP!AnswerFails(p, k)
    BY <1>1, <2>2, PairLeaves DEF LP!AnswerFails, LP!Mark, PairsTyped
  <2> QED  BY <2>1, <2>2
<1>4. PairSound(stage[p], round[p], x, ear[p].dapp, loose[p], toWallet[p], y, verdict[p])
  <2> HIDE DEF a
  <2> QED  BY <1>1, <1>2, SoundAnswers DEF SoundPair
<1> HIDE DEF a, x, y
<1> QED  BY <1>2, <1>3, <1>4, PairListens DEF Sides

LEMMA PairTimesOut ==
  ASSUME PairsInv, LP!Running, NEW p \in LP!Ids, NEW k \in LP!Rounds, NEW side \in Sides,
         LP!TimesOut(p, side, k)
  PROVE  PairsInv'
<1>1. /\ SoundPair(p) /\ PairsTyped /\ ear[p] \in [Sides -> [LP!Rounds -> Marks]]
  BY EarIs DEF PairsInv
<1> DEFINE x == [ear[p][side] EXCEPT ![k] = [at |-> "late", id |-> 0]]
<1>2. /\ ear[p][side][k].at = "open" /\ (side = "dapp" => ear[p].wallet[k].at # "open")
      /\ ear' = [ear EXCEPT ![p] = [ear[p] EXCEPT ![side] = x]]
      /\ toWallet' = [toWallet EXCEPT ![p] = toWallet[p]] /\ toDapp' = [toDapp EXCEPT ![p] = toDapp[p]]
      /\ test' = test \/ test' = [test EXCEPT !.phase = "dead"]
      /\ UNCHANGED <<stage, client, round, loose, verdict>>
  BY <1>1, PairLeaves DEF LP!TimesOut, LP!Rejects, LP!Mark, PairsTyped
<1>3. PairSound(stage[p], round[p], IF side = "wallet" THEN x ELSE ear[p].wallet,
                IF side = "dapp" THEN x ELSE ear[p].dapp, loose[p], toWallet[p], toDapp[p], verdict[p])
  BY <1>1, <1>2, SoundTimesOut DEF SoundPair, Sides
<1> HIDE DEF x
<1> QED  BY <1>2, <1>3, PairListens

\* The steps of the test itself.
LEMMA PairsTest ==
  ASSUME PairsInv, LP!Running, LP!Late \/ LP!RampEnds \/ LP!AllOver \/ LP!Close
  PROVE  PairsInv'
<1>1. PairsTyped /\ SessionCloses /\ test \in Tests
  BY DEF PairsInv, PairsTyped
<1>2. UNCHANGED <<stage, round, ear, loose, toWallet, toDapp, verdict>>
  BY DEF LP!Late, LP!RampEnds, LP!AllOver, LP!Close, LP!work
<1>3. \A p \in LP!Ids : SoundPair(p)'
  BY <1>2 DEF PairsInv, SoundPair
<1>4. CASE ~ LP!Close
  <2>1. test' \in Tests /\ test'.name = test.name /\ client' = client
    <3> DEFINE a == IF LP!Steady THEN LP!Ids \ LP!Unset ELSE LP!Ids
    <3>1. /\ client' = client
          /\ \/ test' = [test EXCEPT !.late = TRUE]
             \/ test' = [test EXCEPT !.phase = "messaging", !.awaited = a]
             \/ test' = [test EXCEPT !.phase = "closing"]
      BY <1>4 DEF LP!Late, LP!RampEnds, LP!AllOver
    <3>2. a \in SUBSET LP!Ids
      OBVIOUS
    <3> HIDE DEF a
    <3> QED  BY <1>1, <3>1, <3>2 DEF Tests
  <2>2. LP!Steady' = LP!Steady
    BY <2>1 DEF LP!Steady
  <2>3. SessionCloses'
    <3>1. CASE LP!Late
      BY <1>1, <1>2, <2>1, <2>2, <3>1 DEF LP!Late, SessionCloses
    <3>2. CASE LP!RampEnds
      <4>1. test'.phase = "messaging" /\ (~ LP!Steady => test'.awaited = LP!Ids)
        BY <1>1, <3>2 DEF LP!RampEnds, Tests
      <4> QED  BY <2>2, <4>1 DEF SessionCloses
    <3>3. CASE LP!AllOver
      <4>1. /\ test'.phase = "closing" /\ test.phase = "messaging"
            /\ \A p \in test.awaited : stage[p] \in {"over", "dropped"}
        BY <1>1, <3>3 DEF LP!AllOver, Tests
      <4>2. ASSUME ~ LP!Steady, NEW p \in LP!Ids  PROVE stage[p] = "over"
        BY <1>1, <4>1, <4>2 DEF PairsInv, SessionCloses, PairCloses
      <4> QED  BY <1>2, <2>2, <4>1, <4>2 DEF SessionCloses
    <3> QED  BY <1>4, <3>1, <3>2, <3>3
  <2>4. \A p \in LP!Ids : PairCloses(stage[p], client[p])'
    BY <1>2, <2>1, <2>2 DEF PairsInv, PairCloses
  <2> QED  BY <1>1, <1>2, <1>3, <2>1, <2>3, <2>4 DEF PairsInv, PairsTyped
<1>5. CASE LP!Close
  <2>1. /\ test.phase = "closing" /\ test' = [test EXCEPT !.phase = "done"]
        /\ client' = [p \in LP!Ids |->
                        IF stage[p] = "dropped" \/ client[p].wallet = "off" THEN client[p]
                        ELSE [dapp |-> "closed", wallet |-> "closed"]]
    BY <1>5 DEF LP!Close
  <2>2. test' \in Tests /\ test'.name = test.name /\ test'.phase = "done"
    BY <1>1, <2>1 DEF Tests
  <2>3. LP!Steady' = LP!Steady
    BY <2>2 DEF LP!Steady
  <2> DEFINE c == [dapp |-> "closed", wallet |-> "closed"]
  <2>4. c \in [Sides -> ClientStates] /\ c.dapp = "closed" /\ c.wallet = "closed"
    BY DEF Sides, ClientStates
  <2>5. \A p \in LP!Ids :
          client'[p] = IF stage[p] = "dropped" \/ client[p].wallet = "off" THEN client[p] ELSE c
    BY <2>1
  <2> HIDE DEF c
  <2>6. client' \in [LP!Ids -> [Sides -> ClientStates]]
    <3>1. client' = [p \in LP!Ids |-> client'[p]]
      BY <2>1
    <3> QED  BY <1>1, <2>4, <2>5, <3>1 DEF PairsTyped
  <2>7. ASSUME NEW p \in LP!Ids  PROVE PairCloses(stage[p], client[p])'
    BY <1>2, <2>3, <2>4, <2>5 DEF PairsInv, PairCloses
  <2>8. SessionCloses'
    <3>1. ASSUME ~ LP!Steady, NEW p \in LP!Ids
          PROVE  stage[p] = "over" /\ client'[p].dapp = "closed" /\ client'[p].wallet \in {"off", "closed"}
      <4>1. stage[p] = "over" /\ PairCloses(stage[p], client[p])
        BY <1>1, <2>1, <3>1 DEF PairsInv, SessionCloses
      <4> QED  BY <2>4, <2>5, <4>1 DEF PairCloses
    <3> QED  BY <1>2, <2>2, <2>3, <3>1 DEF SessionCloses
  <2> QED  BY <1>1, <1>2, <1>3, <2>2, <2>6, <2>7, <2>8 DEF PairsInv, PairsTyped
<1> QED  BY <1>4, <1>5

LEMMA PairsStep == PairsInv /\ [LP!Next]_(LP!vars) => PairsInv'
<1> SUFFICES ASSUME PairsInv, [LP!Next]_(LP!vars)  PROVE PairsInv'
  OBVIOUS
<1>1. ASSUME LP!Running, NEW p \in LP!Ids, LP!Step(p)  PROVE PairsInv'
  BY <1>1, PairSetup, PairDapp, PairSend, PairSent, PairHears, PairSettles, PairWakes, PairAnswers,
     PairTimesOut DEF LP!Step, Sides
<1>2. CASE UNCHANGED LP!vars
  BY <1>2 DEF LP!vars, PairsInv, PairsTyped, SessionCloses, SoundPair, PairCloses, LP!Steady
<1> QED  BY <1>1, <1>2, PairsTest DEF LP!Next

LEMMA PairsEnd ==
  ASSUME PairsInv
  PROVE  LP!ExchangesMatch /\ LP!AnsweredOnce /\ LP!ReportIsFinal
<1>1. ASSUME NEW p \in LP!Ids, NEW k \in LP!Rounds, verdict[p][k] \in {"ok", "mismatch"}
      PROVE  \/ verdict[p][k] = "ok" /\ ear[p].wallet[k].id = k
             \/ \E j \in 1 .. k - 1 : LP!Failed(p, j)
  BY <1>1 DEF PairsInv, SoundPair, PairSound, Matches, LP!Failed
<1>2. ASSUME NEW p \in LP!Ids, loose[p] = {}, NEW j \in LP!Rounds, NEW k \in LP!Rounds, j # k,
             ear[p].wallet[j].id # 0
      PROVE  ear[p].wallet[j].id # ear[p].wallet[k].id
  BY <1>2 DEF PairsInv, SoundPair, PairSound, HeardOnce
<1>3. LP!ReportIsFinal
  BY DEF PairsInv, SessionCloses, LP!ReportIsFinal
<1> QED  BY <1>1, <1>2, <1>3 DEF LP!ExchangesMatch, LP!AnsweredOnce

-----------------------------------------------------------------------------
(* The wallet of rn-demo *)

LEMMA ClientPair ==
  ASSUME NEW c \in WA!WalletClients
  PROVE  WA!Of(c) \in Requests /\ c # WA!Nobody /\ c[2] \in 0 .. MaxScans
  BY DEF WA!WalletClients, WA!Of, WA!Nobody

InMap == {"open", "dropping", "ending", "over"}

\* The variables other than the lists and what the screen shows of them.
ManagerTyped ==
  /\ phase \in {"resuming", "over", "unmounted"}
  /\ stored \subseteq Requests
  /\ at \in [WA!WalletClients -> WA!Places]
  /\ clients \in [Requests -> WA!WalletClients \union {WA!Nobody}]
  /\ \A s \in WA!Kept : WA!Of(clients[s]) = s /\ at[clients[s]] \in InMap
  /\ crossed \in BOOLEAN /\ expired \subseteq Requests
  /\ twice \subseteq Requests /\ hurt \subseteq Requests

ListsTyped == lists \in Seq(SUBSET SUBSET Requests) /\ shown \subseteq Requests

LEMMA TypeIsTyped == WA!TypeOK <=> ManagerTyped /\ ListsTyped
  BY DEF WA!TypeOK, ManagerTyped, ListsTyped, InMap

-----------------------------------------------------------------------------
(* The session of a client.  A session that is neither twice nor hurt has  *)
(* at most one client about, and where that client is says whether there   *)
(* is a record and what the map has; a session that has expired may lose   *)
(* its record wherever its client is, and leave a client in the map.       *)

Recorded(s) == s \in stored \/ s \in expired

SessionInv(s) ==
  /\ \A c, d \in WA!About(s) : c = d
  /\ WA!About(s) = {} => s \notin stored /\ (clients[s] = WA!Nobody \/ s \in expired)
  /\ \A c \in WA!About(s) :
       /\ at[c] \in {"scanned", "offered"} => s \notin stored /\ clients[s] = WA!Nobody
       /\ at[c] \in {"resuming", "unresumed", "saved"} => Recorded(s) /\ clients[s] = WA!Nobody
       /\ at[c] = "open" => Recorded(s) /\ clients[s] = c
       /\ at[c] = "dropping" => (s \notin stored /\ clients[s] = WA!Nobody) \/ s \in expired
       /\ at[c] = "ending" => clients[s] \in {c, WA!Nobody}

ManagerInv == ManagerTyped /\ \A s \in WA!Plain : SessionInv(s)

LEMMA ManagerInit == WA!Init => ManagerInv
<1> SUFFICES ASSUME WA!Init PROVE ManagerInv
  OBVIOUS
<1>1. WA!Kept = {}
  BY DEF WA!Init, WA!Kept
<1>2. at \in [WA!WalletClients -> WA!Places]
  BY DEF WA!Init, WA!Places
<1>3. ManagerTyped
  BY <1>1, <1>2 DEF WA!Init, ManagerTyped
<1>4. ASSUME NEW s \in WA!Plain PROVE SessionInv(s)
  <2>1. \A c \in WA!About(s) : c = <<s, 0>> /\ at[c] = "resuming" /\ s \in stored
    BY <1>4 DEF WA!Init, WA!About, WA!WalletClients, WA!Of, WA!Plain
  <2>2. s \in stored => <<s, 0>> \in WA!About(s)
    BY ScansAssumption DEF WA!Init, WA!About, WA!WalletClients, WA!Of
  <2>3. clients[s] = WA!Nobody
    BY <1>4 DEF WA!Init, WA!Plain
  <2> QED BY <2>1, <2>2, <2>3 DEF SessionInv, Recorded
<1> QED BY <1>3, <1>4 DEF ManagerInv

\* A session of which no client moves, whose place in the map stays, and whose
\* record goes only if it has expired.
LEMMA Apart ==
  ASSUME NEW s, SessionInv(s),
         \A c \in WA!WalletClients : WA!Of(c) = s => at'[c] = at[c],
         clients'[s] = clients[s], expired \subseteq expired',
         s \in stored' => s \in stored, s \in stored => Recorded(s)'
  PROVE  SessionInv(s)'
<1>1. WA!About(s)' = WA!About(s)
  BY DEF WA!About
<1>2. \A c \in WA!About(s) : c \in WA!WalletClients /\ WA!Of(c) = s /\ at'[c] = at[c]
  BY DEF WA!About
<1>3. Recorded(s) => Recorded(s)'
  BY DEF Recorded
<1> QED BY <1>1, <1>2, <1>3 DEF SessionInv

\* A client of s moves on and stays about.
LEMMA MovesOn ==
  ASSUME ManagerInv, NEW c \in WA!WalletClients, NEW p \in WA!Places \ {"none", "over"}, SessionInv(WA!Of(c)),
         at[c] \notin {"none", "over"} \/ WA!About(WA!Of(c)) = {},
         at' = [at EXCEPT ![c] = p],
         p \in {"scanned", "offered"} => WA!Of(c) \notin stored' /\ clients'[WA!Of(c)] = WA!Nobody,
         p \in {"resuming", "unresumed", "saved"} => Recorded(WA!Of(c))' /\ clients'[WA!Of(c)] = WA!Nobody,
         p = "open" => Recorded(WA!Of(c))' /\ clients'[WA!Of(c)] = c,
         p = "dropping" => (WA!Of(c) \notin stored' /\ clients'[WA!Of(c)] = WA!Nobody) \/ WA!Of(c) \in expired',
         p = "ending" => clients'[WA!Of(c)] \in {c, WA!Nobody}
  PROVE  SessionInv(WA!Of(c))'
<1>1. at'[c] = p /\ \A d \in WA!WalletClients \ {c} : at'[d] = at[d]
  BY DEF ManagerInv, ManagerTyped
<1>2. WA!About(WA!Of(c))' = {c}
  BY <1>1 DEF WA!About, SessionInv
<1> QED BY <1>1, <1>2 DEF SessionInv

\* The client of s is over, and so is s.
LEMMA MovesOut ==
  ASSUME ManagerInv, NEW c \in WA!WalletClients, SessionInv(WA!Of(c)), at[c] \notin {"none", "over"},
         at' = [at EXCEPT ![c] = "over"],
         WA!Of(c) \notin stored', clients'[WA!Of(c)] = WA!Nobody \/ WA!Of(c) \in expired'
  PROVE  SessionInv(WA!Of(c))'
<1>1. at'[c] = "over" /\ \A d \in WA!WalletClients \ {c} : at'[d] = at[d]
  BY DEF ManagerInv, ManagerTyped
<1>2. WA!About(WA!Of(c))' = {}
  BY <1>1 DEF WA!About, SessionInv
<1> QED BY <1>2 DEF SessionInv

-----------------------------------------------------------------------------
(* One step of a client *)

\* The other sessions, when client c moves.
LEMMA Others ==
  ASSUME ManagerInv, NEW c \in WA!WalletClients, NEW p, at' = [at EXCEPT ![c] = p],
         \A s \in Requests \ {WA!Of(c)} : clients'[s] = clients[s] /\ (s \in stored' <=> s \in stored),
         twice \subseteq twice', hurt \subseteq hurt', expired' = expired,
         WA!Of(c) \in WA!Plain' => SessionInv(WA!Of(c))'
  PROVE  \A s \in WA!Plain' : SessionInv(s)'
<1> SUFFICES ASSUME NEW s \in WA!Plain', s # WA!Of(c) PROVE SessionInv(s)'
  OBVIOUS
<1>1. s \in WA!Plain /\ s \in Requests
  BY DEF WA!Plain
<1>2. SessionInv(s)
  BY <1>1 DEF ManagerInv
<1>3. \A d \in WA!WalletClients : WA!Of(d) = s => at'[d] = at[d]
  BY DEF ManagerInv, ManagerTyped
<1> QED BY <1>1, <1>2, <1>3, Apart DEF Recorded

\* A client moves and the map stays: if the map has it, to a place for that.
LEMMA Moves ==
  ASSUME ManagerTyped, NEW c \in WA!WalletClients, NEW p \in WA!Places, at' = [at EXCEPT ![c] = p],
         at[c] \in InMap => p \in InMap,
         UNCHANGED clients
  PROVE  /\ at' \in [WA!WalletClients -> WA!Places]
         /\ \A s \in WA!Kept' : WA!Of(clients'[s]) = s /\ at'[clients'[s]] \in InMap
  BY ClientPair DEF ManagerTyped, WA!Kept

LEMMA MovesTyped ==
  ASSUME ManagerTyped, NEW c \in WA!WalletClients, NEW p \in WA!Places, at' = [at EXCEPT ![c] = p],
         at[c] \in InMap => p \in InMap,
         phase' \in {phase, "over"}, UNCHANGED <<clients, crossed, expired>>,
         stored' \subseteq stored \union {WA!Of(c)},
         twice' \subseteq twice \union {WA!Of(c)}, hurt' \subseteq hurt \union {WA!Of(c)}
  PROVE  ManagerTyped'
<1>1. /\ at' \in [WA!WalletClients -> WA!Places]
      /\ \A s \in WA!Kept' : WA!Of(clients'[s]) = s /\ at'[clients'[s]] \in InMap
  BY Moves
<1>2. WA!Of(c) \in Requests
  BY ClientPair
<1> QED BY <1>1, <1>2 DEF ManagerTyped

\* A client comes into the map.
LEMMA ComesIn ==
  ASSUME ManagerTyped, NEW c \in WA!WalletClients, NEW p \in InMap, at' = [at EXCEPT ![c] = p],
         clients' = [clients EXCEPT ![WA!Of(c)] = c]
  PROVE  /\ at' \in [WA!WalletClients -> WA!Places]
         /\ clients' \in [Requests -> WA!WalletClients \union {WA!Nobody}]
         /\ \A s \in WA!Kept' : WA!Of(clients'[s]) = s /\ at'[clients'[s]] \in InMap
<1>1. p \in WA!Places
  BY DEF InMap, WA!Places
<1>2. \A s \in Requests : clients'[s] = IF s = WA!Of(c) THEN c ELSE clients[s]
  BY ClientPair DEF ManagerTyped
<1>3. \A d \in WA!WalletClients : at'[d] = IF d = c THEN p ELSE at[d]
  BY DEF ManagerTyped
<1>4. \A s \in WA!Kept' \ {WA!Of(c)} : s \in WA!Kept /\ clients[s] \in WA!WalletClients
  BY <1>2 DEF ManagerTyped, WA!Kept
<1>5. \A s \in WA!Kept' \ {WA!Of(c)} : WA!Of(clients'[s]) = s /\ at'[clients'[s]] \in InMap
  BY <1>2, <1>3, <1>4 DEF ManagerTyped, WA!Kept
<1>6. WA!Of(c) \in Requests
  BY ClientPair
<1> QED BY <1>1, <1>2, <1>3, <1>5, <1>6 DEF ManagerTyped

LEMMA StartupSteps ==
  ASSUME ManagerInv, NEW c \in WA!WalletClients,
         WA!Resumed(c) \/ WA!ResumeFails(c) \/ WA!Forgotten(c) \/ WA!ForgetFails(c)
  PROVE  ManagerInv'
<1> USE ClientPair
<1>1. at[c] \in {"resuming", "unresumed"}
  BY DEF WA!Resumed, WA!ResumeFails, WA!Forgotten, WA!ForgetFails
<1>2. c \in WA!About(WA!Of(c))
  BY <1>1 DEF WA!About
<1>3. WA!Of(c) \in WA!Plain => SessionInv(WA!Of(c)) /\ Recorded(WA!Of(c)) /\ clients[WA!Of(c)] = WA!Nobody
  BY <1>1, <1>2 DEF ManagerInv, SessionInv
<1>4. CASE WA!Resumed(c)
  <2>1. ManagerTyped'
    BY <1>4, ComesIn DEF WA!Resumed, ManagerInv, ManagerTyped, InMap, WA!history, WA!screen
  <2>2. WA!Of(c) \in WA!Plain' => SessionInv(WA!Of(c))'
    BY <1>1, <1>3, <1>4, MovesOn DEF WA!Resumed, ManagerInv, ManagerTyped, Recorded, WA!Places, WA!Plain, WA!history
  <2> QED BY <1>4, <2>1, <2>2, Others DEF WA!Resumed, ManagerInv, ManagerTyped, WA!history
<1>5. CASE WA!ResumeFails(c)
  <2>1. ManagerTyped'
    BY <1>5, MovesTyped DEF WA!ResumeFails, ManagerInv, InMap, WA!Places, WA!history, WA!screen
  <2>2. WA!Of(c) \in WA!Plain' => SessionInv(WA!Of(c))'
    BY <1>1, <1>3, <1>5, MovesOn DEF WA!ResumeFails, Recorded, WA!Places, WA!Plain, WA!history
  <2> QED BY <1>5, <2>1, <2>2, Others DEF WA!ResumeFails, ManagerInv, WA!history
<1>6. CASE WA!Forgotten(c)
  <2>1. ManagerTyped'
    BY <1>6, MovesTyped DEF WA!Forgotten, ManagerInv, InMap, WA!Places, WA!history, WA!screen
  <2>2. WA!Of(c) \in WA!Plain' => SessionInv(WA!Of(c))'
    BY <1>1, <1>3, <1>6, MovesOut DEF WA!Forgotten, WA!Plain, WA!history
  <2> QED BY <1>6, <2>1, <2>2, Others DEF WA!Forgotten, ManagerInv, WA!history
<1>7. CASE WA!ForgetFails(c)
  <2>1. ManagerTyped'
    BY <1>7, MovesTyped DEF WA!ForgetFails, ManagerInv, InMap, WA!Places, WA!screen
  <2>2. WA!Of(c) \notin WA!Plain'
    BY <1>7 DEF WA!ForgetFails, WA!Plain
  <2> QED BY <1>7, <2>1, <2>2, Others DEF WA!ForgetFails, ManagerInv
<1> QED BY <1>4, <1>5, <1>6, <1>7

LEMMA PairingSteps ==
  ASSUME ManagerInv, NEW c \in WA!WalletClients,
         WA!Scan(c) \/ WA!Offered(c) \/ WA!Saved(c) \/ WA!Paired(c) \/ WA!PairingFails(c)
  PROVE  ManagerInv'
<1> USE ClientPair
<1>1. ASSUME at[c] \in {"scanned", "offered", "saved"}, WA!Of(c) \in WA!Plain
      PROVE  /\ SessionInv(WA!Of(c)) /\ clients[WA!Of(c)] = WA!Nobody
             /\ at[c] = "saved" => Recorded(WA!Of(c))
             /\ at[c] # "saved" => WA!Of(c) \notin stored
  <2>1. c \in WA!About(WA!Of(c))
    BY <1>1 DEF WA!About
  <2> QED BY <1>1, <2>1 DEF ManagerInv, SessionInv
<1>2. CASE WA!Scan(c)
  <2>1. ManagerTyped'
    <3>1. twice' \subseteq twice \union {WA!Of(c)}
      BY <1>2 DEF WA!Scan
    <3> QED BY <1>2, <3>1, MovesTyped DEF WA!Scan, ManagerInv, InMap, WA!Places, WA!screen
  <2>2. WA!Of(c) \in WA!Plain' => SessionInv(WA!Of(c))'
    <3>1. SUFFICES ASSUME WA!Of(c) \in WA!Plain' PROVE SessionInv(WA!Of(c))'
      OBVIOUS
    <3>2. WA!About(WA!Of(c)) = {} /\ clients[WA!Of(c)] = WA!Nobody /\ WA!Of(c) \notin stored /\ SessionInv(WA!Of(c))
      BY <1>2, <3>1 DEF WA!Scan, WA!Plain, ManagerInv
    <3> QED BY <1>2, <3>2, MovesOn DEF WA!Scan, WA!Places
  <2>3. twice \subseteq twice'
    BY <1>2 DEF WA!Scan
  <2> QED BY <1>2, <2>1, <2>2, <2>3, Others DEF WA!Scan, ManagerInv
<1>3. CASE WA!Offered(c)
  <2>1. ManagerTyped'
    BY <1>3, MovesTyped DEF WA!Offered, ManagerInv, InMap, WA!Places, WA!history, WA!screen
  <2>2. WA!Of(c) \in WA!Plain' => SessionInv(WA!Of(c))'
    BY <1>1, <1>3, MovesOn DEF WA!Offered, WA!Places, WA!Plain, WA!history
  <2> QED BY <1>3, <2>1, <2>2, Others DEF WA!Offered, ManagerInv, WA!history
<1>4. CASE WA!Saved(c)
  <2>1. ManagerTyped'
    BY <1>4, MovesTyped DEF WA!Saved, ManagerInv, InMap, WA!Places, WA!history, WA!screen
  <2>2. WA!Of(c) \in WA!Plain' => SessionInv(WA!Of(c))'
    BY <1>1, <1>4, MovesOn DEF WA!Saved, Recorded, WA!Places, WA!Plain, WA!history
  <2> QED BY <1>4, <2>1, <2>2, Others DEF WA!Saved, ManagerInv, WA!history
<1>5. CASE WA!Paired(c)
  <2>1. ManagerTyped'
    BY <1>5, ComesIn DEF WA!Paired, WA!Changed, ManagerInv, ManagerTyped, InMap, WA!history
  <2>2. WA!Of(c) \in WA!Plain' => SessionInv(WA!Of(c))'
    BY <1>1, <1>5, MovesOn DEF WA!Paired, ManagerInv, ManagerTyped, Recorded, WA!Places, WA!Plain, WA!history
  <2> QED BY <1>5, <2>1, <2>2, Others DEF WA!Paired, ManagerInv, ManagerTyped, WA!history
<1>6. CASE WA!PairingFails(c)
  <2> DEFINE p == IF at[c] = "scanned" THEN "over" ELSE "dropping"
  <2>1. at' = [at EXCEPT ![c] = p] /\ p \in WA!Places /\ at[c] \notin InMap /\ UNCHANGED clients
    BY <1>6 DEF WA!PairingFails, WA!Places, InMap, ManagerInv, ManagerTyped
  <2>2. ManagerTyped'
    <3>1. /\ at' \in [WA!WalletClients -> WA!Places]
          /\ \A s \in WA!Kept' : WA!Of(clients'[s]) = s /\ at'[clients'[s]] \in InMap
      BY <2>1, Moves DEF ManagerInv
    <3> QED BY <1>6, <3>1 DEF WA!PairingFails, ManagerInv, ManagerTyped, WA!screen
  <2>3. WA!Of(c) \in WA!Plain' => SessionInv(WA!Of(c))'
    <3>1. SUFFICES ASSUME WA!Of(c) \in WA!Plain' PROVE SessionInv(WA!Of(c))'
      OBVIOUS
    <3>2. at[c] \in {"scanned", "offered"} /\ WA!Of(c) \in WA!Plain
      BY <1>6, <3>1 DEF WA!PairingFails, WA!Plain
    <3>3. CASE at[c] = "scanned"
      BY <1>1, <1>6, <3>2, <3>3, MovesOut, <2>1 DEF WA!PairingFails
    <3>4. CASE at[c] = "offered"
      BY <1>1, <1>6, <3>2, <3>4, MovesOn, <2>1 DEF WA!PairingFails, WA!Places
    <3> QED BY <3>2, <3>3, <3>4
  <2>4. hurt \subseteq hurt' /\ UNCHANGED <<stored, clients, twice, expired>>
    BY <1>6 DEF WA!PairingFails
  <2> QED BY <2>1, <2>2, <2>3, <2>4, Others DEF ManagerInv
<1> QED BY <1>2, <1>3, <1>4, <1>5, <1>6

LEMMA EndSteps ==
  ASSUME ManagerInv, NEW c \in WA!WalletClients,
         WA!Expires(c) \/ WA!Dropped(c) \/ WA!DropFails(c) \/ WA!Ended(c) \/ WA!EndFails(c)
  PROVE  ManagerInv'
<1> USE ClientPair
<1>1. CASE WA!Expires(c)
  <2>1. ManagerTyped'
    BY <1>1, MovesTyped DEF WA!Expires, ManagerInv, InMap, WA!Places, WA!history, WA!screen
  <2>2. WA!Of(c) \in WA!Plain' => SessionInv(WA!Of(c))'
    <3>1. WA!Of(c) \in WA!Plain => SessionInv(WA!Of(c))
      BY DEF ManagerInv
    <3> QED BY <1>1, <3>1, MovesOn DEF WA!Expires, WA!Places, WA!Plain, WA!history
  <2> QED BY <1>1, <2>1, <2>2, Others DEF WA!Expires, ManagerInv, WA!history
<1>2. CASE WA!Dropped(c)
  <2>1. ManagerTyped'
    BY <1>2, MovesTyped DEF WA!Dropped, ManagerInv, InMap, WA!Places, WA!history, WA!screen
  <2>2. WA!Of(c) \in WA!Plain' => SessionInv(WA!Of(c))'
    <3>1. c \in WA!About(WA!Of(c))
      BY <1>2 DEF WA!Dropped, WA!About
    <3>2. WA!Of(c) \in WA!Plain =>
            SessionInv(WA!Of(c)) /\ (clients[WA!Of(c)] = WA!Nobody \/ WA!Of(c) \in expired)
      BY <1>2, <3>1 DEF ManagerInv, SessionInv, WA!Dropped
    <3> QED BY <1>2, <3>2, MovesOut DEF WA!Dropped, WA!Plain, WA!history
  <2> QED BY <1>2, <2>1, <2>2, Others DEF WA!Dropped, ManagerInv, WA!history
<1>3. CASE WA!DropFails(c)
  <2>1. ManagerTyped'
    BY <1>3, MovesTyped DEF WA!DropFails, ManagerInv, InMap, WA!Places, WA!screen
  <2>2. WA!Of(c) \notin WA!Plain'
    BY <1>3 DEF WA!DropFails, WA!Plain
  <2> QED BY <1>3, <2>1, <2>2, Others DEF WA!DropFails, ManagerInv
<1>4. CASE WA!Ended(c)
  <2>1. /\ clients' \in [Requests -> WA!WalletClients \union {WA!Nobody}]
        /\ \A s \in Requests : clients'[s] = IF s = WA!Of(c) THEN WA!Nobody ELSE clients[s]
    BY <1>4 DEF WA!Ended, ManagerInv, ManagerTyped
  <2>2. \A d \in WA!WalletClients : at'[d] = IF d = c THEN "over" ELSE at[d]
    BY <1>4 DEF WA!Ended, ManagerInv, ManagerTyped
  <2>3. \A s \in WA!Kept' : s \in WA!Kept /\ clients'[s] = clients[s] /\ clients[s] \in WA!WalletClients
    BY <2>1 DEF ManagerInv, ManagerTyped, WA!Kept
  <2>4. \A s \in WA!Kept' : WA!Of(clients'[s]) = s /\ at'[clients'[s]] \in InMap
    BY <2>2, <2>3 DEF ManagerInv, ManagerTyped, InMap
  <2>5. ManagerTyped'
    BY <1>4, <2>1, <2>4 DEF WA!Ended, WA!Changed, ManagerInv, ManagerTyped, WA!Places, WA!history
  <2>6. WA!Of(c) \in WA!Plain' => SessionInv(WA!Of(c))'
    BY <1>4, <2>1, MovesOut DEF WA!Ended, WA!Plain, ManagerInv, WA!history
  <2> QED BY <1>4, <2>1, <2>5, <2>6, Others DEF WA!Ended, ManagerInv, WA!history
<1>5. CASE WA!EndFails(c)
  <2>1. ManagerTyped'
    BY <1>5, MovesTyped DEF WA!EndFails, ManagerInv, InMap, WA!Places, WA!screen
  <2>2. WA!Of(c) \notin WA!Plain'
    BY <1>5 DEF WA!EndFails, WA!Plain
  <2> QED BY <1>5, <2>1, <2>2, Others DEF WA!EndFails, ManagerInv
<1> QED BY <1>1, <1>2, <1>3, <1>4, <1>5

-----------------------------------------------------------------------------
(* Deleting, one client or all *)

LEMMA DeleteSteps ==
  ASSUME ManagerInv, NEW S \in SUBSET WA!Kept, WA!Delete(S),
         phase' \in {"resuming", "over", "unmounted"}, UNCHANGED WA!history
  PROVE  ManagerInv'
<1> DEFINE ends == {clients[s] : s \in S}
           gone == {s \in S : at[clients[s]] # "open"}
<1>1. /\ at' = [c \in WA!WalletClients |-> IF c \in ends /\ at[c] = "open" THEN "ending" ELSE at[c]]
      /\ clients' = [s \in Requests |-> IF s \in gone THEN WA!Nobody ELSE clients[s]]
      /\ stored' = stored /\ expired' = expired
  BY DEF WA!Delete
<1>2. crossed' \in BOOLEAN
  BY DEF WA!Delete, ManagerInv, ManagerTyped, WA!screen, WA!Changed
<1>3. \A s \in WA!Kept : /\ s \in Requests /\ clients[s] \in WA!WalletClients
                         /\ WA!Of(clients[s]) = s /\ at[clients[s]] \in InMap
  BY DEF WA!Kept, ManagerInv, ManagerTyped
<1>4. \A s \in Requests : clients'[s] = IF s \in gone THEN WA!Nobody ELSE clients[s]
  BY <1>1
<1>5. \A c \in WA!WalletClients : at'[c] = IF c \in ends /\ at[c] = "open" THEN "ending" ELSE at[c]
  BY <1>1
<1>6. ManagerTyped'
  <2>1. at' \in [WA!WalletClients -> WA!Places]
    BY <1>1 DEF ManagerInv, ManagerTyped, WA!Places
  <2>2. clients' \in [Requests -> WA!WalletClients \union {WA!Nobody}]
    BY <1>1 DEF ManagerInv, ManagerTyped
  <2>3. \A s \in WA!Kept' : s \in WA!Kept /\ clients'[s] = clients[s]
    BY <1>4 DEF WA!Kept
  <2>4. \A s \in WA!Kept' : WA!Of(clients'[s]) = s /\ at'[clients'[s]] \in InMap
    BY <1>3, <1>5, <2>3 DEF InMap
  <2> QED BY <1>1, <1>2, <2>1, <2>2, <2>4 DEF ManagerInv, ManagerTyped, WA!history
<1>7. ASSUME NEW s \in WA!Plain' PROVE SessionInv(s)'
  <2>1. s \in WA!Plain /\ s \in Requests /\ SessionInv(s)
    BY DEF WA!Plain, ManagerInv, WA!history
  <2>2. WA!About(s)' = WA!About(s)
    BY <1>5 DEF WA!About
  <2>3. CASE s \notin S
    <3>1. \A c \in WA!WalletClients : WA!Of(c) = s => c \notin ends
      BY <1>3, <2>3
    <3>2. s \notin gone
      BY <2>3
    <3> QED BY <1>1, <1>4, <1>5, <2>1, <3>1, <3>2, Apart DEF Recorded
  <2>4. CASE s \in S
    <3> DEFINE c == clients[s]
    <3>1. c \in WA!WalletClients /\ WA!Of(c) = s /\ at[c] \in InMap /\ c \in ends /\ c # WA!Nobody
      BY <1>3, <2>4 DEF WA!Kept
    <3>2. CASE at[c] = "open"
      <4>1. c \in WA!About(s)
        BY <3>1, <3>2 DEF WA!About
      <4>2. WA!About(s) = {c}
        BY <2>1, <4>1 DEF SessionInv
      <4>3. s \notin gone /\ clients'[s] = c /\ at'[c] = "ending"
        BY <1>4, <1>5, <2>1, <3>1, <3>2
      <4> QED BY <2>2, <4>2, <4>3 DEF SessionInv
    <3>3. CASE at[c] # "open"
      <4>1. s \in gone /\ clients'[s] = WA!Nobody
        BY <1>4, <2>1, <2>4, <3>3
      <4>2. \A d \in WA!About(s) : d \in WA!WalletClients /\ at[d] \in {"dropping", "ending"}
        BY <2>1, <3>1, <3>3 DEF SessionInv, WA!About, WA!Places, ManagerInv, ManagerTyped
      <4>3. \A d \in WA!About(s) : at'[d] = at[d]
        BY <1>5, <4>2
      <4> QED BY <1>1, <2>1, <2>2, <4>1, <4>2, <4>3 DEF SessionInv
    <3> QED BY <3>2, <3>3
  <2> QED BY <2>3, <2>4
<1> QED BY <1>6, <1>7 DEF ManagerInv

\* Reading and showing lists: no client moves, and only records of sessions that
\* have expired go.
LEMMA OnlyRecordsGo ==
  ASSUME ManagerInv, UNCHANGED <<at, clients, twice, hurt>>,
         phase' \in {phase, "over"}, crossed' \in BOOLEAN,
         expired \subseteq expired', expired' \subseteq Requests,
         stored' \subseteq stored, stored \ expired' \subseteq stored'
  PROVE  ManagerInv'
<1>1. ManagerTyped'
  BY DEF ManagerInv, ManagerTyped, WA!Kept
<1>2. ASSUME NEW s \in WA!Plain' PROVE SessionInv(s)'
  <2>1. SessionInv(s)
    BY DEF WA!Plain, ManagerInv
  <2> QED BY <2>1, Apart DEF Recorded
<1> QED BY <1>1, <1>2 DEF ManagerInv

LEMMA ManagerStep == ManagerInv /\ [WA!Next]_(WA!vars) => ManagerInv'
<1> SUFFICES ASSUME ManagerInv, [WA!Next]_(WA!vars) PROVE ManagerInv'
  OBVIOUS
<1>1. CASE WA!AllResumed
  BY <1>1, OnlyRecordsGo DEF WA!AllResumed, WA!Changed, WA!history, ManagerInv, ManagerTyped
<1>2. CASE WA!HandleClearAll
  BY <1>2, DeleteSteps DEF WA!HandleClearAll, ManagerInv, ManagerTyped
<1>3. CASE WA!Unmount
  BY <1>3, DeleteSteps DEF WA!Unmount
<1>4. ASSUME NEW c \in WA!WalletClients, WA!Client(c) PROVE ManagerInv'
  BY <1>4, StartupSteps, PairingSteps, EndSteps DEF WA!Client
<1>5. ASSUME NEW s \in Requests, WA!HandleDelete(s) PROVE ManagerInv'
  <2>1. {s} \subseteq WA!Kept
    BY <1>5 DEF WA!HandleDelete
  <2> QED BY <1>5, <2>1, DeleteSteps DEF WA!HandleDelete, ManagerInv, ManagerTyped
<1>6. ASSUME NEW i \in DOMAIN lists, WA!Show(i) PROVE ManagerInv'
  BY <1>6, OnlyRecordsGo DEF WA!Show, WA!history, ManagerInv, ManagerTyped
<1>7. ASSUME NEW s \in Requests, WA!Expire(s) PROVE ManagerInv'
  BY <1>7, OnlyRecordsGo DEF WA!Expire, WA!screen, WA!history, ManagerInv, ManagerTyped
<1>8. ASSUME NEW i \in DOMAIN lists, WA!Read(i) PROVE ManagerInv'
  BY <1>8, OnlyRecordsGo DEF WA!Read, WA!history, ManagerInv, ManagerTyped
<1>9. ASSUME NEW i \in DOMAIN lists, WA!ReadFails(i) PROVE ManagerInv'
  BY <1>9, OnlyRecordsGo DEF WA!ReadFails, WA!history, ManagerInv, ManagerTyped
<1>10. CASE UNCHANGED WA!vars
  BY <1>10, OnlyRecordsGo DEF WA!vars, ManagerInv, ManagerTyped
<1> QED BY <1>1, <1>2, <1>3, <1>4, <1>5, <1>6, <1>7, <1>8, <1>9, <1>10 DEF WA!Next

LEMMA ListRemoved ==
  ASSUME NEW T, NEW q \in Seq(T), NEW i \in DOMAIN q
  PROVE  WA!RemoveAt(q, i) \in Seq(T)
<1>1. i \in 1 .. Len(q) /\ Len(q) \in Nat
  OBVIOUS
<1>2. SubSeq(q, 1, i - 1) \in Seq(T)
  BY <1>1
<1>3. SubSeq(q, i + 1, Len(q)) \in Seq(T)
  BY <1>1
<1> QED BY <1>2, <1>3 DEF WA!RemoveAt

LEMMA ListsStep == ManagerInv /\ ManagerInv' /\ ListsTyped /\ [WA!Next]_(WA!vars) => ListsTyped'
<1> SUFFICES ASSUME ManagerInv, ManagerInv', ListsTyped, [WA!Next]_(WA!vars) PROVE ListsTyped'
  OBVIOUS
<1>1. CASE UNCHANGED <<lists, shown>>
  BY <1>1 DEF ListsTyped
<1>2. CASE WA!Changed
  BY <1>2 DEF WA!Changed, ListsTyped
<1>3. ASSUME NEW i \in DOMAIN lists, WA!Show(i) PROVE ListsTyped'
  <2>1. lists[i] \subseteq SUBSET Requests
    BY DEF ListsTyped
  <2> QED BY <1>3, <2>1, ListRemoved DEF WA!Show, ListsTyped
<1>6. ASSUME NEW i \in DOMAIN lists, WA!Read(i) PROVE ListsTyped'
  <2>1. {stored'} \in SUBSET SUBSET Requests
    BY DEF ManagerInv, ManagerTyped
  <2> QED BY <1>6, <2>1 DEF WA!Read, ListsTyped
<1>7. ASSUME NEW i \in DOMAIN lists, WA!ReadFails(i) PROVE ListsTyped'
  BY <1>7, ListRemoved DEF WA!ReadFails, ListsTyped
<1>8. ASSUME NEW s \in Requests, WA!Expire(s) PROVE UNCHANGED <<lists, shown>>
  BY <1>8 DEF WA!Expire, WA!screen
<1>4. ASSUME NEW S, WA!Delete(S) PROVE WA!Changed \/ UNCHANGED <<lists, shown>>
  BY <1>4 DEF WA!Delete, WA!screen
<1>5. ASSUME NEW c \in WA!WalletClients, WA!Client(c) PROVE WA!Changed \/ UNCHANGED <<lists, shown>>
  BY <1>5 DEF WA!Client, WA!Resumed, WA!ResumeFails, WA!Forgotten, WA!ForgetFails, WA!Scan, WA!Offered, WA!Saved,
    WA!Paired,
    WA!PairingFails, WA!Expires, WA!Dropped, WA!DropFails, WA!Ended, WA!EndFails, WA!screen
<1> QED BY <1>1, <1>2, <1>3, <1>4, <1>5, <1>6, <1>7, <1>8 DEF WA!Next, WA!vars, WA!AllResumed,
    WA!HandleClearAll, WA!Unmount, WA!HandleDelete

-----------------------------------------------------------------------------
(* The list on the screen *)

\* The list that will be shown last, if lists are shown in order: none while it
\* is still to be read.
Newest == IF lists = <<>> THEN {shown} ELSE lists[Len(lists)]

\* Of a session that is saved the list is read only when connect() is back.
Unseen(s) == \E c \in WA!About(s) : at[c] = "saved"

Told == \A l \in Newest : \A s \in Requests \ expired : (s \in l <=> s \in stored) \/ Unseen(s)

Undisturbed == phase = "over" /\ ~ crossed /\ WA!Plain = Requests

\* Once all are resumed, every change of the records but saving one is followed
\* by a list at once.
ScreenInv ==
  Undisturbed =>
    /\ \A c \in WA!WalletClients : at[c] \notin {"resuming", "unresumed"}
    /\ Told

\* A read that has just begun owes nothing yet.
LEMMA ChangedTells ==
  ASSUME ListsTyped, WA!Changed
  PROVE  Told'
<1>1. lists' = Append(lists, {}) /\ lists' # <<>> /\ Len(lists') = Len(lists) + 1
      /\ lists'[Len(lists) + 1] = {}
  BY DEF WA!Changed, ListsTyped
<1> QED BY <1>1 DEF Newest, Told

\* What is read has what is stored.
LEMMA ReadTells ==
  ASSUME ListsTyped, Told, NEW i \in DOMAIN lists, WA!Read(i)
  PROVE  Told'
<1> DEFINE l == Len(lists)
<1>1. l \in Nat /\ i \in 1 .. l
  BY DEF ListsTyped
<1>2. lists' = [lists EXCEPT ![i] = {stored'}] /\ stored' = stored \ expired /\ UNCHANGED <<at, expired>>
  BY DEF WA!Read
<1>3. Len(lists') = l /\ l \in DOMAIN lists /\ lists # <<>> /\ lists' # <<>>
  BY <1>1, <1>2 DEF ListsTyped
<1>4. Newest' = lists'[l] /\ Newest = lists[l]
  BY <1>3 DEF Newest
<1>5. lists'[l] = IF l = i THEN {stored'} ELSE lists[l]
  BY <1>2, <1>3 DEF ListsTyped
<1>6. \A s : Unseen(s)' <=> Unseen(s)
  BY <1>2 DEF Unseen, WA!About
<1> HIDE DEF l
<1>7. CASE l = i
  BY <1>4, <1>5, <1>7 DEF Told
<1>8. CASE l # i
  BY <1>2, <1>4, <1>5, <1>6, <1>8 DEF Told
<1> QED BY <1>7, <1>8

LEMMA FirstRemoved ==
  ASSUME NEW T, NEW q \in Seq(T), q # <<>>
  PROVE  /\ WA!RemoveAt(q, 1) \in Seq(T) /\ Len(WA!RemoveAt(q, 1)) = Len(q) - 1
         /\ \A n \in 1 .. (Len(q) - 1) : WA!RemoveAt(q, 1)[n] = q[n + 1]
<1>1. Len(q) \in Nat \ {0}
  OBVIOUS
<1>2. SubSeq(q, 1, 0) \in Seq(T) /\ Len(SubSeq(q, 1, 0)) = 0
  OBVIOUS
<1>3. /\ SubSeq(q, 2, Len(q)) \in Seq(T) /\ Len(SubSeq(q, 2, Len(q))) = Len(q) - 1
      /\ \A n \in 1 .. (Len(q) - 1) : SubSeq(q, 2, Len(q))[n] = q[n + 1]
  BY <1>1
<1>4. WA!RemoveAt(q, 1) = SubSeq(q, 1, 0) \o SubSeq(q, 2, Len(q))
  <2>1. 1 - 1 = 0 /\ 1 + 1 = 2
    OBVIOUS
  <2> QED BY Zenon, <2>1 DEF WA!RemoveAt
<1> DEFINE a == SubSeq(q, 1, 0)
           b == SubSeq(q, 2, Len(q))
<1>5. /\ a \in Seq(T) /\ Len(a) = 0 /\ b \in Seq(T) /\ Len(b) = Len(q) - 1
      /\ \A n \in 1 .. (Len(q) - 1) : b[n] = q[n + 1]
  BY <1>2, <1>3
<1>6. WA!RemoveAt(q, 1) = a \o b
  BY <1>4
<1> HIDE DEF a, b
<1>7. a \o b \in Seq(T) /\ Len(a \o b) = Len(b) /\ \A n \in 1 .. Len(b) : (a \o b)[n] = b[n]
  BY <1>5
<1> QED BY <1>5, <1>6, <1>7

\* A shown list that was the first leaves the newest one what it is, or was it.
LEMMA FirstShown ==
  ASSUME ListsTyped, NEW i \in DOMAIN lists, WA!Show(i), ~ crossed'
  PROVE  Newest' \subseteq Newest
<1> DEFINE l == Len(lists)
<1>0. shown' \in lists[i] /\ lists' = WA!RemoveAt(lists, i) /\ ~ (i > 1)
  BY Zenon DEF WA!Show
<1>1. l \in Nat /\ i \in 1 .. l
  BY DEF ListsTyped
<1>2. /\ i = 1 /\ l \in Nat \ {0} /\ lists # <<>> /\ shown' \in lists[1]
      /\ lists' = WA!RemoveAt(lists, 1)
  BY <1>0, <1>1
<1>3. /\ lists' \in Seq(SUBSET SUBSET Requests) /\ Len(lists') = l - 1
      /\ \A n \in 1 .. (l - 1) : lists'[n] = lists[n + 1]
  BY <1>2, FirstRemoved DEF ListsTyped
<1>4. CASE l = 1
  BY <1>2, <1>3, <1>4 DEF Newest
<1>5. CASE l > 1
  BY <1>2, <1>3, <1>5 DEF Newest
<1>6. l = 1 \/ l > 1
  <2>1. l \in Nat \ {0}
    BY <1>2
  <2> HIDE DEF l
  <2> QED BY <2>1
<1> QED BY <1>4, <1>5, <1>6

\* Lists as they were, records too but for sessions that have expired, and nothing
\* that was only saved any further.
LEMMA StillTold ==
  ASSUME Told, UNCHANGED <<lists, shown>>, expired \subseteq expired',
         \A s \in Requests \ expired' : s \in stored' <=> s \in stored,
         \A c \in WA!WalletClients : at[c] = "saved" => at'[c] = "saved"
  PROVE  Told'
<1>1. Newest' = Newest
  BY DEF Newest
<1>2. \A s : Unseen(s) => Unseen(s)'
  BY DEF Unseen, WA!About
<1> QED BY <1>1, <1>2 DEF Told

LEMMA FreshClient ==
  ASSUME ManagerInv, ListsTyped, ScreenInv, NEW c \in WA!WalletClients, WA!Client(c), Undisturbed'
  PROVE  /\ \A d \in WA!WalletClients : at'[d] \notin {"resuming", "unresumed"}
         /\ Told'
<1>1. Undisturbed
  <2>1. twice \subseteq twice' /\ hurt \subseteq hurt' /\ (crossed => crossed')
    BY DEF WA!Client, WA!Resumed, WA!ResumeFails, WA!Forgotten, WA!ForgetFails, WA!Scan, WA!Offered, WA!Saved,
    WA!Paired,
      WA!PairingFails, WA!Expires, WA!Dropped, WA!DropFails, WA!Ended, WA!EndFails, WA!screen, WA!history, WA!Changed
  <2>2. WA!Plain = Requests
    BY <2>1 DEF Undisturbed, WA!Plain
  <2>3. ~ WA!ForgetFails(c)
    BY ClientPair DEF WA!ForgetFails, Undisturbed, WA!Plain
  <2>4. phase' = phase
    BY <2>3 DEF WA!Client, WA!Resumed, WA!ResumeFails, WA!Forgotten, WA!Scan, WA!Offered, WA!Saved,
    WA!Paired,
      WA!PairingFails, WA!Expires, WA!Dropped, WA!DropFails, WA!Ended, WA!EndFails
  <2> QED BY <2>1, <2>2, <2>4 DEF Undisturbed
<1>2. /\ Told
      /\ \A d \in WA!WalletClients : at[d] \notin {"resuming", "unresumed"}
  BY <1>1 DEF ScreenInv
<1>3. WA!Of(c) \in Requests /\ at \in [WA!WalletClients -> WA!Places] /\ stored \subseteq Requests
  BY ClientPair DEF ManagerInv, ManagerTyped
<1>4. \A s \in Requests : s \notin twice' /\ s \notin hurt'
  BY DEF Undisturbed, WA!Plain
<1>5. ~ WA!Resumed(c) /\ ~ WA!ResumeFails(c) /\ ~ WA!Forgotten(c) /\ ~ WA!ForgetFails(c)
  BY <1>2 DEF WA!Resumed, WA!ResumeFails, WA!Forgotten, WA!ForgetFails
<1>6. ~ WA!DropFails(c) /\ ~ WA!EndFails(c)
  BY <1>3, <1>4 DEF WA!DropFails, WA!EndFails
<1>7. CASE WA!Scan(c) \/ WA!Offered(c) \/ WA!PairingFails(c) \/ WA!Expires(c)
  <2>1. /\ UNCHANGED <<lists, shown, expired>> /\ stored' = stored /\ at[c] # "saved"
        /\ at'[c] \in {"scanned", "offered", "over", "dropping"}
        /\ \A d \in WA!WalletClients \ {c} : at'[d] = at[d]
    BY <1>3, <1>4, <1>7 DEF WA!Scan, WA!Offered, WA!PairingFails, WA!Expires, WA!screen
  <2> QED BY <1>2, <2>1, StillTold
<1>8. CASE WA!Saved(c)
  <2>1. /\ UNCHANGED <<lists, shown, expired>> /\ stored' = stored \union {WA!Of(c)} /\ at'[c] = "saved"
        /\ at[c] = "offered"
        /\ \A d \in WA!WalletClients \ {c} : at'[d] = at[d]
    BY <1>3, <1>8 DEF WA!Saved, WA!screen
  <2>2. Newest' = Newest
    BY <2>1 DEF Newest
  <2>3. \A s : Unseen(s) => Unseen(s)'
    BY <2>1 DEF Unseen, WA!About
  <2>4. Unseen(WA!Of(c))'
    BY <2>1 DEF Unseen, WA!About
  <2>5. Told'
    BY <1>2, <2>1, <2>2, <2>3, <2>4 DEF Told
  <2> QED BY <1>2, <2>1, <2>5
<1>9. CASE WA!Paired(c) \/ WA!Ended(c)
  <2>1. WA!Changed
    BY <1>9 DEF WA!Paired, WA!Ended
  <2>2. \A d \in WA!WalletClients : at'[d] \in {at[d], "open", "over"}
    BY <1>3, <1>9 DEF WA!Paired, WA!Ended
  <2> QED BY <1>2, <2>1, <2>2, ChangedTells
<1>10. CASE WA!Dropped(c)
  <2>1. /\ UNCHANGED <<lists, shown, expired>> /\ stored' = stored \ {WA!Of(c)} /\ at[c] = "dropping"
        /\ \A d \in WA!WalletClients : at'[d] = IF d = c THEN "over" ELSE at[d]
    BY <1>3, <1>10 DEF WA!Dropped, WA!screen
  <2>2. WA!Of(c) \in WA!Plain /\ c \in WA!About(WA!Of(c))
    BY <1>1, <1>3, <2>1 DEF Undisturbed, WA!About
  <2>3. WA!Of(c) \notin stored \/ WA!Of(c) \in expired
    BY <2>1, <2>2 DEF ManagerInv, SessionInv
  <2>4. Told'
    BY <1>2, <2>1, <2>3, StillTold
  <2> QED BY <1>2, <2>1, <2>4
<1> QED BY <1>5, <1>6, <1>7, <1>8, <1>9, <1>10 DEF WA!Client

\* Deleting leaves the records, and moves no client that was only saved.
LEMMA FreshDelete ==
  ASSUME ManagerInv, ListsTyped, ScreenInv, NEW S, WA!Delete(S), phase' = phase, UNCHANGED WA!history, Undisturbed'
  PROVE  /\ \A d \in WA!WalletClients : at'[d] \notin {"resuming", "unresumed"}
         /\ Told'
<1>1. Undisturbed
  BY DEF Undisturbed, WA!Delete, WA!Changed, WA!Plain, WA!screen, WA!history
<1>2. /\ Told
      /\ \A d \in WA!WalletClients : at[d] \notin {"resuming", "unresumed"}
  BY <1>1 DEF ScreenInv
<1>3. /\ \A d \in WA!WalletClients : at'[d] = at[d] \/ (at'[d] = "ending" /\ at[d] = "open")
      /\ stored' = stored /\ expired' = expired
      /\ WA!Changed \/ UNCHANGED <<lists, shown>>
  BY DEF WA!Delete, WA!screen, ManagerInv, ManagerTyped
<1>4. Told'
  BY <1>2, <1>3, StillTold, ChangedTells
<1> QED BY <1>2, <1>3, <1>4

LEMMA ScreenStep == ManagerInv /\ ListsTyped /\ ScreenInv /\ [WA!Next]_(WA!vars) => ScreenInv'
<1> SUFFICES ASSUME ManagerInv, ListsTyped, ScreenInv, [WA!Next]_(WA!vars), Undisturbed'
             PROVE  /\ \A d \in WA!WalletClients : at'[d] \notin {"resuming", "unresumed"}
                    /\ Told'
  BY DEF ScreenInv
<1>1. CASE WA!AllResumed
  <2>1. WA!Changed
    BY <1>1 DEF WA!AllResumed
  <2>2. at' = at /\ \A d \in WA!WalletClients : at[d] \notin {"resuming", "unresumed"}
    BY <1>1 DEF WA!AllResumed
  <2> QED BY <2>1, <2>2, ChangedTells
<1>2. CASE WA!HandleClearAll
  BY <1>2, FreshDelete DEF WA!HandleClearAll
<1>3. CASE WA!Unmount
  BY <1>3 DEF WA!Unmount, Undisturbed
<1>4. ASSUME NEW c \in WA!WalletClients, WA!Client(c)
      PROVE  /\ \A d \in WA!WalletClients : at'[d] \notin {"resuming", "unresumed"}
             /\ Told'
  BY <1>4, FreshClient
<1>5. ASSUME NEW s \in Requests, WA!HandleDelete(s)
      PROVE  /\ \A d \in WA!WalletClients : at'[d] \notin {"resuming", "unresumed"}
             /\ Told'
  BY <1>5, FreshDelete DEF WA!HandleDelete
<1>6. ASSUME NEW i \in DOMAIN lists, WA!Show(i)
      PROVE  /\ \A d \in WA!WalletClients : at'[d] \notin {"resuming", "unresumed"}
             /\ Told'
  <2>1. UNCHANGED <<phase, stored, at, expired, twice, hurt>> /\ Newest' \subseteq Newest /\ ~ crossed
    BY <1>6, FirstShown DEF WA!Show, WA!history, Undisturbed
  <2>2. Undisturbed
    BY <2>1 DEF Undisturbed, WA!Plain
  <2>3. \A s : Unseen(s)' <=> Unseen(s)
    BY <2>1 DEF Unseen, WA!About
  <2> QED BY <2>1, <2>2, <2>3 DEF ScreenInv, Told
<1>7. ASSUME NEW s \in Requests, WA!Expire(s)
      PROVE  /\ \A d \in WA!WalletClients : at'[d] \notin {"resuming", "unresumed"}
             /\ Told'
  <2>1. UNCHANGED <<phase, stored, at, lists, shown, crossed, twice, hurt>> /\ expired \subseteq expired'
    BY <1>7 DEF WA!Expire, WA!screen, WA!history
  <2>2. Undisturbed
    BY <2>1 DEF Undisturbed, WA!Plain
  <2> QED BY <2>1, <2>2, StillTold DEF ScreenInv
<1>8. ASSUME NEW i \in DOMAIN lists, WA!Read(i)
      PROVE  /\ \A d \in WA!WalletClients : at'[d] \notin {"resuming", "unresumed"}
             /\ Told'
  <2>1. UNCHANGED <<phase, at, crossed, twice, hurt>>
    BY <1>8 DEF WA!Read, WA!history
  <2>2. Undisturbed
    BY <2>1 DEF Undisturbed, WA!Plain
  <2> QED BY <1>8, <2>1, <2>2, ReadTells DEF ScreenInv
<1>9. ASSUME NEW i \in DOMAIN lists, WA!ReadFails(i) PROVE FALSE
  BY <1>9 DEF WA!ReadFails, Undisturbed
<1>10. CASE UNCHANGED WA!vars
  BY <1>10 DEF WA!vars, ScreenInv, Undisturbed, WA!Plain, Told, Newest, Unseen, WA!About
<1> QED BY <1>1, <1>2, <1>3, <1>4, <1>5, <1>6, <1>7, <1>8, <1>9, <1>10 DEF WA!Next

LEMMA ScreenInit == WA!Init => ListsTyped /\ ScreenInv
BY DEF WA!Init, ListsTyped, ScreenInv, Undisturbed

LEMMA ManagerIsTyped == ManagerInv /\ ListsTyped => WA!TypeOK
BY TypeIsTyped DEF ManagerInv

LEMMA ManagerManages == ManagerInv => WA!Managed
<1> SUFFICES ASSUME ManagerInv, NEW s \in WA!Plain, WA!Quiet(s)
             PROVE  /\ s \in stored => s \in WA!Kept /\ at[clients[s]] = "open"
                    /\ s \in WA!Kept => s \in stored \/ s \in expired
  BY DEF WA!Managed
<1>1. s \in Requests /\ SessionInv(s)
  BY DEF ManagerInv, WA!Plain
<1>2. CASE WA!About(s) = {}
  BY <1>1, <1>2 DEF SessionInv, WA!Kept
<1>3. ASSUME NEW c \in WA!About(s) PROVE Recorded(s) /\ s \in WA!Kept /\ at[clients[s]] = "open"
  BY <1>1, <1>3, ClientPair DEF WA!Quiet, SessionInv, WA!Kept, WA!About
<1> QED BY <1>2, <1>3 DEF Recorded

LEMMA ScreenShows == ManagerInv /\ ListsTyped /\ ScreenInv => WA!ShownIsStored
<1> SUFFICES ASSUME ManagerInv, ListsTyped, ScreenInv, phase = "over", lists = <<>>, ~ crossed,
                    WA!Plain = Requests, \A s \in Requests : WA!Quiet(s)
             PROVE  shown \ expired = stored \ expired
  BY DEF WA!ShownIsStored
<1>1. Told /\ Newest = {shown}
  BY DEF ScreenInv, Undisturbed, Newest
<1>2. \A s \in Requests : ~ Unseen(s)
  BY DEF WA!Quiet, Unseen
<1> QED BY <1>1, <1>2 DEF Told, ManagerInv, ManagerTyped, ListsTyped

-----------------------------------------------------------------------------
(* The programs together *)

\* Each program's invariant, while it is the one that runs.
AppsInv ==
  /\ app = "connections" => ClientsInv
  /\ app = "pairs"       => PairsInv
  /\ app = "async"       => AsyncInv
  /\ app = "demo"        => DemoInv
  /\ app = "mobile"      => MobileInv
  /\ app = "basic"       => BasicInv
  /\ app = "rn"          => ManagerInv /\ ListsTyped /\ ScreenInv

LEMMA AppsInit == Init => AppsInv
BY ClientsInit, PairsInit, AsyncInit, DemoInit, MobileInit, BasicInit, ManagerInit, ScreenInit
DEF Init, AppsInv

LEMMA AppsStep == AppsInv /\ [Next]_vars => AppsInv'
<1> SUFFICES ASSUME AppsInv, [Next]_vars  PROVE AppsInv'
  OBVIOUS
<1>1. CASE InClients(LC!Next)
  BY <1>1, ClientsStep DEF AppsInv, InClients
<1>2. CASE InPairs(LP!Next)
  BY <1>2, PairsStep DEF AppsInv, InPairs
<1>3. CASE InAsync(AD!Next)
  BY <1>3, AsyncStep DEF AppsInv, InAsync
<1>4. CASE InDemo(DP!Next)
  BY <1>4, DemoStep DEF AppsInv, InDemo
<1>5. CASE InMobile(MP!Next)
  BY <1>5, MobileStep DEF AppsInv, InMobile
<1>6. CASE InBasic(BP!Next)
  BY <1>6, BasicStep DEF AppsInv, InBasic
<1>7. CASE InWallet(WA!Next)
  BY <1>7, ManagerStep, ListsStep, ScreenStep DEF AppsInv, InWallet
<1>8. CASE UNCHANGED vars
  <2>1. app' = app /\ UNCHANGED LC!vars /\ UNCHANGED LP!vars /\ UNCHANGED AD!vars
    BY <1>8 DEF vars, testVars, clientsVars, pairsVars, asyncVars, LC!vars, LP!vars, AD!vars
  <2>2. UNCHANGED DP!vars /\ UNCHANGED MP!vars /\ UNCHANGED BP!vars /\ UNCHANGED WA!vars
    BY <1>8
    DEF vars, pageVars, demoVars, rnVars, DP!vars, DP!dappVars, DP!walletVars, MP!vars, MP!countdown,
      BP!vars, WA!vars
  <2> QED
    BY <2>1, <2>2, ClientsStep, PairsStep, AsyncStep, DemoStep, MobileStep, BasicStep,
       ManagerStep, ListsStep, ScreenStep
    DEF AppsInv
<1> QED  BY <1>1, <1>2, <1>3, <1>4, <1>5, <1>6, <1>7, <1>8 DEF Next

LEMMA AppsInvariant == Spec => []AppsInv
BY AppsInit, AppsStep, PTL DEF Spec

\* The programs' variables have the types that TypeOK states, whichever program
\* runs: the load tests, with any number of connections, pairs, exchanges and
\* sessions, the pages of the web demo, with any number of attempts, and the
\* wallet of rn-demo, with any requests and scans, in whose map only clients are
\* whose connect() or resume() has succeeded.
THEOREM AppsTypeCorrect == Spec => []TypeOK
<1>1. AppsInv => TypeOK
  BY PairsAreTyped, DemoTyped, MobileTyped, ManagerIsTyped
  DEF AppsInv, TypeOK, ClientsInv, AsyncInv, DemoInv, MobileInv, BasicInv
<1> QED  BY <1>1, AppsInvariant, PTL

\* steady-state counts no reconnection that has not happened and no higher peak
\* of lost connections than there was, although it only looks every 100 ms.
THEOREM CountedHasHappened == Spec => []CountsNoMore
<1>1. AppsInv => CountsNoMore
  BY DEF AppsInv, CountsNoMore, ClientsInv, Counted
<1> QED  BY <1>1, AppsInvariant, PTL

\* Until an exchange of a pair fails, each gets the response to the request it
\* has sent itself.
THEOREM ExchangesGetTheirOwn == Spec => []ExchangesMatch
<1>1. AppsInv => ExchangesMatch
  BY PairsEnd DEF AppsInv, ExchangesMatch
<1> QED  BY <1>1, AppsInvariant, PTL

\* A request is heard by one exchange of its pair, even one that comes late, as
\* long as every request of the pair could be sent.
THEOREM RequestsAreHeardOnce == Spec => []AnsweredOnce
<1>1. AppsInv => AnsweredOnce
  BY PairsEnd DEF AppsInv, AnsweredOnce
<1> QED  BY <1>1, AppsInvariant, PTL

\* When a load test returns, its tasks are over and it has closed its clients,
\* but for the wallets that async-delivery cannot disconnect.
THEOREM TestsLeaveNothingOpen == Spec => []ClosedAtTheEnd
<1>1. AppsInv => ClosedAtTheEnd
  BY ClientsClosed, PairsEnd, AsyncClosed DEF AppsInv, ClosedAtTheEnd
<1> QED  BY <1>1, AppsInvariant, PTL

\* A page of the web demo says of its client what is so, once every disconnect()
\* it has called is done.
THEOREM PagesAreRight == Spec => []PagesShowTheirClients
<1>1. AppsInv => PagesShowTheirClients
  BY DEF AppsInv, PagesShowTheirClients, DemoInv, MobileInv, BasicInv, BP!PageShowsClient
<1> QED  BY <1>1, AppsInvariant, PTL

\* The page for MetaMask Mobile runs one countdown at most, and none while its
\* client is connected.
THEOREM CountdownIsOne == Spec => []OneCountdown
<1>1. AppsInv => OneCountdown
  BY DEF AppsInv, OneCountdown, MobileInv
<1> QED  BY <1>1, AppsInvariant, PTL

\* When nothing is under way for a session of the wallet that has a record, the
\* map has a usable client for it, and a session of the map has its record until
\* it has expired: in every order of resuming, scanning, failing, reading lists,
\* deleting and unmounting.  Of a session scanned over a client of its own, or of
\* which a call was rejected, nothing is said (SessionManager.ts).
THEOREM ManagedAlways == Spec => []Managed
<1>1. AppsInv => Managed
  BY ManagerManages DEF AppsInv, Managed
<1> QED  BY <1>1, AppsInvariant, PTL

\* When all is quiet the wallet's screen shows, of the sessions that have not
\* expired, those the store has: every change of the records is followed by a read
\* of the list (getAllSessions on "sessions-changed").  Nothing is said once a read
\* has failed or overtaken another, a request was scanned over a client of its own
\* or a call was rejected.
THEOREM ScreenIsRight == Spec => []ShownIsStored
<1>1. AppsInv => ShownIsStored
  BY ScreenShows DEF AppsInv, ShownIsStored
<1> QED  BY <1>1, AppsInvariant, PTL
=============================================================================
