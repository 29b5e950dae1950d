------------------------------ MODULE DemoPage ------------------------------
(***************************************************************************)
(* The trusted and the untrusted demo of the web app: a page with a dApp   *)
(* and a wallet beside it.  The listeners of the dApp's client are made in *)
(* the page's first rendering and see its state as it was then: they know  *)
(* no timer.  The handlers of buttons see the last rendering.              *)
(***************************************************************************)
EXTENDS PageClient

VARIABLES
  mode,       \* which of the two pages is shown
  page,       \* the dApp's panel: QR code, OTP form, connected, status
  intervals,  \* the countdowns that run, each for a request or for a code
  timer,      \* sessionTimerId: the countdown the page knows of
  clears,     \* the countdown that the handler of Disconnect will clear
  wallet,     \* the wallet's client: its state and the attempt it connects to
  panel,      \* the wallet's panel: connected, the code on display
  pending     \* requests on display, each named by the attempt it belongs to

dappVars   == <<client, page, intervals, timer, clears>>
walletVars == <<wallet, panel, pending>>
vars == <<mode, dappVars, walletVars>>

Attempts == 1 .. MaxAttempts
NoTimer  == [of |-> 0, kind |-> "none"]
Timers   == [of : Attempts, kind : {"request", "code"}]

Init ==
  /\ mode \in {"trusted", "untrusted"}
  /\ ClientInit
  /\ page = [qr |-> 0, form |-> 0, connected |-> FALSE, status |-> "none"]
  /\ intervals = {} /\ timer = NoTimer
  /\ clears = NoTimer
  /\ wallet \in [state : {"resuming", "disconnected"}, of : {0}]
  /\ panel = [connected |-> FALSE, otp |-> 0]
  /\ pending = {}

Says(s) == page' = [page EXCEPT !.status = s]

\* resetDappConnectionState.
Reset(connected) ==
  page' = [qr |-> 0, form |-> 0, connected |-> connected, status |-> "ready"]

\* startSessionTimer, called by a listener: whatever runs goes on.
StartTimer(t) ==
  /\ intervals' = intervals \union {t}
  /\ timer' = t

-----------------------------------------------------------------------------
(* The dApp's panel *)

\* The page is mounted; without a stored session it is ready.
Mounted ==
  /\ client.state = "disconnected" /\ page.status = "none"
  /\ Says("ready")
  /\ UNCHANGED <<client, intervals, timer, clears>>

Resumed ==
  /\ client.state = "resuming"
  /\ Goes("connected")
  /\ page' = [page EXCEPT !.connected = TRUE, !.status = "connected"]
  /\ UNCHANGED <<intervals, timer, clears>>

ResumeFails ==
  /\ client.state = "resuming"
  /\ Goes("disconnected") /\ Says("ready")
  /\ UNCHANGED <<intervals, timer, clears>>

\* The Connect button: the client's request is shown and counted down.
Connect ==
  /\ ~page.connected /\ page.qr = 0 /\ page.status # "none"
  /\ Begins
  /\ page' = [page EXCEPT !.qr = client.attempt + 1, !.status = "connecting"]
  /\ StartTimer([of |-> client.attempt + 1, kind |-> "request"])
  /\ UNCHANGED clears

\* The Connect button, while the client is in no state to connect.
ConnectFails ==
  /\ ~page.connected /\ page.qr = 0 /\ client.state # "disconnected"
  /\ Says("failed")
  /\ UNCHANGED <<client, intervals, timer, clears>>

\* on("connected"): clearSessionTimer knows no timer.
ClientConnects(s) ==
  /\ client.state = s
  /\ Goes("connected")
  /\ page' = [page EXCEPT !.connected = TRUE, !.status = "connected"]
  /\ UNCHANGED <<intervals, timer, clears>>

\* on("otp_required"): a second countdown.
OtpRequired ==
  /\ client.state = "connecting"
  /\ [of |-> client.attempt, kind |-> "request"] \in intervals
  /\ Goes("offered")
  /\ page' = [page EXCEPT !.form = client.attempt]
  /\ StartTimer([of |-> client.attempt, kind |-> "code"])
  /\ UNCHANGED clears

\* handleOtpSubmit, the last wrong code: submit() does not throw, and the page
\* leaves it to connect() to fail.
WrongCode ==
  /\ page.form # 0 /\ ~page.connected /\ client.state = "offered"
  /\ Ends("connect")
  /\ UNCHANGED <<page, intervals, timer, clears>>

\* connect() fails: in time, the request expires; at any time, something throws.
AttemptFails ==
  /\ client.state = "connecting"
  /\ Ends("connect")
  /\ UNCHANGED <<page, intervals, timer, clears>>

\* A message finds the session expired: sendRequest disconnects.
SessionExpires ==
  /\ client.state = "connected"
  /\ Ends("send")
  /\ UNCHANGED <<page, intervals, timer, clears>>

\* A countdown is over: it clears itself and the page.  A countdown that began
\* earlier ends earlier.
Countdown(t) ==
  /\ t \in intervals
  /\ \A u \in intervals : u.of > t.of \/ u = t \/ (u.of = t.of /\ t.kind = "request")
  /\ intervals' = intervals \ {t}
  /\ timer' = NoTimer
  /\ Reset(page.connected)
  /\ UNCHANGED <<client, clears>>

\* The Disconnect button.
Disconnect ==
  /\ page.connected
  /\ Ends("button")
  /\ clears' = timer
  /\ UNCHANGED <<page, intervals, timer>>

\* The Disconnect button, of a client that has no session any more.
DisconnectIdle ==
  /\ page.connected /\ client.state = "disconnected"
  /\ Reset(TRUE)
  /\ intervals' = intervals \ {timer}
  /\ timer' = NoTimer
  /\ UNCHANGED <<client, clears>>

\* The handler of the button clears the countdown it knew of.
Clear ==
  /\ intervals' = intervals \ {clears}
  /\ timer' = IF clears = NoTimer THEN timer ELSE NoTimer
  /\ clears' = NoTimer

\* Mutation: the page is reset as after a countdown.
DisconnectedUnshown ==
  /\ TailEnds
  /\ Reset(page.connected)
  /\ Clear

\* on("disconnected"): the page is reset.  Then the call goes on that has
\* disconnected; connect() rejects.
Disconnected ==
  /\ TailEnds
  /\ page' = [qr |-> 0, form |-> 0, connected |-> FALSE,
              status |-> IF client.tail = "connect" THEN "failed" ELSE "ready"]
  /\ Clear

\* disconnect() throws: no event, no reset.
DisconnectFails ==
  /\ TailThrows
  /\ IF client.tail = "connect" THEN Says("failed") ELSE UNCHANGED page
  /\ clears' = NoTimer
  /\ UNCHANGED <<intervals, timer>>

-----------------------------------------------------------------------------
(* The wallet's panel *)

WalletGoes(s) == wallet' = [wallet EXCEPT !.state = s]

WalletResumed ==
  /\ wallet.state = "resuming"
  /\ \/ WalletGoes("connected") /\ panel' = [panel EXCEPT !.connected = TRUE]
     \/ WalletGoes("disconnected") /\ UNCHANGED panel
  /\ UNCHANGED pending

\* The Scan button: the wallet sends its offer, and in untrusted mode displays
\* the code; in trusted mode it is connected.
Scan ==
  /\ ~panel.connected /\ page.qr # 0 /\ panel.otp = 0
  /\ wallet.state = "disconnected"
  /\ IF mode = "trusted"
       THEN /\ wallet' = [state |-> "connected", of |-> page.qr]
            /\ panel' = [panel EXCEPT !.connected = TRUE]
       ELSE /\ wallet' = [state |-> "connecting", of |-> page.qr]
            /\ panel' = [panel EXCEPT !.otp = page.qr]
  /\ UNCHANGED pending

\* The dApp has acknowledged.
WalletConnected ==
  /\ wallet.state = "connecting"
  /\ client.attempt = wallet.of /\ client.state = "connected"
  /\ WalletGoes("connected")
  /\ panel' = [panel EXCEPT !.connected = TRUE]
  /\ UNCHANGED pending

\* connect() fails, or a message finds the session expired: on("disconnected").
WalletEnds ==
  /\ wallet.state \in {"connecting", "connected"}
  /\ WalletGoes("disconnected")
  /\ panel' = [panel EXCEPT !.connected = FALSE]
  /\ UNCHANGED pending

\* The Disconnect button: only here the code and the requests are cleared.
WalletDisconnect ==
  /\ panel.connected
  /\ WalletGoes("disconnected")
  /\ panel' = [connected |-> FALSE, otp |-> 0]
  /\ pending' = {}

\* A request of the dApp is put on display.
Requested ==
  /\ wallet.state = "connected" /\ client.state = "connected" /\ client.attempt = wallet.of
  /\ pending' = pending \union {wallet.of}
  /\ UNCHANGED <<wallet, panel>>

\* Approve or Reject: the request leaves the display when the response is sent.
Answer(r) ==
  /\ r \in pending /\ wallet.state = "connected"
  /\ pending' = pending \ {r}
  /\ UNCHANGED <<wallet, panel>>

-----------------------------------------------------------------------------
\* The offer that the dApp takes up: of the wallet beside it, or of another one.
Offered ==
  \/ mode = "trusted" /\ ClientConnects("connecting")
  \/ mode = "untrusted" /\ OtpRequired

\* handleOtpSubmit, the right code.
RightCode ==
  page.form # 0 /\ ~page.connected /\ ClientConnects("offered")

DappStep ==
  \/ Mounted \/ Resumed \/ ResumeFails \/ Connect \/ ConnectFails \/ Offered
  \/ RightCode \/ WrongCode \/ AttemptFails \/ SessionExpires
  \/ Disconnect \/ DisconnectIdle \/ Disconnected \/ DisconnectFails
  \/ \E t \in intervals : Countdown(t)

WalletStep ==
  \/ WalletResumed \/ Scan \/ WalletConnected \/ WalletEnds \/ WalletDisconnect
  \/ Requested \/ \E r \in pending : Answer(r)

Next ==
  \/ DappStep /\ UNCHANGED <<mode, walletVars>>
  \/ WalletStep /\ UNCHANGED <<mode, dappVars>>

Spec == Init /\ [][Next]_vars

TypeOK ==
  /\ ClientType
  /\ page \in [qr : 0 .. MaxAttempts, form : 0 .. MaxAttempts, connected : BOOLEAN,
               status : {"none", "ready", "connecting", "connected", "failed"}]
  /\ intervals \subseteq Timers /\ timer \in Timers \union {NoTimer}
  /\ clears \in Timers \union {NoTimer}
  /\ wallet \in [state : States, of : 0 .. MaxAttempts]
  /\ panel \in [connected : BOOLEAN, otp : 0 .. MaxAttempts]
  /\ pending \subseteq 0 .. MaxAttempts

PageShowsClient == Shows(page.connected, page.qr)

\* "Clear timer on successful connection" (UntrustedDemo.tsx).
TimerCleared == page.connected => intervals = {}

\* "Ready to connect" means that Connect connects.
ReadyMeansReady == page.status = "ready" /\ ~page.connected => client.state = "disconnected"

\* What the wallet answers was asked in its session.
AnswersOwnSession ==
  [][\A r \in pending : Answer(r) => r = wallet.of]_vars
=============================================================================
