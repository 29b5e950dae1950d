----------------------------- MODULE MobilePage -----------------------------
(***************************************************************************)
(* The MetaMask Mobile demo of the web app: a dApp's page for a wallet on  *)
(* another device.  It keeps its client and its countdown in references,   *)
(* so that every listener and handler sees the present one.                *)
(***************************************************************************)
EXTENDS PageClient

CONSTANT MaxRequests  \* bound: requests that the page sends

VARIABLES
  page,       \* QR code, connected, status
  intervals,  \* the countdowns that run, each named by its attempt
  timer,      \* sessionTimerId.current, 0 for null
  requests    \* how many are sent, which are unanswered, whose result is shown

vars == <<client, page, intervals, timer, requests>>
countdown == <<intervals, timer>>

Attempts == 1 .. MaxAttempts

Init ==
  /\ ClientInit
  /\ page = [qr |-> 0, connected |-> FALSE, status |-> "none"]
  /\ intervals = {} /\ timer = 0
  /\ requests = [sent |-> 0, open |-> {}, shown |-> 0]

Says(s) == page' = [page EXCEPT !.status = s]

\* startSessionTimer clears the countdown there is.
StartTimer(a) ==
  /\ intervals' = (intervals \ {timer}) \union {a}
  /\ timer' = a

\* Mutation: the caller's rendering knows no countdown.
ClearUnknownTimer ==
  /\ UNCHANGED intervals
  /\ timer' = 0

\* clearSessionTimer.
ClearTimer ==
  /\ intervals' = intervals \ {timer}
  /\ timer' = 0

-----------------------------------------------------------------------------
\* The page is mounted; without a stored session it is ready.
Mounted ==
  /\ client.state = "disconnected" /\ page.status = "none"
  /\ Says("ready")
  /\ UNCHANGED <<client, countdown, requests>>

Resumed ==
  /\ client.state = "resuming"
  /\ Goes("connected")
  /\ page' = [page EXCEPT !.connected = TRUE, !.status = "connected"]
  /\ ClearTimer
  /\ UNCHANGED requests

ResumeFails ==
  /\ client.state = "resuming"
  /\ Goes("disconnected") /\ Says("ready")
  /\ UNCHANGED <<countdown, requests>>

\* The Connect button: the request is shown and counted down, and a request for
\* a session goes with it.
Connect ==
  /\ ~page.connected /\ page.qr = 0
  /\ Begins
  /\ page' = [page EXCEPT !.qr = client.attempt + 1, !.status = "connecting"]
  /\ StartTimer(client.attempt + 1)
  /\ UNCHANGED requests

\* The Connect button, while the client is in no state to connect.
ConnectFails ==
  /\ ~page.connected /\ page.qr = 0 /\ client.state # "disconnected"
  /\ Says("failed")
  /\ UNCHANGED <<client, countdown, requests>>

\* on("connected").
Connected ==
  /\ client.state = "connecting"
  /\ Goes("connected")
  /\ page' = [page EXCEPT !.connected = TRUE, !.status = "connected"]
  /\ ClearTimer
  /\ UNCHANGED requests

\* connect() fails, or a request finds the session expired.
ClientEnds ==
  /\ \/ client.state = "connecting" /\ Ends("connect")
     \/ client.state = "connected" /\ Ends("send")
  /\ UNCHANGED <<page, countdown, requests>>

\* A countdown is over; the page is reset.
Countdown(a) ==
  /\ a \in intervals
  /\ intervals' = intervals \ {a}
  /\ timer' = 0
  /\ page' = [page EXCEPT !.qr = 0, !.status = "ready"]
  /\ UNCHANGED <<client, requests>>

\* The Disconnect button.
Disconnect ==
  /\ page.connected
  /\ Ends("button")
  /\ UNCHANGED <<page, countdown, requests>>

\* The Disconnect button, of a client that has no session any more.
DisconnectIdle ==
  /\ page.connected /\ client.state = "disconnected"
  /\ page' = [page EXCEPT !.qr = 0, !.status = "ready"]
  /\ ClearTimer
  /\ UNCHANGED <<client, requests>>

\* on("disconnected"), and how the call goes on that has disconnected.
Disconnected ==
  /\ TailEnds
  /\ page' = [qr |-> 0, connected |-> FALSE,
              status |-> IF client.tail = "connect" THEN "failed" ELSE "ready"]
  /\ ClearTimer
  /\ UNCHANGED requests

DisconnectFails ==
  /\ TailThrows
  /\ IF client.tail = "connect" THEN Says("failed") ELSE UNCHANGED page
  /\ UNCHANGED <<countdown, requests>>

\* A button of the test actions: the result on display is cleared; then the
\* request is sent, or cannot be.
Ask ==
  /\ page.connected /\ requests.sent < MaxRequests
  /\ requests' = [requests EXCEPT !.sent = @ + 1, !.shown = 0,
       !.open = IF client.state = "connected" THEN @ \union {requests.sent + 1} ELSE @]
  /\ UNCHANGED <<client, page, countdown>>

\* on("message"): a result is shown, whichever request it answers.
Answered(r) ==
  /\ r \in requests.open /\ client.state = "connected"
  /\ requests' = [requests EXCEPT !.open = @ \ {r}, !.shown = r]
  /\ UNCHANGED <<client, page, countdown>>

-----------------------------------------------------------------------------
Next ==
  \/ Mounted \/ Resumed \/ ResumeFails \/ Connect \/ ConnectFails \/ Connected
  \/ ClientEnds \/ Disconnect \/ DisconnectIdle \/ Disconnected \/ DisconnectFails \/ Ask
  \/ \E a \in intervals : Countdown(a)
  \/ \E r \in requests.open : Answered(r)

Spec == Init /\ [][Next]_vars

TypeOK ==
  /\ ClientType
  /\ page \in [qr : 0 .. MaxAttempts, connected : BOOLEAN,
               status : {"none", "ready", "connecting", "connected", "failed"}]
  /\ intervals \subseteq Attempts /\ timer \in 0 .. MaxAttempts
  /\ requests \in [sent : 0 .. MaxRequests, open : SUBSET (1 .. MaxRequests),
                   shown : 0 .. MaxRequests]

PageShowsClient == Shows(page.connected, page.qr)

\* One countdown runs at most, and the page knows it: that of the attempt under
\* way, and none while the client is connected.
OneCountdown ==
  /\ intervals = IF timer = 0 THEN {} ELSE {timer}
  /\ client.state = "connected" => intervals = {}

\* The result on display is that of the last request.
ResultIsOfLast == requests.shown \in {0, requests.sent}
=============================================================================
