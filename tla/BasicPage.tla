----------------------------- MODULE BasicPage -----------------------------
(***************************************************************************)
(* The first page of the web app: a dApp and a wallet that share the       *)
(* buttons.  It listens to no "disconnected": what its handlers await is   *)
(* all it learns of an end.                                                *)
(***************************************************************************)
EXTENDS PageClient

VARIABLES
  page,    \* the request on display, isConnected
  wallet,  \* the wallet's client: its state, the attempt it connects to, who has
           \* called the disconnect() whose tail is to do
  task     \* the handler that awaits the two disconnect(), and whether one has thrown

vars == <<client, page, wallet, task>>

Init ==
  /\ ClientInit
  /\ page = [request |-> 0, connected |-> FALSE]
  /\ wallet \in [state : {"resuming", "disconnected"}, of : {0}, tail : {"nobody"}]
  /\ task = "none"

Live == {"connecting", "connected"}

\* Buttons are left alone while sessions are resumed.
Resuming == "resuming" \in {client.state, wallet.state}

-----------------------------------------------------------------------------
\* The dApp's session is resumed first, then the wallet's.
Resumed ==
  /\ client.state = "resuming"
  /\ \/ Goes("connected") /\ page' = [page EXCEPT !.connected = TRUE]
     \/ Goes("disconnected") /\ UNCHANGED page
  /\ UNCHANGED <<wallet, task>>

WalletResumed ==
  /\ client.state # "resuming" /\ wallet.state = "resuming"
  /\ \E s \in {"connected", "disconnected"} : wallet' = [wallet EXCEPT !.state = s]
  /\ UNCHANGED <<client, page, task>>

\* Both clients begin to disconnect, as far as they have a session; a handler
\* is clicked again only when it is done.
BothEnd(t) ==
  /\ task = "none" /\ ~Resuming
  /\ task' = t
  /\ \/ Ends("button")
     \/ client.state = "disconnected" /\ UNCHANGED client
  /\ wallet' = IF wallet.state \in Live
               THEN [wallet EXCEPT !.state = "disconnected", !.tail = "button"] ELSE wallet

\* What the handler does when a disconnect() it awaits throws.
Thrown(caller) ==
  task' = IF caller # "button" \/ task = "none" THEN task
          ELSE IF task = "end" THEN "none" ELSE "go"

\* Both are done.
Awaited(t) == task = t /\ "button" \notin {client.tail, wallet.tail}

\* handleConnect.
Start ==
  /\ page.request = 0 /\ ~page.connected
  /\ BothEnd("start")
  /\ UNCHANGED page

\* The two are done, or one has thrown, which is ignored: connect() begins, and
\* the request is shown.
Started ==
  /\ task = "go" \/ Awaited("start")
  /\ task' = "none"
  /\ Begins
  /\ page' = [page EXCEPT !.request = client.attempt + 1]
  /\ UNCHANGED wallet

\* handleWalletConnect: in trusted mode the wallet is connected when its offer
\* is sent.
Scan ==
  /\ page.request # 0 /\ ~page.connected
  /\ wallet.state = "disconnected" /\ wallet.tail = "nobody"
  /\ wallet' = [wallet EXCEPT !.state = "connecting", !.of = page.request]
  /\ UNCHANGED <<client, page, task>>

WalletConnected ==
  /\ wallet.state = "connecting"
  /\ wallet' = [wallet EXCEPT !.state = "connected"]
  /\ UNCHANGED <<client, page, task>>

\* on("connected") of the dApp, which has got the offer.
Connected ==
  /\ client.state = "connecting" /\ wallet.of = client.attempt
  /\ Goes("connected")
  /\ page' = [page EXCEPT !.connected = TRUE]
  /\ UNCHANGED <<wallet, task>>

\* The dApp's connect() fails, or handleSendTestMessage finds the session
\* expired; the page keeps what it shows.
ClientEnds ==
  /\ \/ client.state = "connecting" /\ Ends("connect")
     \/ client.state = "connected" /\ Ends("send")
  /\ UNCHANGED <<page, wallet, task>>

WalletEnds ==
  /\ wallet.state \in Live /\ wallet.tail = "nobody"
  /\ wallet' = [wallet EXCEPT !.state = "disconnected", !.tail = "connect"]
  /\ UNCHANGED <<client, page, task>>

\* A tail is done, or throws.
ClientDone ==
  /\ \/ TailEnds /\ UNCHANGED task
     \/ TailThrows /\ Thrown(client.tail)
  /\ UNCHANGED <<page, wallet>>

WalletDone ==
  /\ wallet.tail # "nobody"
  /\ wallet' = [wallet EXCEPT !.tail = "nobody"]
  /\ UNCHANGED task \/ Thrown(wallet.tail)
  /\ UNCHANGED <<client, page>>

\* handleDisconnect.
Disconnect ==
  /\ BothEnd("end")
  /\ UNCHANGED page

Disconnected ==
  /\ Awaited("end")
  /\ page' = [request |-> 0, connected |-> FALSE]
  /\ task' = "none"
  /\ UNCHANGED <<client, wallet>>

-----------------------------------------------------------------------------
Next ==
  \/ Resumed \/ WalletResumed \/ Start \/ Started \/ Scan
  \/ WalletConnected \/ Connected \/ ClientEnds \/ WalletEnds \/ ClientDone \/ WalletDone
  \/ Disconnect \/ Disconnected

Spec == Init /\ [][Next]_vars

TypeOK ==
  /\ ClientType
  /\ page \in [request : 0 .. MaxAttempts, connected : BOOLEAN]
  /\ wallet \in [state : States, of : 0 .. MaxAttempts, tail : Callers]
  /\ task \in {"none", "start", "go", "end"}

\* A client that is connected is shown as connected, even one whose attempt began
\* before an earlier disconnect() was done; a request on display is that of the
\* last attempt.
PageShowsClient ==
  /\ client.state = "connected" => page.connected
  /\ page.request \in {0, client.attempt}

\* isConnected means connected, or about to be told otherwise.
ConnectedIsReal == page.connected => client.state = "connected" \/ task # "none"
=============================================================================
