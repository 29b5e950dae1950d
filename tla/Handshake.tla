----------------------------- MODULE Handshake -----------------------------
(***************************************************************************)
(* One connection attempt of a DappClient, answered by one or more         *)
(* WalletClients that scanned the same request: the trusted handlers       *)
(* (optimistic, no acknowledgement) and the untrusted ones (one-time       *)
(* password and acknowledgement), with everything that can cut in between  *)
(* two awaits: the other side, the user, timers, disconnect(), a rejected  *)
(* publication, a failing store, the death of a process.                   *)
(*                                                                         *)
(* A step is the code between two awaits.  A client is represented by the  *)
(* await its connection handler stands at, its public state, its session   *)
(* and its transport.  The relay keeps what it accepted; a subscriber may  *)
(* receive it at any later time, once, in any order.                       *)
(***************************************************************************)
EXTENDS Naturals

CONSTANTS
  Wallets,      \* wallet clients that scan the request
  NoWallet,     \* no wallet, or a code no wallet displays
  OtpAttempts   \* otpAttempts

ASSUME WalletAssumption  == NoWallet \notin Wallets
ASSUME AttemptAssumption == OtpAttempts \in Nat \ {0}

VARIABLES
  scene,     \* the mode of the request; is the attempt calm: does nothing fail,
             \* expire, disconnect or die in it?
  dapp,      \* the dApp's client
  wallet,    \* each wallet's client
  peer,      \* the wallet whose offer the dApp's handler took
  chosen,    \* the wallet the dApp went on with: offer taken, code verified
  wrong,     \* wrong codes submitted so far, as far as they are told apart
  prompt,    \* "no", "open", or "resolved" once a submit() call has resolved
  request,   \* 0, 1: the request has expired, 2: and the grace period too
  otpOver,   \* wallets whose code's deadline has passed on the dApp's clock
  relay,     \* messages the relay accepted
  seen,      \* messages a transport handed to its client
  inbox,     \* those the client is still decrypting
  emitted,   \* payloads the wallets' applications were given
  dStored,   \* the wallet of the session in the dApp's store
  wStored    \* wallets with the session in their store

vars == <<scene, dapp, wallet, peer, chosen, wrong, prompt, request, otpOver,
          relay, seen, inbox, emitted, dStored, wStored>>
otp   == <<peer, chosen, wrong, prompt>>
clock == <<scene, request, otpOver>>
net   == <<relay, seen, inbox, emitted>>

Trusted  == scene.mode = "trusted"
MayFail  == ~ scene.calm
Offer(w) == <<"offer", w>>
Ack(w)   == <<"ack", w>>
Ask(w)   == <<"ask", w>>      \* a request of the connected dApp
Initial(w) == <<"initial", w>>  \* the payload that came with the request
Messages == {"offer", "ack", "ask"} \X Wallets
Payloads == {"ask", "initial"} \X Wallets

DappPcs   == {"idle", "connect", "subscribe", "offer", "otp", "subSession",
              "ack", "acking", "store", "clear", "done", "dead"}
WalletPcs == {"idle", "connect", "subHandshake", "subSession", "offer",
              "offering", "ack", "store", "clear", "initial", "done", "dead"}
Client(P) == [pc : P, state : {"DISCONNECTED", "CONNECTING", "CONNECTED"},
              session : {"null", "pending", "final"},
              transport : {"off", "on", "cut"}, closing : Nat]
New  == [pc |-> "idle", state |-> "DISCONNECTED", session |-> "null",
         transport |-> "off", closing |-> 0]
Dead == [New EXCEPT !.pc = "dead", !.transport = "cut"]

Init ==
  /\ scene \in [mode : {"trusted", "untrusted"}, calm : BOOLEAN]
  /\ dapp = New
  /\ wallet = [w \in Wallets |-> New]
  /\ peer = NoWallet /\ chosen = NoWallet
  /\ wrong = 0 /\ prompt = "no"
  /\ request = 0 /\ otpOver = {}
  /\ relay = {} /\ seen = {} /\ inbox = {} /\ emitted = {}
  /\ dStored = NoWallet /\ wStored = {}

\* Mutation: disconnect() leaves the record in the store.
DisconnectedOnly(c) ==
  IF c.session = "null" THEN c
  ELSE [c EXCEPT !.session = "null", !.state = "DISCONNECTED", !.transport = "cut"]

\* BaseClient.disconnect(): at once memory and transport; then, still to come,
\* the record in the store.  Without a session it does nothing.
Disconnected(c) ==
  IF c.session = "null" THEN c
  ELSE [c EXCEPT !.session = "null", !.state = "DISCONNECTED",
                 !.transport = "cut", !.closing = @ + 1]

\* connect()'s catch, dApp and wallet: the attempt is over.
Failed(c)       == [Disconnected(c) EXCEPT !.pc = "done"]
WalletFailed(c) == [Failed(c) EXCEPT !.state = "DISCONNECTED"]

Dapp(c)      == dapp' = c /\ UNCHANGED wallet
Wallet(w, c) == wallet' = [wallet EXCEPT ![w] = c] /\ UNCHANGED dapp
DappTo(pc)      == Dapp([dapp EXCEPT !.pc = pc])
WalletTo(w, pc) == Wallet(w, [wallet[w] EXCEPT !.pc = pc])

-----------------------------------------------------------------------------
(* The dApp *)

DappConnect ==
  /\ dapp.pc = "idle"
  /\ Dapp([dapp EXCEPT !.pc = "connect", !.state = "CONNECTING", !.session = "pending"])
  /\ UNCHANGED <<otp, clock, net, dStored, wStored>>

\* transport.connect() and transport.subscribe() resolve, unless the transport
\* was cut meanwhile: then they never do.
DappConnected ==
  /\ dapp.pc = "connect" /\ dapp.transport = "off"
  /\ Dapp([dapp EXCEPT !.pc = "subscribe", !.transport = "on"])
  /\ UNCHANGED <<otp, clock, net, dStored, wStored>>

\* _waitForHandshakeOffer() begins: listener and timer, or too late already.
DappSubscribed ==
  /\ dapp.pc = "subscribe" /\ dapp.transport = "on"
  /\ IF request > 0 THEN Dapp(Failed(dapp)) ELSE DappTo("offer")
  /\ UNCHANGED <<otp, clock, net, dStored, wStored>>

\* Its timer: the request's expiry, with a grace period in trusted mode.
OfferTimeout ==
  /\ dapp.pc = "offer"
  /\ request > (IF Trusted THEN 1 ELSE 0)
  /\ Dapp(Failed(dapp))
  /\ UNCHANGED <<otp, clock, net, dStored, wStored>>

\* _finalizeConnection() up to the store: sessionstore.set() is under way.
DappStore(c, w) ==
  IF c.session = "null" THEN Dapp(Failed(c)) /\ UNCHANGED dStored
  ELSE Dapp([c EXCEPT !.pc = "store"]) /\ dStored' = w

\* The listener takes the first offer; the handler goes on at once.
TakeOffer(w) ==
  /\ peer' = w
  /\ UNCHANGED wrong
  /\ IF Trusted
     THEN /\ chosen' = w
          /\ DappStore([dapp EXCEPT !.session = "final"], w)
          /\ UNCHANGED prompt
     ELSE /\ IF w \in otpOver
             THEN Dapp(Failed(dapp)) /\ UNCHANGED prompt
             ELSE DappTo("otp") /\ prompt' = "open"
          /\ UNCHANGED <<chosen, dStored>>

\* Mutation: attempts are not counted.
SubmitForever(code) ==
  /\ prompt # "no" /\ dapp.pc # "dead"
  /\ IF code = peer
     THEN /\ prompt' = "resolved"
          /\ UNCHANGED wrong
          /\ IF dapp.pc = "otp"
             THEN /\ chosen' = peer
                  /\ Dapp([dapp EXCEPT !.pc = "subSession", !.session = "final"])
             ELSE UNCHANGED <<chosen, dapp, wallet>>
     ELSE /\ wrong' = IF wrong < OtpAttempts THEN wrong + 1 ELSE wrong
          /\ UNCHANGED <<chosen, prompt, dapp, wallet>>
  /\ UNCHANGED <<peer, clock, net, dStored, wStored>>

\* submit(code), called whenever the user interface likes.  The promise behind
\* it settles once; the deadline is not looked at again.
Submit(code) ==
  /\ prompt # "no" /\ dapp.pc # "dead"
  /\ IF code = peer
     THEN /\ prompt' = "resolved"
          /\ UNCHANGED wrong
          /\ IF dapp.pc = "otp"
             THEN /\ chosen' = peer
                  /\ Dapp([dapp EXCEPT !.pc = "subSession", !.session = "final"])
             ELSE UNCHANGED <<chosen, dapp, wallet>>
     ELSE /\ wrong' = IF wrong < OtpAttempts THEN wrong + 1 ELSE wrong
          /\ IF wrong' < OtpAttempts
             THEN UNCHANGED <<prompt, dapp, wallet>>
             ELSE /\ prompt' = "resolved"
                  /\ IF dapp.pc = "otp" THEN Dapp(Failed(dapp))
                     ELSE UNCHANGED <<dapp, wallet>>
          /\ UNCHANGED chosen
  /\ UNCHANGED <<peer, clock, net, dStored, wStored>>

Cancel ==
  /\ MayFail
  /\ dapp.pc = "otp"
  /\ Dapp(Failed(dapp))
  /\ UNCHANGED <<otp, clock, net, dStored, wStored>>

\* subscribe(session channel): before the acknowledgement when untrusted,
\* after the session is stored when trusted.
DappSessionSubscribed ==
  /\ dapp.pc = "subSession" /\ dapp.transport = "on"
  /\ IF Trusted THEN DappTo("clear")
     ELSE IF dapp.session = "null" THEN Dapp(Failed(dapp)) ELSE DappTo("ack")
  /\ UNCHANGED <<otp, clock, net, dStored, wStored>>

\* sendMessage(): expiry check and encryption, each an await that reads
\* this.session anew, then publish().
SendAck ==
  /\ dapp.pc = "ack"
  /\ \/ DappTo("acking")
     \/ dapp.session = "null" /\ Dapp(Failed(dapp))
  /\ UNCHANGED <<otp, clock, net, dStored, wStored>>

AckAccepted ==
  /\ dapp.pc = "acking" /\ dapp.transport = "on"
  /\ relay' = relay \union {Ack(peer)}
  /\ UNCHANGED <<dapp, wallet, otp, clock, seen, inbox, emitted, dStored, wStored>>

AckPublished ==
  /\ dapp.pc = "acking" /\ dapp.transport = "on" /\ Ack(peer) \in relay
  /\ DappStore(dapp, peer)
  /\ UNCHANGED <<otp, clock, net, wStored>>

AckRejected ==
  /\ MayFail
  /\ dapp.pc = "acking" /\ dapp.transport = "on"
  /\ Dapp(Failed(dapp))
  /\ UNCHANGED <<otp, clock, net, dStored, wStored>>

DappStored ==
  /\ dapp.pc = "store"
  /\ \/ DappTo(IF Trusted THEN "subSession" ELSE "clear") /\ UNCHANGED dStored
     \/ MayFail /\ Dapp(Failed(dapp)) /\ dStored' = NoWallet
  /\ UNCHANGED <<otp, clock, net, wStored>>

\* clear(handshake channel) is back: connected, whatever happened meanwhile.
DappFinish ==
  /\ dapp.pc = "clear"
  /\ Dapp([dapp EXCEPT !.pc = "done", !.state = "CONNECTED"])
  /\ UNCHANGED <<otp, clock, net, dStored, wStored>>

\* sendRequest()
SendRequest ==
  /\ dapp.state = "CONNECTED" /\ dapp.session # "null"
  /\ relay' = relay \union {Ask(peer)}
  /\ UNCHANGED <<dapp, wallet, otp, clock, seen, inbox, emitted, dStored, wStored>>

DappDisconnect ==
  /\ MayFail
  /\ dapp.session # "null"
  /\ Dapp(IF dapp.pc = "acking" THEN Failed(dapp)  \* publish() resolved false
          ELSE Disconnected(dapp))
  /\ UNCHANGED <<otp, clock, net, dStored, wStored>>

\* disconnect() comes to sessionstore.delete().
DappForget ==
  /\ dapp.closing > 0
  /\ Dapp([dapp EXCEPT !.closing = @ - 1])
  /\ dStored' = NoWallet
  /\ UNCHANGED <<otp, clock, net, wStored>>

DappCrash ==
  /\ MayFail
  /\ dapp.pc # "dead"
  /\ Dapp(Dead)
  /\ inbox' = inbox \ ({"offer"} \X Wallets)
  /\ \/ UNCHANGED dStored
     \/ dapp.pc = "store" /\ dStored' = NoWallet
  /\ UNCHANGED <<otp, clock, relay, seen, emitted, wStored>>

-----------------------------------------------------------------------------
(* A wallet *)

\* connect() with the scanned request, which it finds not expired.
WalletConnect(w) ==
  /\ wallet[w].pc = "idle" /\ dapp.pc # "idle"
  /\ Wallet(w, [wallet[w] EXCEPT !.pc = "connect", !.state = "CONNECTING",
                                 !.session = IF Trusted THEN "final" ELSE @])
  /\ UNCHANGED <<otp, clock, net, dStored, wStored>>

WalletConnected(w) ==
  /\ wallet[w].pc = "connect" /\ wallet[w].transport = "off"
  /\ Wallet(w, [wallet[w] EXCEPT !.pc = "subHandshake", !.transport = "on"])
  /\ UNCHANGED <<otp, clock, net, dStored, wStored>>

\* Subscribed to the session channel, the wallet shows the code, if any, and
\* calls sendMessage() with the offer.
WalletSubscribed(w) ==
  /\ wallet[w].transport = "on"
  /\ \/ wallet[w].pc = "subHandshake" /\ WalletTo(w, "subSession")
     \/ /\ wallet[w].pc = "subSession"
        /\ Wallet(w, [wallet[w] EXCEPT !.pc = "offer", !.session = "final"])
  /\ UNCHANGED <<otp, clock, net, dStored, wStored>>

SendOffer(w) ==
  /\ wallet[w].pc = "offer"
  /\ \/ WalletTo(w, "offering")
     \/ wallet[w].session = "null" /\ Wallet(w, WalletFailed(wallet[w]))
  /\ UNCHANGED <<otp, clock, net, dStored, wStored>>

OfferAccepted(w) ==
  /\ wallet[w].pc = "offering" /\ wallet[w].transport = "on"
  /\ relay' = relay \union {Offer(w)}
  /\ UNCHANGED <<dapp, wallet, otp, clock, seen, inbox, emitted, dStored, wStored>>

WalletStore(w) ==
  IF wallet[w].session = "null"
  THEN Wallet(w, WalletFailed(wallet[w])) /\ UNCHANGED wStored
  ELSE WalletTo(w, "store") /\ wStored' = wStored \union {w}

\* Mutation: no mode waits for an acknowledgement.
OfferPublishedIsEnough(w) ==
  /\ wallet[w].pc = "offering" /\ wallet[w].transport = "on" /\ Offer(w) \in relay
  /\ WalletStore(w)
  /\ UNCHANGED <<otp, clock, net, dStored>>

\* publish() resolved true: store the session, or wait for the acknowledgement,
\* for which a listener is registered only now, unless it is too late already.
OfferPublished(w) ==
  /\ wallet[w].pc = "offering" /\ wallet[w].transport = "on" /\ Offer(w) \in relay
  /\ IF Trusted THEN WalletStore(w)
     ELSE /\ \/ WalletTo(w, "ack")
             \/ MayFail /\ Wallet(w, WalletFailed(wallet[w]))
          /\ UNCHANGED wStored
  /\ UNCHANGED <<otp, clock, net, dStored>>

OfferRejected(w) ==
  /\ MayFail
  /\ wallet[w].pc = "offering" /\ wallet[w].transport = "on"
  /\ Wallet(w, WalletFailed(wallet[w]))
  /\ UNCHANGED <<otp, clock, net, dStored, wStored>>

\* Mutation: the wallet sets no timer.
NoAckTimeout(w) == w \notin Wallets

\* The deadline passes on the wallet's clock.
AckTimeout(w) ==
  /\ MayFail
  /\ wallet[w].pc = "ack"
  /\ Wallet(w, WalletFailed(wallet[w]))
  /\ UNCHANGED <<otp, clock, net, dStored, wStored>>

WalletStored(w) ==
  /\ wallet[w].pc = "store"
  /\ \/ WalletTo(w, "clear") /\ UNCHANGED wStored
     \/ MayFail /\ Wallet(w, WalletFailed(wallet[w])) /\ wStored' = wStored \ {w}
  /\ UNCHANGED <<otp, clock, net, dStored>>

WalletFinish(w) ==
  /\ wallet[w].pc = "clear"
  /\ Wallet(w, [wallet[w] EXCEPT !.pc = "initial", !.state = "CONNECTED"])
  /\ UNCHANGED <<otp, clock, net, dStored, wStored>>

\* The setTimeout() of _processInitialMessage() fires.
ProcessInitialMessage(w) ==
  /\ wallet[w].pc = "initial"
  /\ WalletTo(w, "done")
  /\ emitted' = emitted \union {Initial(w)}
  /\ UNCHANGED <<otp, clock, relay, seen, inbox, dStored, wStored>>

WalletDisconnect(w) ==
  /\ MayFail
  /\ wallet[w].session # "null"
  /\ Wallet(w, IF wallet[w].pc = "offering" THEN WalletFailed(wallet[w])
               ELSE Disconnected(wallet[w]))
  /\ UNCHANGED <<otp, clock, net, dStored, wStored>>

WalletForget(w) ==
  /\ wallet[w].closing > 0
  /\ Wallet(w, [wallet[w] EXCEPT !.closing = @ - 1])
  /\ wStored' = wStored \ {w}
  /\ UNCHANGED <<otp, clock, net, dStored>>

WalletCrash(w) ==
  /\ MayFail
  /\ wallet[w].pc # "dead"
  /\ Wallet(w, Dead)
  /\ inbox' = inbox \ {Ack(w), Ask(w)}
  /\ \/ UNCHANGED wStored
     \/ wallet[w].pc = "store" /\ wStored' = wStored \ {w}
  /\ UNCHANGED <<otp, clock, relay, seen, emitted, dStored>>

-----------------------------------------------------------------------------
(* Messages and time *)

\* The client a message is for, and whether it is subscribed to its channel.
To(m) == IF m[1] = "offer" THEN dapp ELSE wallet[m[2]]
Subscribed(m) ==
  /\ To(m).transport = "on"
  /\ IF m[1] = "offer" THEN dapp.pc \notin {"idle", "connect", "subscribe", "done"}
     ELSE wallet[m[2]].pc \notin {"idle", "connect", "subHandshake", "subSession"}

\* The transport hands the message over; a client with no session drops it,
\* any other begins to decrypt it.
Receive(m) ==
  /\ m \in relay \ seen /\ Subscribed(m)
  /\ seen' = seen \union {m}
  /\ inbox' = IF To(m).session = "null" THEN inbox ELSE inbox \union {m}
  /\ UNCHANGED <<dapp, wallet, otp, clock, relay, emitted, dStored, wStored>>

\* Disconnected before decryption began.
Drop(m) ==
  /\ m \in inbox /\ To(m).session = "null"
  /\ inbox' = inbox \ {m}
  /\ UNCHANGED <<dapp, wallet, otp, clock, relay, seen, emitted, dStored, wStored>>

\* Mutations: the listener stays after the first offer; offers are for the
\* connected only.
DappHandlesEvery(w) ==
  /\ Offer(w) \in inbox
  /\ inbox' = inbox \ {Offer(w)}
  /\ IF dapp.state = "CONNECTING"
     THEN TakeOffer(w)
     ELSE UNCHANGED <<dapp, wallet, otp, dStored>>
  /\ UNCHANGED <<clock, relay, seen, emitted, wStored>>

DappIgnores(w) ==
  /\ Offer(w) \in inbox
  /\ inbox' = inbox \ {Offer(w)}
  /\ UNCHANGED <<dapp, wallet, otp, clock, relay, seen, emitted, dStored, wStored>>

\* handleMessage(), dApp: an offer counts while connecting, and finds a
\* listener only while the handler waits for it.
DappHandleMessage(w) ==
  /\ Offer(w) \in inbox
  /\ inbox' = inbox \ {Offer(w)}
  /\ IF dapp.state = "CONNECTING" /\ dapp.pc = "offer"
     THEN TakeOffer(w)
     ELSE UNCHANGED <<dapp, wallet, otp, dStored>>
  /\ UNCHANGED <<clock, relay, seen, emitted, wStored>>

\* handleMessage(), wallet: in any state.  An acknowledgement resolves the
\* handler if it waits for one; a request goes to the application.
WalletHandleMessage(w) ==
  /\ \/ /\ Ack(w) \in inbox
        /\ inbox' = inbox \ {Ack(w)}
        /\ IF wallet[w].pc = "ack" THEN WalletStore(w)
           ELSE UNCHANGED <<dapp, wallet, wStored>>
        /\ UNCHANGED emitted
     \/ /\ Ask(w) \in inbox
        /\ inbox' = inbox \ {Ask(w)}
        /\ emitted' = emitted \union {Ask(w)}
        /\ UNCHANGED <<dapp, wallet, wStored>>
  /\ UNCHANGED <<otp, clock, relay, seen, dStored>>

\* Time passes; nobody looks at a deadline later than these steps do.
RequestExpires ==
  /\ MayFail
  /\ dapp.pc \in {"connect", "subscribe", "offer"}
  /\ request < (IF Trusted THEN 2 ELSE 1)
  /\ request' = request + 1
  /\ UNCHANGED <<scene, dapp, wallet, otp, otpOver, net, dStored, wStored>>

\* The dApp's clock passes the deadline of a code on display.  The wallet's
\* own clock, which may disagree, is not kept: it is read in two places only.
OtpExpires(w) ==
  /\ MayFail /\ ~ Trusted
  /\ wallet[w].pc \notin {"idle", "connect", "subHandshake", "subSession"}
  /\ chosen = NoWallet /\ dapp.pc \notin {"done", "dead"}
  /\ w \notin otpOver
  /\ otpOver' = otpOver \union {w}
  /\ UNCHANGED <<scene, dapp, wallet, otp, request, net, dStored, wStored>>

-----------------------------------------------------------------------------
User == Cancel \/ \E code \in Wallets \union {NoWallet} : Submit(code)

\* What the dApp's process does by itself once started.
DappStep ==
  \/ DappConnected \/ DappSubscribed \/ OfferTimeout \/ DappSessionSubscribed
  \/ SendAck \/ AckPublished \/ AckRejected \/ DappStored \/ DappFinish
  \/ DappForget \/ \E w \in Wallets : DappHandleMessage(w)

WalletStep(w) ==
  \/ WalletConnected(w) \/ WalletSubscribed(w) \/ SendOffer(w)
  \/ OfferPublished(w) \/ OfferRejected(w) \/ AckTimeout(w) \/ WalletStored(w)
  \/ WalletFinish(w) \/ ProcessInitialMessage(w) \/ WalletForget(w)
  \/ WalletHandleMessage(w)

Relay == AckAccepted \/ \E w \in Wallets : OfferAccepted(w)
Deliver == \E m \in Messages : Receive(m)
Time == RequestExpires \/ \E w \in Wallets : OtpExpires(w)

Next ==
  \/ DappConnect \/ DappStep \/ DappDisconnect \/ DappCrash \/ SendRequest
  \/ \E w \in Wallets : \/ WalletConnect(w) \/ WalletStep(w)
                        \/ WalletDisconnect(w) \/ WalletCrash(w)
  \/ User \/ Relay \/ Deliver \/ Time
  \/ \E m \in Messages : Drop(m)

Spec == Init /\ [][Next]_vars

\* Promises settle, the relay is reachable and delivers, time passes.  The user
\* owes nothing.
FairSpec ==
  /\ Spec
  /\ WF_vars(DappStep) /\ \A w \in Wallets : WF_vars(WalletStep(w))
  /\ WF_vars(AckAccepted) /\ \A w \in Wallets : WF_vars(OfferAccepted(w))
  /\ \A m \in Messages : WF_vars(Receive(m))
  /\ WF_vars(Time)

-----------------------------------------------------------------------------
TypeOK ==
  /\ scene \in [mode : {"trusted", "untrusted"}, calm : BOOLEAN]
  /\ dapp \in Client(DappPcs)
  /\ wallet \in [Wallets -> Client(WalletPcs)]
  /\ peer \in Wallets \union {NoWallet}
  /\ chosen \in Wallets \union {NoWallet}
  /\ wrong \in 0 .. OtpAttempts
  /\ prompt \in {"no", "open", "resolved"}
  /\ request \in 0 .. 2
  /\ otpOver \subseteq Wallets
  /\ relay \subseteq Messages
  /\ seen \subseteq Messages
  /\ inbox \subseteq Messages
  /\ emitted \subseteq Payloads
  /\ dStored \in Wallets \union {NoWallet}
  /\ wStored \subseteq Wallets

\* A wallet that is past its wait: storing, connected, or with a stored session.
Paired(w) ==
  \/ wallet[w].pc \in {"store", "clear", "initial"}
  \/ wallet[w].state = "CONNECTED"
  \/ w \in wStored

\* In untrusted mode a wallet that scanned the request comes to a session only
\* if the user typed the code on its display into the dApp, and the dApp's own
\* session, in memory or stored, is with that wallet: however many wallets
\* scanned, whoever died, failed, timed out or disconnected on the way.
OnlyVerifiedPairs ==
  ~ Trusted => \A w \in Wallets : Paired(w) => chosen = w

DappSessionIsChosen ==
  /\ dStored \in {NoWallet, chosen}
  /\ dapp.session = "final" => chosen = peer /\ peer \in Wallets

\* Why: an acknowledgement is sent only to the chosen wallet, after the choice,
\* and a choice is made once.
MessagesFlow == inbox \subseteq seen /\ seen \subseteq relay

ChosenOnce ==
  /\ dapp.pc \in {"idle", "connect", "subscribe", "offer"} =>
       peer = NoWallet /\ prompt = "no"
  /\ dapp.pc \in {"idle", "connect", "subscribe", "offer", "otp"} =>
       chosen = NoWallet /\ dapp.session # "final"
  /\ dapp.pc = "otp" => peer \in Wallets
  /\ dapp.pc \in {"subSession", "ack", "acking", "store", "clear"}
       \/ dapp.state = "CONNECTED" => chosen = peer /\ peer \in Wallets

AckIsForChosen ==
  \A w \in Wallets : Ack(w) \in relay => chosen = w

PairedHasAck ==
  ~ Trusted => \A w \in Wallets : Paired(w) => Ack(w) \in relay

PairingInv ==
  /\ MessagesFlow
  /\ ChosenOnce
  /\ AckIsForChosen
  /\ PairedHasAck
  /\ OnlyVerifiedPairs
  /\ DappSessionIsChosen

\* After the last attempt has been used up no code makes the dApp go on, though
\* its callback can still be called.
LimitHolds ==
  [][wrong = OtpAttempts => chosen' = chosen]_vars

\* Once disconnect(), called by the application or by connect()'s catch, has run
\* to its end, the session is not in the store: also when it overtook a handler
\* that was storing it.
Gone(c) == c.transport = "cut" /\ c.session = "null" /\ c.closing = 0 /\ c.pc # "dead"

DisconnectForgets ==
  /\ Gone(dapp) => dStored = NoWallet
  /\ \A w \in Wallets : Gone(wallet[w]) => w \notin wStored

\* Why: of a session that is stored somebody still has the session in memory, or
\* a disconnect() that is to delete it.
Held(c) == c.session # "null" \/ c.closing > 0 \/ c.pc = "dead"

StoredIsHeld ==
  /\ dStored # NoWallet => Held(dapp)
  /\ \A w \in wStored : Held(wallet[w])

-----------------------------------------------------------------------------
(* What the documentation says and the code does not do *)

\* "clears the active session from memory" (BaseClient.disconnect): a client
\* without a session is not CONNECTED.
ConnectedHasSession ==
  /\ dapp.state = "CONNECTED" => dapp.session # "null"
  /\ \A w \in Wallets : wallet[w].state = "CONNECTED" => wallet[w].session # "null"

\* "The WalletClient receives the handshake-ack ... Both clients transition to a
\* CONNECTED state": no acknowledgement is handled before anyone listens.
AckIsHeard ==
  \A w \in Wallets :
    Ack(w) \in seen \ inbox /\ wallet[w].session # "null" =>
      wallet[w].pc \notin {"offering", "ack"}

\* "this will be the first message the wallet processes immediately after the
\* connection is finalized" (SessionRequest.initialMessage).
InitialIsFirst ==
  \A w \in Wallets : Ask(w) \in emitted => Initial(w) \in emitted

-----------------------------------------------------------------------------
(* Liveness *)

\* connect() comes to an end, the dApp's unless it waits for its user, unless
\* disconnect() cut the transport it waits for.  (In a calm attempt no timer
\* runs out: what becomes of that one is PairingCompletes.)
Settles(c, P) == c.pc \in P \union {"done", "dead"} \/ c.transport = "cut"

ConnectSettles ==
  /\ MayFail /\ dapp.pc \notin {"idle", "otp"} ~> Settles(dapp, {"otp"})
  /\ \A w \in Wallets :
       MayFail /\ wallet[w].pc # "idle" ~> Settles(wallet[w], {"initial"})

\* Where nothing fails, both sides of a trusted request get connected ("Both
\* clients are now fully connected", docs on the trusted flow).
PairingCompletes ==
  \A w \in Wallets :
    scene.calm /\ Trusted /\ wallet[w].pc # "idle" ~>
      dapp.state = "CONNECTED" /\ wallet[w].state = "CONNECTED"

-----------------------------------------------------------------------------
(* Refinement: what an attempt promises, seen from outside *)

End(c) == IF c.transport = "cut" \/ (c.pc = "done" /\ c.state # "CONNECTED") THEN "over"
          ELSE IF c.state = "CONNECTED" THEN "paired" ELSE "open"

Abstract == INSTANCE Pairing WITH
  confirmed <- ~ Trusted,
  dappEnd <- End(dapp),
  walletEnd <- [w \in Wallets |-> End(wallet[w])]

Pairs == Abstract!Spec
=============================================================================
