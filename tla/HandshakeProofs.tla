-------------------------- MODULE HandshakeProofs --------------------------
(* Proofs about Handshake.tla, for any set of wallets, in both modes. *)
EXTENDS Handshake, TLAPS

USE WalletAssumption, AttemptAssumption

(* What the updates of a client record give. *)
LEMMA PcUpdate ==
  ASSUME NEW P, NEW c \in Client(P), NEW p \in P
  PROVE  [c EXCEPT !.pc = p] \in Client(P)
BY DEF Client

LEMMA DisconnectedType ==
  ASSUME NEW P, NEW c \in Client(P)
  PROVE  /\ Disconnected(c) \in Client(P)
         /\ Disconnected(c).pc = c.pc
         /\ Disconnected(c).session = "null"
         /\ Disconnected(c).state \in {c.state, "DISCONNECTED"}
<1>1. CASE c.session = "null"
  BY <1>1 DEF Disconnected
<1>2. CASE c.session # "null"
  <2>1. Disconnected(c) = [pc |-> c.pc, state |-> "DISCONNECTED", session |-> "null",
                           transport |-> "cut", closing |-> c.closing + 1]
    BY <1>2 DEF Client, Disconnected
  <2> QED  BY <2>1 DEF Client
<1> QED  BY <1>1, <1>2

LEMMA FailedType ==
  ASSUME NEW P, NEW c \in Client(P), "done" \in P
  PROVE  /\ Failed(c) \in Client(P)
         /\ Failed(c).pc = "done"
         /\ Failed(c).session = "null"
         /\ Failed(c).state \in {c.state, "DISCONNECTED"}
         /\ WalletFailed(c) \in Client(P)
         /\ WalletFailed(c).pc = "done"
         /\ WalletFailed(c).session = "null"
         /\ WalletFailed(c).state = "DISCONNECTED"
<1> DEFINE d == Disconnected(c)
<1>1. d \in Client(P) /\ d.session = "null" /\ d.state \in {c.state, "DISCONNECTED"}
  BY DisconnectedType
<1>2. /\ Failed(c) = [d EXCEPT !.pc = "done"]
      /\ WalletFailed(c) = [Failed(c) EXCEPT !.state = "DISCONNECTED"]
  BY DEF Failed, WalletFailed
<1> HIDE DEF d
<1>3. /\ Failed(c) \in Client(P) /\ Failed(c).pc = "done" /\ Failed(c).session = "null"
      /\ Failed(c).state = d.state
  BY <1>1, <1>2 DEF Client
<1> QED  BY <1>1, <1>2, <1>3 DEF Client

LEMMA FreshType ==
  /\ New \in Client(DappPcs) /\ Dead \in Client(DappPcs)
  /\ New \in Client(WalletPcs) /\ Dead \in Client(WalletPcs)
  /\ Dead.pc = "dead" /\ Dead.session = "null" /\ Dead.state = "DISCONNECTED"
BY DEF New, Dead, Client, DappPcs, WalletPcs

LEMMA MessageTypes ==
  ASSUME NEW w \in Wallets
  PROVE  /\ Offer(w) \in Messages /\ Ack(w) \in Messages /\ Ask(w) \in Messages
         /\ Ask(w) \in Payloads /\ Initial(w) \in Payloads
BY DEF Offer, Ack, Ask, Initial, Messages, Payloads

LEMMA MessageKinds ==
  ASSUME NEW v, NEW w
  PROVE  /\ Ack(v) = Ack(w) => v = w
         /\ Ack(v) # Offer(w)
         /\ Ack(v) # Ask(w)
BY DEF Offer, Ack, Ask

-----------------------------------------------------------------------------
(* Type correctness, one side at a time *)

ClientsTyped == dapp \in Client(DappPcs) /\ wallet \in [Wallets -> Client(WalletPcs)]

OtpTyped ==
  /\ peer \in Wallets \union {NoWallet}
  /\ chosen \in Wallets \union {NoWallet}
  /\ wrong \in 0 .. OtpAttempts
  /\ prompt \in {"no", "open", "resolved"}

NetTyped ==
  /\ relay \subseteq Messages /\ seen \subseteq Messages /\ inbox \subseteq Messages
  /\ emitted \subseteq Payloads

RestTyped ==
  /\ request \in 0 .. 2 /\ otpOver \subseteq Wallets
  /\ dStored \in Wallets \union {NoWallet} /\ wStored \subseteq Wallets

SceneTyped == scene \in [mode : {"trusted", "untrusted"}, calm : BOOLEAN]

LEMMA TypeParts ==
  TypeOK <=> SceneTyped /\ ClientsTyped /\ OtpTyped /\ NetTyped /\ RestTyped
BY DEF TypeOK, SceneTyped, ClientsTyped, OtpTyped, NetTyped, RestTyped

LEMMA TypePartsNext ==
  TypeOK' <=> SceneTyped' /\ ClientsTyped' /\ OtpTyped' /\ NetTyped' /\ RestTyped'
BY DEF TypeOK, SceneTyped, ClientsTyped, OtpTyped, NetTyped, RestTyped

LEMMA SetClient ==
  ASSUME ClientsTyped
  PROVE  /\ \A c \in Client(DappPcs) : Dapp(c) => ClientsTyped'
         /\ \A w \in Wallets : \A c \in Client(WalletPcs) : Wallet(w, c) => ClientsTyped'
         /\ \A p \in DappPcs : DappTo(p) => ClientsTyped' /\ dapp'.pc = p
         /\ \A w \in Wallets : \A p \in WalletPcs : WalletTo(w, p) => ClientsTyped'
<1>1. \A c \in Client(DappPcs) : Dapp(c) => ClientsTyped'
  BY DEF ClientsTyped, Dapp
<1>2. \A w \in Wallets : \A c \in Client(WalletPcs) : Wallet(w, c) => ClientsTyped'
  BY DEF ClientsTyped, Wallet
<1>3. ASSUME NEW p \in DappPcs, DappTo(p)
      PROVE  ClientsTyped' /\ dapp'.pc = p
  <2>1. [dapp EXCEPT !.pc = p] \in Client(DappPcs)
    BY PcUpdate DEF ClientsTyped
  <2>2. [dapp EXCEPT !.pc = p].pc = p
    BY DEF ClientsTyped, Client
  <2> QED  BY <1>1, <1>3, <2>1, <2>2 DEF DappTo, Dapp
<1>4. ASSUME NEW w \in Wallets, NEW p \in WalletPcs, WalletTo(w, p)
      PROVE  ClientsTyped'
  <2>1. [wallet[w] EXCEPT !.pc = p] \in Client(WalletPcs)
    BY PcUpdate DEF ClientsTyped
  <2> QED  BY <1>2, <1>4, <2>1 DEF WalletTo
<1> QED  BY <1>1, <1>2, <1>3, <1>4

LEMMA FailClient ==
  ASSUME ClientsTyped
  PROVE  /\ Dapp(Failed(dapp)) => ClientsTyped'
         /\ Dapp(Disconnected(dapp)) => ClientsTyped'
         /\ \A w \in Wallets : /\ Wallet(w, WalletFailed(wallet[w])) => ClientsTyped'
                               /\ Wallet(w, Disconnected(wallet[w])) => ClientsTyped'
<1>1. "done" \in DappPcs /\ "done" \in WalletPcs
  BY DEF DappPcs, WalletPcs
<1>2. \A w \in Wallets : wallet[w] \in Client(WalletPcs)
  BY DEF ClientsTyped
<1>3. dapp \in Client(DappPcs)
  BY DEF ClientsTyped
<1>4. Failed(dapp) \in Client(DappPcs) /\ Disconnected(dapp) \in Client(DappPcs)
  BY <1>1, <1>3, FailedType, DisconnectedType
<1>5. \A w \in Wallets : /\ WalletFailed(wallet[w]) \in Client(WalletPcs)
                         /\ Disconnected(wallet[w]) \in Client(WalletPcs)
  BY <1>1, <1>2, FailedType, DisconnectedType
<1> QED  BY <1>4, <1>5, SetClient

-----------------------------------------------------------------------------
LEMMA ClientsStep ==
  ASSUME TypeOK, [Next]_vars
  PROVE  ClientsTyped'
<1> USE DEF DappPcs, WalletPcs
<1>0. ClientsTyped /\ OtpTyped
  BY TypeParts
<1>d. dapp \in Client(DappPcs)
  BY <1>0 DEF ClientsTyped
<1>w. \A w \in Wallets : wallet[w] \in Client(WalletPcs)
  BY <1>0 DEF ClientsTyped
<1>s. UNCHANGED <<dapp, wallet>> => ClientsTyped'
  BY <1>0 DEF ClientsTyped
<1>1. ASSUME DappConnect  PROVE  ClientsTyped'
  <2>1. [dapp EXCEPT !.pc = "connect", !.state = "CONNECTING", !.session = "pending"]
          \in Client(DappPcs)
    BY <1>d DEF Client
  <2> QED  BY <1>1, <2>1, <1>0, SetClient DEF DappConnect
<1>2. ASSUME DappConnected  PROVE  ClientsTyped'
  <2>1. [dapp EXCEPT !.pc = "subscribe", !.transport = "on"] \in Client(DappPcs)
    BY <1>d DEF Client
  <2> QED  BY <1>2, <2>1, <1>0, SetClient DEF DappConnected
<1>3. ASSUME DappSubscribed  PROVE  ClientsTyped'
  BY <1>3, <1>0, SetClient, FailClient DEF DappSubscribed
<1>4. ASSUME OfferTimeout  PROVE  ClientsTyped'
  BY <1>4, <1>0, SetClient, FailClient DEF OfferTimeout
<1>5. ASSUME DappSessionSubscribed  PROVE  ClientsTyped'
  BY <1>5, <1>0, SetClient, FailClient DEF DappSessionSubscribed
<1>6. ASSUME SendAck  PROVE  ClientsTyped'
  BY <1>6, <1>0, SetClient, FailClient DEF SendAck
<1>7. ASSUME AckAccepted  PROVE  ClientsTyped'
  BY <1>7, <1>s DEF AckAccepted
<1>8. ASSUME AckPublished  PROVE  ClientsTyped'
  <2>1. Dapp([dapp EXCEPT !.pc = "store"]) <=> DappTo("store")
    BY DEF DappTo
  <2> QED  BY <1>8, <2>1, <1>0, SetClient, FailClient DEF AckPublished, DappStore
<1>9. ASSUME AckRejected  PROVE  ClientsTyped'
  BY <1>9, <1>0, SetClient, FailClient DEF AckRejected
<1>10. ASSUME DappStored  PROVE  ClientsTyped'
  BY <1>10, <1>0, SetClient, FailClient DEF DappStored
<1>11. ASSUME DappFinish  PROVE  ClientsTyped'
  <2>1. [dapp EXCEPT !.pc = "done", !.state = "CONNECTED"] \in Client(DappPcs)
    BY <1>d DEF Client
  <2> QED  BY <1>11, <2>1, <1>0, SetClient DEF DappFinish
<1>12. ASSUME SendRequest  PROVE  ClientsTyped'
  BY <1>12, <1>s DEF SendRequest
<1>13. ASSUME DappDisconnect  PROVE  ClientsTyped'
  BY <1>13, <1>0, SetClient, FailClient DEF DappDisconnect
<1>14. ASSUME DappForget  PROVE  ClientsTyped'
  <2>1. [dapp EXCEPT !.closing = @ - 1] \in Client(DappPcs)
    BY <1>d, <1>14 DEF Client, DappForget
  <2> QED  BY <1>14, <2>1, <1>0, SetClient DEF DappForget
<1>15. ASSUME DappCrash  PROVE  ClientsTyped'
  BY <1>15, <1>0, SetClient, FreshType DEF DappCrash
<1>16. ASSUME Cancel  PROVE  ClientsTyped'
  BY <1>16, <1>0, SetClient, FailClient DEF Cancel
<1>17. ASSUME \E code \in Wallets \union {NoWallet} : Submit(code)  PROVE  ClientsTyped'
  <2>1. [dapp EXCEPT !.pc = "subSession", !.session = "final"] \in Client(DappPcs)
    BY <1>d DEF Client
  <2> QED  BY <1>17, <2>1, <1>0, <1>s, SetClient, FailClient DEF Submit
<1>18. ASSUME NEW w \in Wallets, DappHandleMessage(w)  PROVE  ClientsTyped'
  <2> DEFINE f == [dapp EXCEPT !.session = "final"]
  <2>1. f \in Client(DappPcs) /\ f.session = "final"
    BY <1>d DEF Client
  <2>2. [f EXCEPT !.pc = "store"] \in Client(DappPcs)
    BY <2>1, PcUpdate
  <2> HIDE DEF f
  <2>3. DappStore(f, w) => ClientsTyped'
    BY <2>1, <2>2, <1>0, SetClient DEF DappStore
  <2>4. TakeOffer(w) => ClientsTyped'
    BY <2>3, <1>0, SetClient, FailClient DEF TakeOffer, f
  <2> QED  BY <1>18, <2>1, <2>2, <2>3, <2>4, <1>0, <1>s, SetClient, FailClient DEF DappHandleMessage, TakeOffer, DappStore
<1>19. ASSUME NEW w \in Wallets, WalletConnect(w)  PROVE  ClientsTyped'
  <2>1. [wallet[w] EXCEPT !.pc = "connect", !.state = "CONNECTING",
                          !.session = IF Trusted THEN "final" ELSE @] \in Client(WalletPcs)
    BY <1>w DEF Client
  <2> QED  BY <1>19, <2>1, <1>0, SetClient DEF WalletConnect
<1>20. ASSUME NEW w \in Wallets, WalletConnected(w)  PROVE  ClientsTyped'
  <2>1. [wallet[w] EXCEPT !.pc = "subHandshake", !.transport = "on"] \in Client(WalletPcs)
    BY <1>w DEF Client
  <2> QED  BY <1>20, <2>1, <1>0, SetClient DEF WalletConnected
<1>21. ASSUME NEW w \in Wallets, WalletSubscribed(w)  PROVE  ClientsTyped'
  <2>1. [wallet[w] EXCEPT !.pc = "offer", !.session = "final"] \in Client(WalletPcs)
    BY <1>w DEF Client
  <2> QED  BY <1>21, <2>1, <1>0, SetClient DEF WalletSubscribed
<1>22. ASSUME NEW w \in Wallets, SendOffer(w)  PROVE  ClientsTyped'
  BY <1>22, <1>0, SetClient, FailClient DEF SendOffer
<1>23. ASSUME NEW w \in Wallets, OfferAccepted(w)  PROVE  ClientsTyped'
  BY <1>23, <1>s DEF OfferAccepted
<1>24. ASSUME NEW w \in Wallets, OfferPublished(w)  PROVE  ClientsTyped'
  BY <1>24, <1>0, SetClient, FailClient DEF OfferPublished, WalletStore
<1>25. ASSUME NEW w \in Wallets, OfferRejected(w)  PROVE  ClientsTyped'
  BY <1>25, <1>0, SetClient, FailClient DEF OfferRejected
<1>26. ASSUME NEW w \in Wallets, AckTimeout(w)  PROVE  ClientsTyped'
  BY <1>26, <1>0, SetClient, FailClient DEF AckTimeout
<1>27. ASSUME NEW w \in Wallets, WalletStored(w)  PROVE  ClientsTyped'
  BY <1>27, <1>0, SetClient, FailClient DEF WalletStored
<1>28. ASSUME NEW w \in Wallets, WalletFinish(w)  PROVE  ClientsTyped'
  <2>1. [wallet[w] EXCEPT !.pc = "initial", !.state = "CONNECTED"] \in Client(WalletPcs)
    BY <1>w DEF Client
  <2> QED  BY <1>28, <2>1, <1>0, SetClient DEF WalletFinish
<1>29. ASSUME NEW w \in Wallets, ProcessInitialMessage(w)  PROVE  ClientsTyped'
  BY <1>29, <1>0, SetClient, FailClient DEF ProcessInitialMessage
<1>30. ASSUME NEW w \in Wallets, WalletDisconnect(w)  PROVE  ClientsTyped'
  BY <1>30, <1>0, SetClient, FailClient DEF WalletDisconnect
<1>31. ASSUME NEW w \in Wallets, WalletForget(w)  PROVE  ClientsTyped'
  <2>1. [wallet[w] EXCEPT !.closing = @ - 1] \in Client(WalletPcs)
    BY <1>w, <1>31 DEF Client, WalletForget
  <2> QED  BY <1>31, <2>1, <1>0, SetClient DEF WalletForget
<1>32. ASSUME NEW w \in Wallets, WalletCrash(w)  PROVE  ClientsTyped'
  BY <1>32, <1>0, SetClient, FreshType DEF WalletCrash
<1>33. ASSUME NEW w \in Wallets, WalletHandleMessage(w)  PROVE  ClientsTyped'
  BY <1>33, <1>0, <1>s, SetClient, FailClient DEF WalletHandleMessage, WalletStore
<1>34. ASSUME Deliver  PROVE  ClientsTyped'
  BY <1>34, <1>s DEF Deliver, Receive
<1>35. ASSUME Time  PROVE  ClientsTyped'
  BY <1>35, <1>s DEF Time, RequestExpires, OtpExpires
<1>36. ASSUME \E m \in Messages : Drop(m)  PROVE  ClientsTyped'
  BY <1>36, <1>s DEF Drop
<1>37. ASSUME UNCHANGED vars  PROVE  ClientsTyped'
  BY <1>37, <1>s DEF vars
<1> QED
  BY <1>1, <1>2, <1>3, <1>4, <1>5, <1>6, <1>7, <1>8, <1>9, <1>10, <1>11, <1>12, <1>13, <1>14, <1>15, <1>16, <1>17, <1>18, <1>19, <1>20, <1>21, <1>22, <1>23, <1>24, <1>25, <1>26, <1>27, <1>28, <1>29, <1>30, <1>31, <1>32, <1>33, <1>34, <1>35, <1>36, <1>37
  DEF Next, DappStep, WalletStep, User, Relay

\* Only two steps touch what the dApp knows of offers and codes.
LEMMA OtpFrame ==
  ASSUME [Next]_vars
  PROVE  \/ UNCHANGED otp
         \/ \E code \in Wallets \union {NoWallet} : Submit(code)
         \/ \E w \in Wallets : DappHandleMessage(w)
<1>1. \/ UNCHANGED otp
      \/ \E code \in Wallets \union {NoWallet} : Submit(code)
      \/ DappStep
  <2>1. CASE UNCHANGED vars
    BY <2>1 DEF vars, otp
  <2>2. CASE User
    BY <2>2 DEF User, Cancel
  <2>3. CASE Relay \/ Deliver \/ Time \/ \E m \in Messages : Drop(m)
    BY <2>3 DEF Relay, Deliver, Time, AckAccepted, OfferAccepted, Receive,
                RequestExpires, OtpExpires, Drop
  <2>4. CASE DappConnect \/ DappDisconnect \/ DappCrash \/ SendRequest
    BY <2>4 DEF DappConnect, DappDisconnect, DappCrash, SendRequest
  <2>5. ASSUME NEW w \in Wallets,
               WalletConnect(w) \/ WalletStep(w) \/ WalletDisconnect(w) \/ WalletCrash(w)
        PROVE  UNCHANGED otp
    BY <2>5 DEF WalletStep, WalletConnect, WalletConnected, WalletSubscribed, SendOffer,
                OfferPublished, OfferRejected, AckTimeout, WalletStored, WalletFinish,
                ProcessInitialMessage, WalletForget, WalletHandleMessage,
                WalletDisconnect, WalletCrash
  <2> QED  BY <2>1, <2>2, <2>3, <2>4, <2>5 DEF Next
<1>2. CASE DappStep
  BY <1>2 DEF DappStep, DappConnected, DappSubscribed, OfferTimeout,
              DappSessionSubscribed, SendAck, AckPublished, AckRejected, DappStored,
              DappFinish, DappForget
<1> QED  BY <1>1, <1>2

LEMMA OtpStep ==
  ASSUME TypeOK, [Next]_vars
  PROVE  OtpTyped'
<1>0. OtpTyped
  BY TypeParts
<1>1. CASE UNCHANGED otp
  BY <1>0, <1>1 DEF OtpTyped, otp
<1>2. ASSUME NEW code \in Wallets \union {NoWallet}, Submit(code)
      PROVE  OtpTyped'
  <2>1. CASE code = peer
    BY <1>0, <1>2, <2>1 DEF Submit, OtpTyped
  <2>2. CASE code # peer
    BY <1>0, <1>2, <2>2 DEF Submit, OtpTyped
  <2> QED  BY <2>1, <2>2
<1>3. ASSUME NEW w \in Wallets, DappHandleMessage(w)
      PROVE  OtpTyped'
  BY <1>0, <1>3 DEF DappHandleMessage, TakeOffer, OtpTyped, otp
<1> QED  BY <1>1, <1>2, <1>3, OtpFrame

\* Only these steps touch the relay and the messages under way.
LEMMA NetFrame ==
  ASSUME [Next]_vars
  PROVE  \/ UNCHANGED net
         \/ AckAccepted \/ SendRequest \/ DappCrash
         \/ \E w \in Wallets : \/ OfferAccepted(w) \/ ProcessInitialMessage(w)
                               \/ WalletCrash(w) \/ WalletHandleMessage(w)
                               \/ DappHandleMessage(w)
         \/ \E m \in Messages : Receive(m) \/ Drop(m)
<1> DEFINE Goal ==
         \/ UNCHANGED net
         \/ AckAccepted \/ SendRequest \/ DappCrash
         \/ \E w \in Wallets : \/ OfferAccepted(w) \/ ProcessInitialMessage(w)
                               \/ WalletCrash(w) \/ WalletHandleMessage(w)
                               \/ DappHandleMessage(w)
         \/ \E m \in Messages : Receive(m) \/ Drop(m)
<1>1. CASE UNCHANGED vars
  BY <1>1 DEF vars, net
<1>2. CASE User
  BY <1>2 DEF User, Cancel, Submit
<1>3. CASE Relay \/ Deliver \/ Time \/ \E m \in Messages : Drop(m)
  BY <1>3 DEF Relay, Deliver, Time, RequestExpires, OtpExpires
<1>4. CASE DappConnect \/ DappDisconnect \/ DappCrash \/ SendRequest
  BY <1>4 DEF DappConnect, DappDisconnect
<1>5. CASE DappStep
  BY <1>5 DEF DappStep, DappConnected, DappSubscribed, OfferTimeout,
              DappSessionSubscribed, SendAck, AckPublished, AckRejected, DappStored,
              DappFinish, DappForget
<1>6. ASSUME NEW w \in Wallets,
             WalletConnect(w) \/ WalletStep(w) \/ WalletDisconnect(w) \/ WalletCrash(w)
      PROVE  Goal
  BY <1>6 DEF WalletStep, WalletConnect, WalletConnected, WalletSubscribed, SendOffer,
              OfferPublished, OfferRejected, AckTimeout, WalletStored, WalletFinish,
              WalletForget, WalletDisconnect
<1> QED  BY <1>1, <1>2, <1>3, <1>4, <1>5, <1>6 DEF Next

LEMMA NetStep ==
  ASSUME TypeOK, ChosenOnce, [Next]_vars
  PROVE  NetTyped'
<1>0. NetTyped /\ OtpTyped /\ ClientsTyped
  BY TypeParts
<1>1. CASE UNCHANGED net
  BY <1>0, <1>1 DEF NetTyped, net
<1>2. CASE AckAccepted \/ SendRequest
  <2>1. peer \in Wallets
    BY <1>2 DEF AckAccepted, SendRequest, ChosenOnce
  <2> QED  BY <1>0, <1>2, <2>1, MessageTypes DEF AckAccepted, SendRequest, NetTyped
<1>3. ASSUME NEW w \in Wallets,
             \/ OfferAccepted(w) \/ ProcessInitialMessage(w)
             \/ WalletHandleMessage(w) \/ DappHandleMessage(w)
      PROVE  NetTyped'
  BY <1>0, <1>3, MessageTypes
  DEF OfferAccepted, ProcessInitialMessage, WalletHandleMessage, DappHandleMessage, NetTyped
<1>4. CASE DappCrash \/ \E w \in Wallets : WalletCrash(w)
  BY <1>0, <1>4 DEF DappCrash, WalletCrash, NetTyped
<1>5. ASSUME NEW m \in Messages, Receive(m) \/ Drop(m)
      PROVE  NetTyped'
  BY <1>0, <1>5 DEF Receive, Drop, NetTyped
<1> QED  BY <1>1, <1>2, <1>3, <1>4, <1>5, NetFrame

LEMMA RestStep ==
  ASSUME TypeOK, [Next]_vars
  PROVE  RestTyped'
<1>0. RestTyped /\ OtpTyped
  BY TypeParts
<1>1. CASE User \/ UNCHANGED vars
  BY <1>0, <1>1 DEF User, Cancel, Submit, vars, clock, RestTyped
<1>2. CASE Relay \/ Deliver \/ Time \/ \E m \in Messages : Drop(m)
  BY <1>0, <1>2 DEF Relay, Deliver, Time, AckAccepted, OfferAccepted, Receive,
                    RequestExpires, OtpExpires, Drop, clock, RestTyped
<1>3. CASE DappConnect \/ DappDisconnect \/ DappCrash \/ SendRequest
  BY <1>0, <1>3 DEF DappConnect, DappDisconnect, DappCrash, SendRequest, clock, RestTyped
<1>4. CASE DappStep
  <2>1. ASSUME NEW w \in Wallets, DappHandleMessage(w)
        PROVE  RestTyped'
    BY <1>0, <2>1 DEF DappHandleMessage, TakeOffer, DappStore, clock, RestTyped
  <2> QED  BY <1>0, <1>4, <2>1
           DEF DappStep, DappConnected, DappSubscribed, OfferTimeout,
               DappSessionSubscribed, SendAck, AckPublished, DappStore, AckRejected,
               DappStored, DappFinish, DappForget, clock, RestTyped, OtpTyped
<1>5. ASSUME NEW w \in Wallets,
             WalletConnect(w) \/ WalletStep(w) \/ WalletDisconnect(w) \/ WalletCrash(w)
      PROVE  RestTyped'
  BY <1>0, <1>5 DEF WalletStep, WalletConnect, WalletConnected, WalletSubscribed, SendOffer,
              OfferPublished, OfferRejected, AckTimeout, WalletStored, WalletFinish,
              ProcessInitialMessage, WalletForget, WalletHandleMessage, WalletStore,
              WalletDisconnect, WalletCrash, clock, RestTyped
<1> QED  BY <1>1, <1>2, <1>3, <1>4, <1>5 DEF Next

\* The mode of the request does not change.
LEMMA SceneKept ==
  ASSUME [Next]_vars
  PROVE  scene' = scene
<1>1. CASE User \/ UNCHANGED vars
  BY <1>1 DEF User, Cancel, Submit, vars, clock
<1>2. CASE Relay \/ Deliver \/ Time \/ \E m \in Messages : Drop(m)
  BY <1>2 DEF Relay, Deliver, Time, AckAccepted, OfferAccepted, Receive,
              RequestExpires, OtpExpires, Drop, clock
<1>3. CASE DappConnect \/ DappDisconnect \/ DappCrash \/ SendRequest
  BY <1>3 DEF DappConnect, DappDisconnect, DappCrash, SendRequest, clock
<1>4. CASE DappStep
  BY <1>4 DEF DappStep, DappConnected, DappSubscribed, OfferTimeout,
              DappSessionSubscribed, SendAck, AckPublished, AckRejected, DappStored,
              DappFinish, DappForget, DappHandleMessage, clock
<1>5. ASSUME NEW w \in Wallets,
             WalletConnect(w) \/ WalletStep(w) \/ WalletDisconnect(w) \/ WalletCrash(w)
      PROVE  scene' = scene
  BY <1>5 DEF WalletStep, WalletConnect, WalletConnected, WalletSubscribed, SendOffer,
              OfferPublished, OfferRejected, AckTimeout, WalletStored, WalletFinish,
              ProcessInitialMessage, WalletForget, WalletHandleMessage,
              WalletDisconnect, WalletCrash, clock
<1> QED  BY <1>1, <1>2, <1>3, <1>4, <1>5 DEF Next

LEMMA ModeKept ==
  ASSUME [Next]_vars
  PROVE  Trusted' <=> Trusted
BY SceneKept DEF Trusted

LEMMA TypeStep ==
  ASSUME TypeOK, ChosenOnce, [Next]_vars
  PROVE  TypeOK'
<1>1. SceneTyped'
  BY SceneKept, TypeParts DEF SceneTyped
<1> QED  BY <1>1, ClientsStep, OtpStep, NetStep, RestStep, TypePartsNext

-----------------------------------------------------------------------------
(* The dApp settles once *)

\* Everything but the dApp's own steps leaves the dApp alone.
LEMMA DappFrame ==
  ASSUME [Next]_vars
  PROVE  \/ UNCHANGED <<dapp, otp, dStored>>
         \/ DappConnect \/ DappStep \/ DappDisconnect \/ DappCrash \/ User
<1>1. CASE UNCHANGED vars
  BY <1>1 DEF vars, otp
<1>2. CASE Relay \/ Deliver \/ Time \/ SendRequest \/ \E m \in Messages : Drop(m)
  BY <1>2 DEF Relay, Deliver, Time, AckAccepted, OfferAccepted, Receive,
              RequestExpires, OtpExpires, Drop, SendRequest
<1>3. ASSUME NEW w \in Wallets,
             WalletConnect(w) \/ WalletStep(w) \/ WalletDisconnect(w) \/ WalletCrash(w)
      PROVE  UNCHANGED <<dapp, otp, dStored>>
  BY <1>3 DEF WalletStep, WalletConnect, WalletConnected, WalletSubscribed, SendOffer,
              OfferPublished, OfferRejected, AckTimeout, WalletStored, WalletFinish,
              ProcessInitialMessage, WalletForget, WalletHandleMessage, WalletStore,
              WalletDisconnect, WalletCrash, Wallet, WalletTo
<1> QED  BY <1>1, <1>2, <1>3 DEF Next

Settled == ChosenOnce /\ DappSessionIsChosen

\* A step that ends the handler, or leaves the choice and the place alone.
LEMMA KeepsChoice ==
  ASSUME TypeOK, Settled, UNCHANGED otp, dStored' \in {dStored, NoWallet},
         dapp'.pc \in {dapp.pc, "done", "dead"},
         dapp'.state \in {dapp.state, "DISCONNECTED"},
         dapp'.session \in {dapp.session, "null"}
  PROVE  Settled'
BY DEF Settled, ChosenOnce, DappSessionIsChosen, otp, TypeOK

LEMMA DappFails ==
  ASSUME TypeOK, Settled, UNCHANGED otp, dStored' \in {dStored, NoWallet},
         Dapp(Failed(dapp)) \/ Dapp(Disconnected(dapp))
  PROVE  Settled'
<1>1. dapp \in Client(DappPcs) /\ "done" \in DappPcs
  BY DEF TypeOK, DappPcs
<1>2. /\ dapp'.pc \in {dapp.pc, "done"}
      /\ dapp'.state \in {dapp.state, "DISCONNECTED"}
      /\ dapp'.session = "null"
  BY <1>1, FailedType, DisconnectedType DEF Dapp
<1> QED  BY <1>2, KeepsChoice

\* A step of the handler from one place after the choice to another.
LEMMA GoesOn ==
  ASSUME TypeOK, Settled, UNCHANGED otp, dStored' \in {dStored, peer},
         dapp.pc \in {"subSession", "ack", "acking", "store", "clear"},
         dapp'.pc \in {"subSession", "ack", "acking", "store", "clear", "done"},
         dapp'.session = dapp.session
  PROVE  Settled'
BY DEF Settled, ChosenOnce, DappSessionIsChosen, otp, TypeOK

LEMMA SettledStep ==
  ASSUME TypeOK, Settled, [Next]_vars
  PROVE  Settled'
<1>d. dapp \in Client(DappPcs)
  BY DEF TypeOK
<1>t. \A q \in DappPcs : DappTo(q) =>
        dapp'.pc = q /\ dapp'.state = dapp.state /\ dapp'.session = dapp.session
  BY <1>d DEF DappTo, Dapp, Client
<1>1. CASE UNCHANGED <<dapp, otp, dStored>>
  BY <1>1 DEF Settled, ChosenOnce, DappSessionIsChosen, otp
<1>2. CASE DappConnect
  BY <1>2, <1>d DEF DappConnect, Dapp, Client, Settled, ChosenOnce, DappSessionIsChosen, otp
<1>3. CASE DappConnected
  BY <1>3, <1>d DEF DappConnected, Dapp, Client, Settled, ChosenOnce, DappSessionIsChosen, otp
<1>4. CASE DappSubscribed
  <2>1. CASE Dapp(Failed(dapp))
    BY <1>4, <2>1, DappFails DEF DappSubscribed
  <2>2. CASE DappTo("offer")
    BY <1>4, <2>2, <1>t
    DEF DappSubscribed, DappPcs, Settled, ChosenOnce, DappSessionIsChosen, otp
  <2> QED  BY <1>4, <2>1, <2>2 DEF DappSubscribed
<1>5. CASE OfferTimeout \/ AckRejected \/ Cancel
  BY <1>5, DappFails DEF OfferTimeout, AckRejected, Cancel
<1>6. CASE DappDisconnect
  BY <1>6, DappFails DEF DappDisconnect
<1>7. CASE DappSessionSubscribed \/ SendAck
  <2>1. CASE Dapp(Failed(dapp))
    BY <1>7, <2>1, DappFails DEF DappSessionSubscribed, SendAck
  <2>2. ASSUME NEW q \in {"clear", "ack", "acking"}, DappTo(q)
        PROVE  Settled'
    BY <1>7, <2>2, <1>t, GoesOn DEF DappSessionSubscribed, SendAck, DappPcs
  <2> QED  BY <1>7, <2>1, <2>2 DEF DappSessionSubscribed, SendAck
<1>8. CASE AckPublished
  <2>1. CASE Dapp(Failed(dapp)) /\ UNCHANGED dStored
    BY <1>8, <2>1, DappFails DEF AckPublished
  <2>2. CASE DappTo("store") /\ dStored' = peer
    BY <1>8, <2>2, <1>t, GoesOn DEF AckPublished, DappPcs
  <2> QED  BY <1>8, <2>1, <2>2 DEF AckPublished, DappStore, DappTo
<1>9. CASE DappStored
  <2>1. CASE Dapp(Failed(dapp)) /\ dStored' = NoWallet
    BY <1>9, <2>1, DappFails DEF DappStored
  <2>2. ASSUME NEW q \in {"subSession", "clear"}, DappTo(q), UNCHANGED dStored
        PROVE  Settled'
    BY <1>9, <2>2, <1>t, GoesOn DEF DappStored, DappPcs
  <2> QED  BY <1>9, <2>1, <2>2 DEF DappStored
<1>10. CASE DappFinish
  <2>1. dapp'.pc = "done" /\ dapp'.session = dapp.session
    BY <1>10, <1>d DEF DappFinish, Dapp, Client
  <2> QED  BY <1>10, <2>1, GoesOn DEF DappFinish
<1>11. CASE DappForget
  <2>1. dapp'.pc = dapp.pc /\ dapp'.state = dapp.state /\ dapp'.session = dapp.session
    BY <1>11, <1>d DEF DappForget, Dapp, Client
  <2> QED  BY <1>11, <2>1, KeepsChoice DEF DappForget
<1>12. CASE DappCrash
  BY <1>12, FreshType, KeepsChoice DEF DappCrash, Dapp
<1>13. ASSUME NEW code \in Wallets \union {NoWallet}, Submit(code)
       PROVE  Settled'
  <2>1. CASE UNCHANGED <<dapp, peer, chosen, dStored>> /\ prompt # "no"
    BY <2>1 DEF Settled, ChosenOnce, DappSessionIsChosen
  <2>2. CASE code = peer /\ dapp.pc = "otp"
    <3>1. /\ dapp' = [dapp EXCEPT !.pc = "subSession", !.session = "final"]
          /\ chosen' = peer /\ peer' = peer /\ dStored' = dStored
      BY <1>13, <2>2 DEF Submit, Dapp
    <3>2. dapp'.pc = "subSession"
      BY <3>1, <1>d DEF Client
    <3> QED  BY <2>2, <3>1, <3>2 DEF Settled, ChosenOnce, DappSessionIsChosen
  <2>3. CASE dapp.pc = "otp" /\ Dapp(Failed(dapp)) /\ UNCHANGED <<peer, chosen, dStored>>
    <3>1. dapp'.pc = "done" /\ dapp'.session = "null"
          /\ dapp'.state \in {dapp.state, "DISCONNECTED"}
      BY <1>d, <2>3, FailedType DEF Dapp, DappPcs
    <3> QED  BY <2>3, <3>1 DEF Settled, ChosenOnce, DappSessionIsChosen
  <2> QED  BY <1>13, <2>1, <2>2, <2>3 DEF Submit
<1>14. ASSUME NEW w \in Wallets, DappHandleMessage(w)
       PROVE  Settled'
  <2>1. CASE UNCHANGED <<dapp, otp, dStored>>
    BY <1>1, <2>1
  <2>2. CASE TakeOffer(w) /\ dapp.pc = "offer" /\ Trusted
    <3> DEFINE f == [dapp EXCEPT !.session = "final"]
    <3>1. f.session = "final" /\ [f EXCEPT !.pc = "store"].pc = "store"
      BY <1>d DEF Client
    <3>2. peer' = w /\ chosen' = w /\ dStored' = w /\ dapp'.pc = "store"
      BY <2>2, <3>1 DEF TakeOffer, DappStore, Dapp
    <3> QED  BY <3>2 DEF Settled, ChosenOnce, DappSessionIsChosen
  <2>3. CASE TakeOffer(w) /\ dapp.pc = "offer" /\ ~ Trusted
    <3>1. /\ peer' = w /\ chosen' = chosen /\ dStored' = dStored
          /\ Dapp(Failed(dapp)) \/ DappTo("otp")
      BY <2>3 DEF TakeOffer
    <3>2. /\ dapp'.pc \in {"done", "otp"}
          /\ dapp'.session \in {"null", dapp.session}
          /\ dapp'.state \in {dapp.state, "DISCONNECTED"}
      <4>1. CASE Dapp(Failed(dapp))
        BY <1>d, <4>1, FailedType DEF Dapp, DappPcs
      <4>2. CASE DappTo("otp")
        BY <1>t, <4>2 DEF DappPcs
      <4> QED  BY <3>1, <4>1, <4>2
    <3>3. /\ dapp.state # "CONNECTED" /\ dapp.session # "final"
          /\ chosen = NoWallet /\ dStored = NoWallet
      BY <2>3 DEF Settled, ChosenOnce, DappSessionIsChosen
    <3>4. dapp'.state # "CONNECTED" /\ dapp'.session # "final"
      BY <3>2, <3>3
    <3> QED  BY <3>1, <3>2, <3>3, <3>4 DEF Settled, ChosenOnce, DappSessionIsChosen
  <2> QED  BY <1>14, <2>1, <2>2, <2>3 DEF DappHandleMessage
<1> QED
  BY <1>1, <1>2, <1>3, <1>4, <1>5, <1>6, <1>7, <1>8, <1>9, <1>10, <1>11, <1>12, <1>13,
     <1>14, DappFrame
  DEF DappStep, User

-----------------------------------------------------------------------------
(* Acknowledgements and wallets *)

LEMMA FlowStep ==
  ASSUME MessagesFlow, [Next]_vars
  PROVE  MessagesFlow' /\ relay \subseteq relay'
<1>1. CASE UNCHANGED net
  BY <1>1 DEF MessagesFlow, net
<1>2. CASE AckAccepted \/ SendRequest \/ DappCrash
  BY <1>2 DEF AckAccepted, SendRequest, DappCrash, MessagesFlow
<1>3. ASSUME NEW w \in Wallets,
             \/ OfferAccepted(w) \/ ProcessInitialMessage(w) \/ WalletCrash(w)
             \/ WalletHandleMessage(w) \/ DappHandleMessage(w)
      PROVE  MessagesFlow' /\ relay \subseteq relay'
  BY <1>3 DEF OfferAccepted, ProcessInitialMessage, WalletCrash, WalletHandleMessage,
              DappHandleMessage, MessagesFlow
<1>4. ASSUME NEW m \in Messages, Receive(m) \/ Drop(m)
      PROVE  MessagesFlow' /\ relay \subseteq relay'
  BY <1>4 DEF Receive, Drop, MessagesFlow
<1> QED  BY <1>1, <1>2, <1>3, <1>4, NetFrame

\* What the dApp settled on it keeps.
LEMMA ChosenKept ==
  ASSUME Settled, [Next]_vars, chosen # NoWallet
  PROVE  chosen' = chosen
<1>1. ASSUME NEW code \in Wallets \union {NoWallet}, Submit(code)
      PROVE  chosen' = chosen
  BY <1>1 DEF Submit, Settled, ChosenOnce
<1>2. ASSUME NEW w \in Wallets, DappHandleMessage(w)
      PROVE  chosen' = chosen
  BY <1>2 DEF DappHandleMessage, TakeOffer, otp, Settled, ChosenOnce
<1> QED  BY <1>1, <1>2, OtpFrame DEF otp

LEMMA AckStep ==
  ASSUME Settled, AckIsForChosen, [Next]_vars
  PROVE  AckIsForChosen'
<1> SUFFICES ASSUME NEW v \in Wallets, Ack(v) \in relay'
             PROVE  chosen' = v
  BY DEF AckIsForChosen
<1>1. CASE Ack(v) \in relay
  BY <1>1, ChosenKept DEF AckIsForChosen
<1>2. CASE Ack(v) \notin relay
  <2>1. CASE AckAccepted
    BY <2>1, <1>2, MessageKinds DEF AckAccepted, Settled, ChosenOnce, otp
  <2>2. CASE SendRequest \/ \E w \in Wallets : OfferAccepted(w)
    BY <2>2, <1>2, MessageKinds DEF SendRequest, OfferAccepted
  <2>3. CASE relay' = relay
    BY <2>3, <1>2
  <2> QED
    BY <2>1, <2>2, <2>3, NetFrame
    DEF net, DappCrash, ProcessInitialMessage, WalletCrash, WalletHandleMessage,
        DappHandleMessage, Receive, Drop
<1> QED  BY <1>1, <1>2

\* Only a wallet's own steps make it paired.
LEMMA WalletFrame ==
  ASSUME [Next]_vars
  PROVE  \/ UNCHANGED <<wallet, wStored>>
         \/ \E w \in Wallets :
              WalletConnect(w) \/ WalletStep(w) \/ WalletDisconnect(w) \/ WalletCrash(w)
<1>1. CASE UNCHANGED vars
  BY <1>1 DEF vars
<1>2. CASE User
  BY <1>2 DEF User, Cancel, Submit, Dapp
<1>3. CASE Relay \/ Deliver \/ Time \/ SendRequest \/ \E m \in Messages : Drop(m)
  BY <1>3 DEF Relay, Deliver, Time, AckAccepted, OfferAccepted, Receive,
              RequestExpires, OtpExpires, Drop, SendRequest
<1>4. CASE DappConnect \/ DappDisconnect \/ DappCrash
  BY <1>4 DEF DappConnect, DappDisconnect, DappCrash, Dapp
<1>5. CASE DappStep
  BY <1>5 DEF DappStep, DappConnected, DappSubscribed, OfferTimeout, DappSessionSubscribed,
              SendAck, AckPublished, AckRejected, DappStored, DappFinish, DappForget,
              DappHandleMessage, TakeOffer, DappStore, Dapp, DappTo
<1> QED  BY <1>1, <1>2, <1>3, <1>4, <1>5 DEF Next

\* A wallet that is not storing or connected after a step was so before it, or
\* is the one the step stores or connects.
LEMMA WalletFails ==
  ASSUME TypeOK, NEW w \in Wallets, wStored' \subseteq wStored,
         \/ Wallet(w, WalletFailed(wallet[w])) \/ Wallet(w, Disconnected(wallet[w]))
         \/ Wallet(w, Dead)
  PROVE  \A v \in Wallets : Paired(v)' => Paired(v)
<1>1. wallet[w] \in Client(WalletPcs) /\ "done" \in WalletPcs
  BY DEF TypeOK, WalletPcs
<1>2. /\ wallet'[w].pc \in {wallet[w].pc, "done", "dead"}
      /\ wallet'[w].state \in {wallet[w].state, "DISCONNECTED"}
      /\ \A v \in Wallets : v # w => wallet'[v] = wallet[v]
  BY <1>1, FailedType, DisconnectedType, FreshType DEF Wallet, TypeOK
<1> QED  BY <1>2 DEF Paired

LEMMA PairedStep ==
  ASSUME TypeOK, MessagesFlow, PairedHasAck, [Next]_vars
  PROVE  PairedHasAck'
<1> SUFFICES ASSUME ~ Trusted PROVE \A v \in Wallets : Paired(v)' => Ack(v) \in relay'
  BY ModeKept DEF PairedHasAck
<1>0. relay \subseteq relay'
  BY FlowStep
<1>k. (\A v \in Wallets : Paired(v)' => Paired(v) \/ Ack(v) \in relay) =>
        \A v \in Wallets : Paired(v)' => Ack(v) \in relay'
  BY <1>0 DEF PairedHasAck
<1> DEFINE Kept == \A v \in Wallets : Paired(v)' => Paired(v) \/ Ack(v) \in relay
<1>1. CASE UNCHANGED <<wallet, wStored>>
  BY <1>1, <1>k DEF Paired
<1>2. ASSUME NEW w \in Wallets,
             WalletConnect(w) \/ WalletStep(w) \/ WalletDisconnect(w) \/ WalletCrash(w)
      PROVE  Kept
  <2>w. wallet[w] \in Client(WalletPcs) /\ wallet \in [Wallets -> Client(WalletPcs)]
    BY DEF TypeOK
  <2>t. \A q \in WalletPcs : WalletTo(w, q) =>
          /\ wallet'[w].pc = q /\ wallet'[w].state = wallet[w].state
          /\ \A v \in Wallets : v # w => wallet'[v] = wallet[v]
    BY <2>w DEF WalletTo, Wallet, Client
  <2>f. CASE /\ wStored' \subseteq wStored
             /\ \/ Wallet(w, WalletFailed(wallet[w])) \/ Wallet(w, Disconnected(wallet[w]))
                \/ Wallet(w, Dead)
    BY <2>f, WalletFails
  <2>1. CASE WalletConnect(w)
    <3>1. /\ wallet'[w].pc = "connect" /\ wallet'[w].state = "CONNECTING"
          /\ \A v \in Wallets : v # w => wallet'[v] = wallet[v]
      BY <2>1, <2>w DEF WalletConnect, Wallet, Client
    <3> QED  BY <2>1, <3>1 DEF WalletConnect, Paired
  <2>2. CASE WalletConnected(w)
    <3>1. /\ wallet'[w].pc = "subHandshake" /\ wallet'[w].state = wallet[w].state
          /\ \A v \in Wallets : v # w => wallet'[v] = wallet[v]
      BY <2>2, <2>w DEF WalletConnected, Wallet, Client
    <3> QED  BY <2>2, <3>1 DEF WalletConnected, Paired
  <2>3. CASE WalletSubscribed(w)
    <3>1. /\ wallet'[w].pc \in {"subSession", "offer"} /\ wallet'[w].state = wallet[w].state
          /\ \A v \in Wallets : v # w => wallet'[v] = wallet[v]
      <4>1. CASE WalletTo(w, "subSession")
        BY <4>1, <2>t DEF WalletPcs
      <4>2. CASE Wallet(w, [wallet[w] EXCEPT !.pc = "offer", !.session = "final"])
        BY <4>2, <2>w DEF Wallet, Client
      <4> QED  BY <2>3, <4>1, <4>2 DEF WalletSubscribed
    <3> QED  BY <2>3, <3>1 DEF WalletSubscribed, Paired
  <2>4. CASE SendOffer(w)
    <3>1. CASE WalletTo(w, "offering")
      BY <2>4, <3>1, <2>t DEF SendOffer, WalletPcs, Paired
    <3> QED  BY <2>4, <3>1, <2>f DEF SendOffer
  <2>5. CASE OfferPublished(w)
    <3>1. CASE WalletTo(w, "ack") /\ UNCHANGED wStored
      BY <3>1, <2>t DEF WalletPcs, Paired
    <3> QED  BY <2>5, <3>1, <2>f DEF OfferPublished
  <2>6. CASE OfferRejected(w) \/ AckTimeout(w)
    BY <2>6, <2>f DEF OfferRejected, AckTimeout
  <2>7. CASE WalletStored(w)
    <3>1. CASE WalletTo(w, "clear") /\ UNCHANGED wStored
      BY <2>7, <3>1, <2>t DEF WalletStored, WalletPcs, Paired
    <3> QED  BY <2>7, <3>1, <2>f DEF WalletStored
  <2>8. CASE WalletFinish(w)
    <3>1. \A v \in Wallets : v # w => wallet'[v] = wallet[v]
      BY <2>8 DEF WalletFinish, Wallet, TypeOK
    <3> QED  BY <2>8, <3>1 DEF WalletFinish, Paired
  <2>9. CASE ProcessInitialMessage(w)
    BY <2>9, <2>t DEF ProcessInitialMessage, WalletPcs, Paired
  <2>10. CASE WalletForget(w)
    <3>1. /\ wallet'[w].pc = wallet[w].pc /\ wallet'[w].state = wallet[w].state
          /\ \A v \in Wallets : v # w => wallet'[v] = wallet[v]
      BY <2>10, <2>w DEF WalletForget, Wallet, Client
    <3> QED  BY <2>10, <3>1 DEF WalletForget, Paired
  <2>11. CASE WalletHandleMessage(w)
    <3>1. CASE Ack(w) \in inbox /\ WalletStore(w)
      <4>1. Ack(w) \in relay
        BY <3>1 DEF MessagesFlow
      <4>2. CASE Wallet(w, WalletFailed(wallet[w])) /\ UNCHANGED wStored
        BY <4>2, <2>f
      <4>3. CASE WalletTo(w, "store") /\ wStored' = wStored \union {w}
        BY <4>1, <4>3, <2>t DEF WalletPcs, Paired
      <4> QED  BY <3>1, <4>2, <4>3 DEF WalletStore
    <3>2. CASE UNCHANGED <<wallet, wStored>>
      BY <3>2 DEF Paired
    <3> QED  BY <2>11, <3>1, <3>2 DEF WalletHandleMessage
  <2>12. CASE WalletDisconnect(w)
    BY <2>12, <2>f DEF WalletDisconnect
  <2>13. CASE WalletCrash(w)
    BY <2>13, <2>f DEF WalletCrash
  <2> QED
    BY <1>2, <2>1, <2>2, <2>3, <2>4, <2>5, <2>6, <2>7, <2>8, <2>9, <2>10, <2>11, <2>12,
       <2>13
    DEF WalletStep
<1> QED  BY <1>1, <1>2, <1>k, WalletFrame

-----------------------------------------------------------------------------
(* The inductive invariant *)

HandshakeInv ==
  TypeOK /\ Settled /\ MessagesFlow /\ AckIsForChosen /\ PairedHasAck

LEMMA InvInit == Init => HandshakeInv
<1> SUFFICES ASSUME Init PROVE HandshakeInv
  OBVIOUS
<1>1. New \in Client(DappPcs) /\ New \in Client(WalletPcs)
  BY FreshType
<1>2. TypeOK
  BY <1>1 DEF Init, TypeOK
<1>3. /\ New.pc = "idle" /\ New.state = "DISCONNECTED" /\ New.session = "null"
  BY DEF New
<1>4. Settled
  BY <1>3 DEF Init, Settled, ChosenOnce, DappSessionIsChosen
<1>5. \A w \in Wallets : ~ Paired(w)
  BY <1>3 DEF Init, Paired
<1> QED  BY <1>2, <1>4, <1>5 DEF Init, HandshakeInv, MessagesFlow, AckIsForChosen, PairedHasAck

LEMMA InvStep == HandshakeInv /\ [Next]_vars => HandshakeInv'
BY TypeStep, SettledStep, FlowStep, AckStep, PairedStep DEF HandshakeInv, Settled

LEMMA InvPairs == HandshakeInv => PairingInv
BY DEF HandshakeInv, Settled, PairingInv, OnlyVerifiedPairs, PairedHasAck, AckIsForChosen

LEMMA Invariant == Spec => []HandshakeInv
BY InvInit, InvStep, PTL DEF Spec

\* Every variable keeps its type, whatever fails, dies or comes late.
THEOREM TypeCorrect == Spec => []TypeOK
<1>1. HandshakeInv => TypeOK
  BY DEF HandshakeInv
<1> QED  BY <1>1, Invariant, PTL

\* In untrusted mode the only wallet that stores a session or calls itself
\* connected is the one whose code the user typed into the dApp, for any number
\* of wallets that scanned the request (dApp's _handleOtpInput and
\* _acknowledgeHandshake, wallet's _waitForHandshakeAck).
THEOREM VerifiedPairs == Spec => []PairingInv
BY Invariant, InvPairs, PTL

-----------------------------------------------------------------------------
(* What a disconnect leaves in the store *)

\* A client that goes on with its session, or ends by disconnect(), keeps what
\* is to remove the record.
LEMMA StaysHeld ==
  ASSUME NEW P, "done" \in P, NEW c \in Client(P), Held(c)
  PROVE  /\ Held(Disconnected(c))
         /\ c.pc # "dead" => Held(Failed(c)) /\ Held(WalletFailed(c))
         /\ Held(Dead)
         /\ \A q \in P : c.pc # "dead" => Held([c EXCEPT !.pc = q])
<1>1. CASE c.session = "null"
  <2>1. /\ Disconnected(c) = c
        /\ Failed(c) = [c EXCEPT !.pc = "done"]
        /\ WalletFailed(c) = [[c EXCEPT !.pc = "done"] EXCEPT !.state = "DISCONNECTED"]
    BY <1>1 DEF Disconnected, Failed, WalletFailed
  <2> QED  BY <1>1, <2>1 DEF Client, Held, Dead, New
<1>2. CASE c.session # "null"
  <2> DEFINE d == [pc |-> c.pc, state |-> "DISCONNECTED", session |-> "null",
                   transport |-> "cut", closing |-> c.closing + 1]
  <2>1. Disconnected(c) = d
    BY <1>2 DEF Client, Disconnected
  <2>2. /\ Failed(c) = [d EXCEPT !.pc = "done"]
        /\ WalletFailed(c) = [[d EXCEPT !.pc = "done"] EXCEPT !.state = "DISCONNECTED"]
    BY <2>1 DEF Failed, WalletFailed
  <2>3. c.closing + 1 > 0
    BY DEF Client
  <2> QED  BY <1>2, <2>1, <2>2, <2>3 DEF Client, Held, Dead, New
<1> QED  BY <1>1, <1>2

DappHeld == dStored # NoWallet => Held(dapp)
WalletHeld(w) == w \in wStored => Held(wallet[w])

LEMMA DappHeldStep ==
  ASSUME TypeOK, DappHeld, [Next]_vars
  PROVE  DappHeld'
<1>d. dapp \in Client(DappPcs) /\ "done" \in DappPcs
  BY DEF TypeOK, DappPcs
<1>f. ASSUME Dapp(Failed(dapp)), dapp.pc # "dead", UNCHANGED dStored
      PROVE  DappHeld'
  BY <1>f, <1>d, StaysHeld DEF Dapp, DappHeld
<1>t. ASSUME NEW q \in DappPcs, DappTo(q), dapp.pc # "dead", UNCHANGED dStored
      PROVE  DappHeld'
  BY <1>t, <1>d, StaysHeld DEF DappTo, Dapp, DappHeld
<1>h. ASSUME dapp'.session # "null"
      PROVE  DappHeld'
  BY <1>h DEF DappHeld, Held
<1>k. ASSUME dapp'.session = dapp.session, dapp'.closing = dapp.closing,
             dapp.pc # "dead", UNCHANGED dStored
      PROVE  DappHeld'
  BY <1>k DEF DappHeld, Held
<1>n. ASSUME dStored' = NoWallet
      PROVE  DappHeld'
  BY <1>n DEF DappHeld
<1>1. CASE UNCHANGED <<dapp, otp, dStored>>
  BY <1>1 DEF DappHeld
<1>2. CASE DappConnect
  <2>1. dapp'.session = "pending"
    BY <1>2, <1>d DEF DappConnect, Dapp, Client
  <2> QED  BY <2>1, <1>h
<1>3. CASE DappConnected
  <2>1. /\ dapp'.session = dapp.session /\ dapp'.closing = dapp.closing
        /\ dapp.pc # "dead" /\ UNCHANGED dStored
    BY <1>3, <1>d DEF DappConnected, Dapp, Client
  <2> QED  BY <2>1, <1>k
<1>4. CASE OfferTimeout \/ AckRejected \/ Cancel
  BY <1>4, <1>f DEF OfferTimeout, AckRejected, Cancel
<1>5. CASE DappSubscribed
  BY <1>5, <1>f, <1>t DEF DappSubscribed, DappPcs
<1>6. CASE DappSessionSubscribed \/ SendAck
  BY <1>6, <1>f, <1>t DEF DappSessionSubscribed, SendAck, DappPcs
<1>7. CASE AckPublished
  <2>1. CASE dapp.session = "null"
    BY <1>7, <2>1, <1>f DEF AckPublished, DappStore
  <2>2. CASE dapp.session # "null"
    <3>1. dapp'.session = dapp.session
      BY <1>7, <2>2, <1>d DEF AckPublished, DappStore, Dapp, Client
    <3> QED  BY <2>2, <3>1, <1>h
  <2> QED  BY <2>1, <2>2
<1>8. CASE DappStored
  BY <1>8, <1>t, <1>n DEF DappStored, DappPcs
<1>9. CASE DappFinish
  <2>1. /\ dapp'.session = dapp.session /\ dapp'.closing = dapp.closing
        /\ dapp.pc # "dead" /\ UNCHANGED dStored
    BY <1>9, <1>d DEF DappFinish, Dapp, Client
  <2> QED  BY <2>1, <1>k
<1>10. CASE DappForget
  BY <1>10, <1>n DEF DappForget
<1>11. CASE DappDisconnect
  BY <1>11, <1>d, <1>f, StaysHeld DEF DappDisconnect, Dapp, DappHeld
<1>12. CASE DappCrash
  BY <1>12 DEF DappCrash, Dapp, DappHeld, Held, Dead, New
<1>13. ASSUME NEW code \in Wallets \union {NoWallet}, Submit(code)
       PROVE  DappHeld'
  <2>1. CASE UNCHANGED dapp
    BY <1>13, <2>1 DEF Submit, DappHeld
  <2>2. CASE Dapp([dapp EXCEPT !.pc = "subSession", !.session = "final"])
    <3>1. dapp'.session = "final"
      BY <2>2, <1>d DEF Dapp, Client
    <3> QED  BY <3>1, <1>h
  <2>3. CASE Dapp(Failed(dapp)) /\ dapp.pc = "otp"
    BY <1>13, <2>3, <1>f DEF Submit
  <2> QED  BY <1>13, <2>1, <2>2, <2>3 DEF Submit
<1>14. ASSUME NEW w \in Wallets, DappHandleMessage(w)
       PROVE  DappHeld'
  <2>1. CASE UNCHANGED <<dapp, wallet, otp, dStored>>
    BY <2>1 DEF DappHeld
  <2>2. CASE dapp.pc = "offer" /\ TakeOffer(w) /\ Trusted
    <3> DEFINE f == [dapp EXCEPT !.session = "final"]
    <3>1. f \in Client(DappPcs) /\ f.session = "final"
      BY <1>d DEF Client
    <3>2. dapp' = [f EXCEPT !.pc = "store"]
      BY <2>2, <3>1 DEF TakeOffer, DappStore, Dapp
    <3> HIDE DEF f
    <3>3. dapp'.session = "final"
      BY <3>1, <3>2 DEF Client
    <3> QED  BY <3>3, <1>h
  <2>3. CASE dapp.pc = "offer" /\ TakeOffer(w) /\ ~ Trusted
    BY <2>3, <1>f, <1>t DEF TakeOffer, DappPcs
  <2> QED  BY <1>14, <2>1, <2>2, <2>3 DEF DappHandleMessage
<1> QED
  BY <1>1, <1>2, <1>3, <1>4, <1>5, <1>6, <1>7, <1>8, <1>9, <1>10, <1>11, <1>12, <1>13,
     <1>14, DappFrame
  DEF DappStep, User

\* A step of wallet w that keeps its session and its pending deletions, has
\* taken its record out, or ends by disconnect(), and leaves the others alone.
LEMMA WalletKeepsHeld ==
  ASSUME TypeOK, \A v \in Wallets : WalletHeld(v), NEW w \in Wallets,
         wStored' \subseteq wStored,
         \E c \in Client(WalletPcs) : Wallet(w, c) /\ (w \in wStored' => Held(c))
  PROVE  \A v \in Wallets : WalletHeld(v)'
BY DEF TypeOK, Wallet, WalletHeld

LEMMA WalletHeldStep ==
  ASSUME TypeOK, \A v \in Wallets : WalletHeld(v), [Next]_vars
  PROVE  \A v \in Wallets : WalletHeld(v)'
<1> DEFINE Goal == \A v \in Wallets : WalletHeld(v)'
<1>1. CASE UNCHANGED <<wallet, wStored>>
  BY <1>1 DEF WalletHeld
<1>2. ASSUME NEW w \in Wallets,
             WalletConnect(w) \/ WalletStep(w) \/ WalletDisconnect(w) \/ WalletCrash(w)
      PROVE  Goal
  <2>w. /\ wallet[w] \in Client(WalletPcs) /\ wallet \in [Wallets -> Client(WalletPcs)]
        /\ "done" \in WalletPcs
    BY DEF TypeOK, WalletPcs
  <2>f. ASSUME Wallet(w, WalletFailed(wallet[w])), wallet[w].pc # "dead",
               wStored' \subseteq wStored
        PROVE  Goal
    <3>1. WalletFailed(wallet[w]) \in Client(WalletPcs)
      BY <2>w, FailedType
    <3>2. w \in wStored' => Held(WalletFailed(wallet[w]))
      BY <2>f, <2>w, StaysHeld DEF WalletHeld
    <3> QED  BY <2>f, <3>1, <3>2, WalletKeepsHeld
  <2>t. ASSUME NEW q \in WalletPcs, WalletTo(w, q), wallet[w].pc # "dead",
               UNCHANGED wStored
        PROVE  Goal
    <3>1. [wallet[w] EXCEPT !.pc = q] \in Client(WalletPcs)
      BY <2>w, PcUpdate
    <3>2. w \in wStored' => Held([wallet[w] EXCEPT !.pc = q])
      BY <2>t, <2>w, StaysHeld DEF WalletHeld
    <3> QED  BY <2>t, <3>1, <3>2, WalletKeepsHeld DEF WalletTo
  <2>h. ASSUME NEW c \in Client(WalletPcs), Wallet(w, c), UNCHANGED wStored,
               wallet[w].pc # "dead",
               \/ c.session # "null"
               \/ c.session = wallet[w].session /\ c.closing = wallet[w].closing
        PROVE  Goal
    <3>1. w \in wStored => Held(c)
      BY <2>h DEF WalletHeld, Held
    <3> QED  BY <2>h, <3>1, WalletKeepsHeld
  <2>s. ASSUME WalletStore(w), wallet[w].pc # "dead"
        PROVE  Goal
    <3>1. CASE wallet[w].session = "null"
      BY <2>s, <3>1, <2>f DEF WalletStore
    <3>2. CASE wallet[w].session # "null"
      <4> DEFINE c == [wallet[w] EXCEPT !.pc = "store"]
      <4>1. c.session = wallet[w].session
        BY <2>w DEF Client
      <4>2. wallet' = [wallet EXCEPT ![w] = c] /\ wStored' = wStored \union {w}
        BY <2>s, <3>2 DEF WalletStore, WalletTo, Wallet
      <4> HIDE DEF c
      <4>3. Held(wallet'[w])
        BY <2>w, <3>2, <4>1, <4>2 DEF Held
      <4> QED  BY <2>w, <4>2, <4>3 DEF WalletHeld
    <3> QED  BY <3>1, <3>2
  <2>1. CASE WalletConnect(w)
    <3> DEFINE c == [wallet[w] EXCEPT !.pc = "connect", !.state = "CONNECTING",
                                      !.session = IF Trusted THEN "final" ELSE @]
    <3>1. /\ c \in Client(WalletPcs) /\ c.closing = wallet[w].closing
          /\ c.session \in {"final", wallet[w].session}
      BY <2>w DEF Client, WalletPcs
    <3>2. Wallet(w, c) /\ UNCHANGED wStored /\ wallet[w].pc # "dead"
      BY <2>1 DEF WalletConnect
    <3> HIDE DEF c
    <3> QED  BY <3>1, <3>2, <2>h
  <2>2. CASE WalletConnected(w)
    <3> DEFINE c == [wallet[w] EXCEPT !.pc = "subHandshake", !.transport = "on"]
    <3>1. /\ c \in Client(WalletPcs) /\ c.closing = wallet[w].closing
          /\ c.session = wallet[w].session
      BY <2>w DEF Client, WalletPcs
    <3>2. Wallet(w, c) /\ UNCHANGED wStored /\ wallet[w].pc # "dead"
      BY <2>2 DEF WalletConnected
    <3> HIDE DEF c
    <3> QED  BY <3>1, <3>2, <2>h
  <2>3. CASE WalletSubscribed(w)
    <3>1. CASE WalletTo(w, "subSession")
      BY <2>3, <3>1, <2>t DEF WalletSubscribed, WalletPcs
    <3>2. CASE Wallet(w, [wallet[w] EXCEPT !.pc = "offer", !.session = "final"])
      <4> DEFINE c == [wallet[w] EXCEPT !.pc = "offer", !.session = "final"]
      <4>1. c \in Client(WalletPcs) /\ c.session = "final"
        BY <2>w DEF Client, WalletPcs
      <4>2. Wallet(w, c) /\ UNCHANGED wStored /\ wallet[w].pc # "dead"
        BY <2>3, <3>2 DEF WalletSubscribed
      <4> HIDE DEF c
      <4> QED  BY <4>1, <4>2, <2>h
    <3> QED  BY <2>3, <3>1, <3>2 DEF WalletSubscribed
  <2>4. CASE SendOffer(w)
    BY <2>4, <2>f, <2>t DEF SendOffer, WalletPcs
  <2>5. CASE OfferPublished(w)
    BY <2>5, <2>f, <2>t, <2>s DEF OfferPublished, WalletPcs
  <2>6. CASE OfferRejected(w) \/ AckTimeout(w)
    BY <2>6, <2>f DEF OfferRejected, AckTimeout
  <2>7. CASE WalletStored(w)
    BY <2>7, <2>f, <2>t DEF WalletStored, WalletPcs
  <2>8. CASE WalletFinish(w)
    <3> DEFINE c == [wallet[w] EXCEPT !.pc = "initial", !.state = "CONNECTED"]
    <3>1. /\ c \in Client(WalletPcs) /\ c.closing = wallet[w].closing
          /\ c.session = wallet[w].session
      BY <2>w DEF Client, WalletPcs
    <3>2. Wallet(w, c) /\ UNCHANGED wStored /\ wallet[w].pc # "dead"
      BY <2>8 DEF WalletFinish
    <3> HIDE DEF c
    <3> QED  BY <3>1, <3>2, <2>h
  <2>9. CASE ProcessInitialMessage(w)
    BY <2>9, <2>t DEF ProcessInitialMessage, WalletPcs
  <2>10. CASE WalletForget(w)
    <3>1. [wallet[w] EXCEPT !.closing = @ - 1] \in Client(WalletPcs)
      BY <2>10, <2>w DEF WalletForget, Client
    <3>2. w \notin wStored' /\ wStored' \subseteq wStored
      BY <2>10 DEF WalletForget
    <3> QED  BY <2>10, <3>1, <3>2, WalletKeepsHeld DEF WalletForget
  <2>11. CASE WalletHandleMessage(w)
    <3>1. CASE wallet[w].pc = "ack" /\ WalletStore(w)
      BY <3>1, <2>s
    <3> QED  BY <2>11, <3>1, <1>1 DEF WalletHandleMessage
  <2>12. CASE WalletDisconnect(w)
    <3>1. CASE wallet[w].pc = "offering"
      BY <2>12, <3>1, <2>f DEF WalletDisconnect
    <3>2. CASE wallet[w].pc # "offering"
      <4>1. /\ Disconnected(wallet[w]) \in Client(WalletPcs)
            /\ w \in wStored => Held(Disconnected(wallet[w]))
        BY <2>w, DisconnectedType, StaysHeld DEF WalletHeld
      <4>2. Wallet(w, Disconnected(wallet[w])) /\ UNCHANGED wStored
        BY <2>12, <3>2 DEF WalletDisconnect
      <4> QED  BY <4>1, <4>2, WalletKeepsHeld
    <3> QED  BY <3>1, <3>2
  <2>13. CASE WalletCrash(w)
    <3>1. Dead \in Client(WalletPcs) /\ Held(Dead)
      BY FreshType DEF Held, Dead, New
    <3>2. Wallet(w, Dead) /\ wStored' \subseteq wStored
      BY <2>13 DEF WalletCrash
    <3> QED  BY <3>1, <3>2, WalletKeepsHeld
  <2> QED
    BY <1>2, <2>1, <2>2, <2>3, <2>4, <2>5, <2>6, <2>7, <2>8, <2>9, <2>10, <2>11, <2>12,
       <2>13
    DEF WalletStep
<1> QED  BY <1>1, <1>2, WalletFrame

LEMMA HeldInvariant == Spec => []StoredIsHeld
<1>1. Init => StoredIsHeld
  BY DEF Init, StoredIsHeld
<1>2. ASSUME TypeOK, StoredIsHeld, [Next]_vars
      PROVE  StoredIsHeld'
  <2>1. wStored \subseteq Wallets
    BY <1>2 DEF TypeOK
  <2>2. DappHeld /\ \A w \in Wallets : WalletHeld(w)
    BY <1>2 DEF StoredIsHeld, DappHeld, WalletHeld
  <2>3. DappHeld' /\ \A w \in Wallets : WalletHeld(w)'
    BY <1>2, <2>2, DappHeldStep, WalletHeldStep
  <2>4. wStored' \subseteq Wallets
    BY <1>2, RestStep, TypeParts DEF RestTyped
  <2> QED  BY <2>3, <2>4 DEF StoredIsHeld, DappHeld, WalletHeld
<1> QED  BY <1>1, <1>2, TypeCorrect, PTL DEF Spec

\* Once disconnect() has run to its end the session is not in the store, for any
\* number of wallets, also when it overtook a handler that was storing it
\* (BaseClient.disconnect, the catch of connect(), _finalizeConnection).
THEOREM DisconnectedIsForgotten == Spec => []DisconnectForgets
<1>1. StoredIsHeld /\ TypeOK => DisconnectForgets
  <2> SUFFICES ASSUME StoredIsHeld, TypeOK
               PROVE  DisconnectForgets
    OBVIOUS
  <2>1. \A c : Gone(c) => ~ Held(c)
    BY DEF Gone, Held
  <2>2. \A w \in Wallets : Gone(wallet[w]) => w \notin wStored
    BY <2>1 DEF StoredIsHeld
  <2>3. Gone(dapp) => dStored = NoWallet
    BY <2>1 DEF StoredIsHeld
  <2> QED  BY <2>2, <2>3 DEF DisconnectForgets
<1> QED  BY <1>1, HeldInvariant, TypeCorrect, PTL

-----------------------------------------------------------------------------
(* Handshake.tla implements Pairing.tla, for any set of wallets, both modes. *)

\* Where a client is CONNECTED its handler has come to an end, and a wallet whose
\* handler has is CONNECTED until it disconnects.
DappAtEnd == dapp.state = "CONNECTED" => dapp.pc = "done"

WalletAtEnd(w) ==
  /\ wallet[w].state = "CONNECTED" => wallet[w].pc \in {"initial", "done"}
  /\ wallet[w].pc = "initial" /\ wallet[w].transport # "cut" =>
       wallet[w].state = "CONNECTED"

AtEnd == DappAtEnd /\ \A w \in Wallets : WalletAtEnd(w)

\* How the outside of a client may change in a step: c is the client before, d
\* after it.
LEMMA FailedIsOver ==
  ASSUME NEW P, "done" \in P, NEW c \in Client(P)
  PROVE  /\ c.session # "null" => End(Disconnected(c)) = "over"
         /\ c.session = "null" => Disconnected(c) = c
         /\ c.state # "CONNECTED" => End(Failed(c)) = "over"
         /\ End(WalletFailed(c)) = "over"
<1>1. c.session # "null" => Disconnected(c).transport = "cut"
  BY DEF Disconnected, Client
<1>2. c.session = "null" => Disconnected(c) = c
  BY DEF Disconnected
<1>3. /\ Failed(c).pc = "done" /\ Failed(c).state \in {c.state, "DISCONNECTED"}
      /\ WalletFailed(c).pc = "done" /\ WalletFailed(c).state = "DISCONNECTED"
  BY FailedType
<1> QED  BY <1>1, <1>2, <1>3 DEF End

LEMMA DeadIsOver == End(Dead) = "over"
BY DEF Dead, New, End

\* A move of the handler between two places, neither of them its end.
LEMMA MoveKeepsEnd ==
  ASSUME NEW c, NEW d, c.pc # "done", d.pc # "done", d.transport = c.transport,
         c.state # "CONNECTED", d.state # "CONNECTED"
  PROVE  End(d) = End(c)
BY DEF End

LEMMA SameEnd ==
  ASSUME NEW c, NEW d, d.pc = c.pc, d.transport = c.transport, d.state = c.state
  PROVE  End(d) = End(c)
BY DEF End

-----------------------------------------------------------------------------
DappChange ==
  \/ End(dapp') = End(dapp)
  \/ End(dapp') = "over" /\ chosen' = chosen
  \/ /\ End(dapp) = "open" /\ End(dapp') = "paired"
     /\ chosen # NoWallet /\ chosen' = chosen

LEMMA DappSide ==
  ASSUME HandshakeInv, DappAtEnd, [Next]_vars
  PROVE  DappAtEnd' /\ DappChange
<1>d. dapp \in Client(DappPcs) /\ "done" \in DappPcs
  BY DEF HandshakeInv, TypeOK, DappPcs
<1>t. \A q \in DappPcs : DappTo(q) =>
        /\ dapp'.pc = q /\ dapp'.state = dapp.state /\ dapp'.transport = dapp.transport
  BY <1>d DEF DappTo, Dapp, Client
<1>f. ASSUME Dapp(Failed(dapp)), chosen' = chosen, dapp.pc # "done"
      PROVE  DappAtEnd' /\ DappChange
  <2>1. dapp' = Failed(dapp) /\ dapp.state # "CONNECTED"
    BY <1>f DEF Dapp, DappAtEnd
  <2>2. Failed(dapp).pc = "done" /\ End(Failed(dapp)) = "over"
    BY <1>d, <2>1, FailedIsOver, FailedType
  <2> QED  BY <1>f, <2>1, <2>2 DEF DappAtEnd, DappChange
<1>m. ASSUME dapp.pc # "done", dapp'.pc # "done", dapp'.transport = dapp.transport,
             dapp'.state # "CONNECTED"
      PROVE  DappAtEnd' /\ DappChange
  <2>1. dapp.state # "CONNECTED"
    BY <1>m DEF DappAtEnd
  <2> QED  BY <1>m, <2>1, MoveKeepsEnd DEF DappAtEnd, DappChange
<1>q. ASSUME NEW q \in DappPcs \ {"done"}, DappTo(q), dapp.pc # "done"
      PROVE  DappAtEnd' /\ DappChange
  BY <1>q, <1>t, <1>m DEF DappAtEnd
<1>1. CASE UNCHANGED <<dapp, otp, dStored>>
  BY <1>1 DEF DappAtEnd, DappChange, otp
<1>2. CASE DappConnect
  <2>1. /\ dapp'.pc = "connect" /\ dapp'.state = "CONNECTING"
        /\ dapp'.transport = dapp.transport
    BY <1>2, <1>d DEF DappConnect, Dapp, Client
  <2> QED  BY <1>2, <2>1, <1>m DEF DappConnect
<1>3. CASE DappConnected
  <2>1. /\ dapp'.pc = "subscribe" /\ dapp'.state = dapp.state
        /\ dapp'.transport = "on"
    BY <1>3, <1>d DEF DappConnected, Dapp, Client
  <2> QED  BY <1>3, <2>1 DEF DappConnected, DappAtEnd, DappChange, End
<1>4. CASE OfferTimeout \/ AckRejected \/ Cancel
  BY <1>4, <1>f DEF OfferTimeout, AckRejected, Cancel, otp
<1>5. CASE DappSubscribed
  BY <1>5, <1>f, <1>q DEF DappSubscribed, otp, DappPcs
<1>6. CASE DappDisconnect
  <2>1. CASE dapp.pc = "acking"
    BY <1>6, <2>1, <1>f DEF DappDisconnect, otp
  <2>2. CASE dapp.pc # "acking"
    <3>1. /\ dapp' = Disconnected(dapp) /\ End(Disconnected(dapp)) = "over"
          /\ Disconnected(dapp).pc = dapp.pc
          /\ Disconnected(dapp).state \in {dapp.state, "DISCONNECTED"}
      BY <1>6, <2>2, <1>d, FailedIsOver, DisconnectedType DEF DappDisconnect, Dapp
    <3> QED  BY <1>6, <3>1 DEF DappDisconnect, otp, DappAtEnd, DappChange
  <2> QED  BY <2>1, <2>2
<1>7. CASE DappSessionSubscribed \/ SendAck
  BY <1>7, <1>f, <1>q DEF DappSessionSubscribed, SendAck, otp, DappPcs
<1>8. CASE AckPublished
  <2>1. CASE Dapp(Failed(dapp))
    BY <1>8, <2>1, <1>f DEF AckPublished, otp
  <2>2. CASE DappTo("store")
    BY <1>8, <2>2, <1>q DEF AckPublished, DappPcs
  <2> QED  BY <1>8, <2>1, <2>2 DEF AckPublished, DappStore, DappTo
<1>9. CASE DappStored
  BY <1>9, <1>f, <1>q DEF DappStored, otp, DappPcs
<1>10. CASE DappFinish
  <2>1. /\ dapp'.pc = "done" /\ dapp'.state = "CONNECTED"
        /\ dapp'.transport = dapp.transport
    BY <1>10, <1>d DEF DappFinish, Dapp, Client
  <2>2. chosen' = chosen /\ chosen # NoWallet
    <3>1. chosen = peer /\ peer \in Wallets
      BY <1>10 DEF DappFinish, HandshakeInv, Settled, ChosenOnce
    <3>2. chosen' = chosen
      BY <1>10 DEF DappFinish, otp
    <3> QED  BY <3>1, <3>2
  <2>3. dapp.state # "CONNECTED" /\ dapp.pc = "clear"
    BY <1>10 DEF DappFinish, DappAtEnd
  <2> QED  BY <2>1, <2>2, <2>3 DEF DappAtEnd, DappChange, End
<1>11. CASE DappForget
  <2>1. /\ dapp'.pc = dapp.pc /\ dapp'.state = dapp.state
        /\ dapp'.transport = dapp.transport
    BY <1>11, <1>d DEF DappForget, Dapp, Client
  <2> QED  BY <2>1, SameEnd DEF DappAtEnd, DappChange
<1>12. CASE DappCrash
  <2>1. dapp' = Dead /\ chosen' = chosen /\ Dead.state = "DISCONNECTED"
    BY <1>12, FreshType DEF DappCrash, Dapp, otp
  <2> QED  BY <2>1, DeadIsOver DEF DappAtEnd, DappChange
<1>13. ASSUME NEW code \in Wallets \union {NoWallet}, Submit(code)
       PROVE  DappAtEnd' /\ DappChange
  <2>1. CASE UNCHANGED dapp
    BY <2>1 DEF DappAtEnd, DappChange
  <2>2. CASE Dapp([dapp EXCEPT !.pc = "subSession", !.session = "final"]) /\ dapp.pc = "otp"
    <3>1. /\ dapp'.pc = "subSession" /\ dapp'.state = dapp.state
          /\ dapp'.transport = dapp.transport
      BY <2>2, <1>d DEF Dapp, Client
    <3> QED  BY <2>2, <3>1, <1>m DEF DappAtEnd
  <2>3. CASE Dapp(Failed(dapp)) /\ dapp.pc = "otp" /\ chosen' = chosen
    BY <2>3, <1>f
  <2> QED  BY <1>13, <2>1, <2>2, <2>3 DEF Submit
<1>14. ASSUME NEW w \in Wallets, DappHandleMessage(w)
       PROVE  DappAtEnd' /\ DappChange
  <2>1. CASE UNCHANGED dapp
    BY <2>1 DEF DappAtEnd, DappChange
  <2>2. CASE dapp.pc = "offer" /\ TakeOffer(w) /\ Trusted
    <3> DEFINE f == [dapp EXCEPT !.session = "final"]
    <3>1. /\ f \in Client(DappPcs) /\ f.session = "final"
          /\ f.state = dapp.state /\ f.transport = dapp.transport
      BY <1>d DEF Client
    <3>2. dapp' = [f EXCEPT !.pc = "store"]
      BY <2>2, <3>1 DEF TakeOffer, DappStore, Dapp
    <3> HIDE DEF f
    <3>3. /\ dapp'.pc = "store" /\ dapp'.state = dapp.state
          /\ dapp'.transport = dapp.transport
      BY <3>1, <3>2 DEF Client
    <3> QED  BY <2>2, <3>3, <1>m DEF DappAtEnd
  <2>3. CASE dapp.pc = "offer" /\ TakeOffer(w) /\ ~ Trusted
    BY <2>3, <1>f, <1>q DEF TakeOffer, DappPcs
  <2> QED  BY <1>14, <2>1, <2>2, <2>3 DEF DappHandleMessage
<1> QED
  BY <1>1, <1>2, <1>3, <1>4, <1>5, <1>6, <1>7, <1>8, <1>9, <1>10, <1>11, <1>12, <1>13,
     <1>14, DappFrame
  DEF DappStep, User

-----------------------------------------------------------------------------
WalletChange(w) ==
  \/ End(wallet'[w]) = End(wallet[w])
  \/ End(wallet'[w]) = "over"
  \/ /\ End(wallet[w]) = "open" /\ End(wallet'[w]) = "paired"
     /\ ~ Trusted => chosen = w

OthersKept(w) == \A v \in Wallets : v # w => wallet'[v] = wallet[v]

\* A wallet's own step; what the others see of it is one change of its end.
LEMMA WalletSide ==
  ASSUME HandshakeInv, NEW w \in Wallets, WalletAtEnd(w),
         WalletConnect(w) \/ WalletStep(w) \/ WalletDisconnect(w) \/ WalletCrash(w)
  PROVE  WalletAtEnd(w)' /\ WalletChange(w) /\ OthersKept(w) /\ UNCHANGED <<dapp, chosen>>
<1> DEFINE Goal == WalletAtEnd(w)' /\ WalletChange(w) /\ OthersKept(w)
<1>0. UNCHANGED <<dapp, chosen>>
  BY DEF WalletStep, WalletConnect, WalletConnected, WalletSubscribed, SendOffer,
         OfferPublished, OfferRejected, AckTimeout, WalletStored, WalletFinish,
         ProcessInitialMessage, WalletForget, WalletHandleMessage, WalletStore,
         WalletDisconnect, WalletCrash, Wallet, WalletTo, otp
<1> SUFFICES Goal
  BY <1>0
<1>w. /\ wallet[w] \in Client(WalletPcs) /\ wallet \in [Wallets -> Client(WalletPcs)]
      /\ "done" \in WalletPcs
  BY DEF HandshakeInv, TypeOK, WalletPcs
<1>s. \A c \in Client(WalletPcs) : Wallet(w, c) => wallet'[w] = c /\ OthersKept(w)
  BY <1>w DEF Wallet, OthersKept
<1>t. \A q \in WalletPcs : WalletTo(w, q) =>
        /\ wallet'[w].pc = q /\ wallet'[w].state = wallet[w].state
        /\ wallet'[w].transport = wallet[w].transport /\ OthersKept(w)
  BY <1>w DEF WalletTo, Wallet, OthersKept, Client
<1>u. UNCHANGED wallet => OthersKept(w)
  BY <1>w DEF OthersKept
<1>f. ASSUME Wallet(w, WalletFailed(wallet[w]))  PROVE  Goal
  <2>1. /\ wallet'[w] = WalletFailed(wallet[w]) /\ OthersKept(w)
    BY <1>f, <1>s, <1>w, FailedType
  <2>2. /\ WalletFailed(wallet[w]).pc = "done" /\ End(WalletFailed(wallet[w])) = "over"
        /\ WalletFailed(wallet[w]).state = "DISCONNECTED"
    BY <1>w, FailedIsOver, FailedType
  <2> QED  BY <2>1, <2>2 DEF WalletAtEnd, WalletChange
<1>m. ASSUME wallet[w].pc \notin {"initial", "done"}, wallet'[w].pc \notin {"initial", "done"},
             wallet'[w].transport = wallet[w].transport,
             wallet'[w].state # "CONNECTED", OthersKept(w)
      PROVE  Goal
  <2>1. wallet[w].state # "CONNECTED"
    BY <1>m DEF WalletAtEnd
  <2> QED  BY <1>m, <2>1, MoveKeepsEnd DEF WalletAtEnd, WalletChange
<1>q. ASSUME NEW q \in WalletPcs \ {"initial", "done"}, WalletTo(w, q),
             wallet[w].pc \notin {"initial", "done"}
      PROVE  Goal
  BY <1>q, <1>t, <1>m DEF WalletAtEnd
<1>1. CASE WalletConnect(w)
  <2>1. /\ wallet'[w].pc = "connect" /\ wallet'[w].state = "CONNECTING"
        /\ wallet'[w].transport = wallet[w].transport /\ OthersKept(w)
    BY <1>1, <1>w DEF WalletConnect, Wallet, OthersKept, Client
  <2> QED  BY <1>1, <2>1, <1>m DEF WalletConnect
<1>2. CASE WalletConnected(w)
  <2>1. /\ wallet'[w].pc = "subHandshake" /\ wallet'[w].state = wallet[w].state
        /\ wallet'[w].transport = "on" /\ OthersKept(w)
    BY <1>2, <1>w DEF WalletConnected, Wallet, OthersKept, Client
  <2> QED  BY <1>2, <2>1 DEF WalletConnected, WalletAtEnd, WalletChange, End
<1>3. CASE WalletSubscribed(w)
  <2>1. CASE WalletTo(w, "subSession") /\ wallet[w].pc = "subHandshake"
    BY <2>1, <1>q DEF WalletPcs
  <2>2. CASE /\ Wallet(w, [wallet[w] EXCEPT !.pc = "offer", !.session = "final"])
             /\ wallet[w].pc = "subSession"
    <3>1. /\ wallet'[w].pc = "offer" /\ wallet'[w].state = wallet[w].state
          /\ wallet'[w].transport = wallet[w].transport /\ OthersKept(w)
      BY <2>2, <1>w DEF Wallet, OthersKept, Client
    <3> QED  BY <2>2, <3>1, <1>m DEF WalletAtEnd
  <2> QED  BY <1>3, <2>1, <2>2 DEF WalletSubscribed
<1>4. CASE SendOffer(w)
  BY <1>4, <1>f, <1>q DEF SendOffer, WalletPcs
<1>5. CASE OfferPublished(w)
  <2>1. wallet[w].pc = "offering"
    BY <1>5 DEF OfferPublished
  <2> QED  BY <1>5, <2>1, <1>f, <1>q DEF OfferPublished, WalletStore, WalletPcs
<1>6. CASE OfferRejected(w) \/ AckTimeout(w)
  BY <1>6, <1>f DEF OfferRejected, AckTimeout
<1>7. CASE WalletStored(w)
  BY <1>7, <1>f, <1>q DEF WalletStored, WalletPcs
<1>8. CASE WalletFinish(w)
  <2>1. /\ wallet'[w].pc = "initial" /\ wallet'[w].state = "CONNECTED"
        /\ wallet'[w].transport = wallet[w].transport /\ OthersKept(w)
    BY <1>8, <1>w DEF WalletFinish, Wallet, OthersKept, Client
  <2>2. wallet[w].pc = "clear" /\ wallet[w].state # "CONNECTED"
    BY <1>8 DEF WalletFinish, WalletAtEnd
  <2>3. ~ Trusted => chosen = w
    <3>1. Paired(w)
      BY <2>2 DEF Paired
    <3> QED  BY <3>1 DEF HandshakeInv, PairedHasAck, AckIsForChosen
  <2> QED  BY <2>1, <2>2, <2>3 DEF WalletAtEnd, WalletChange, End
<1>9. CASE ProcessInitialMessage(w)
  <2>1. /\ wallet[w].pc = "initial" /\ wallet'[w].pc = "done"
        /\ wallet'[w].state = wallet[w].state
        /\ wallet'[w].transport = wallet[w].transport /\ OthersKept(w)
    BY <1>9, <1>t DEF ProcessInitialMessage, WalletPcs
  <2> QED  BY <2>1 DEF WalletAtEnd, WalletChange, End
<1>10. CASE WalletForget(w)
  <2>1. /\ wallet'[w].pc = wallet[w].pc /\ wallet'[w].state = wallet[w].state
        /\ wallet'[w].transport = wallet[w].transport /\ OthersKept(w)
    BY <1>10, <1>w DEF WalletForget, Wallet, OthersKept, Client
  <2> QED  BY <2>1, SameEnd DEF WalletAtEnd, WalletChange
<1>11. CASE WalletHandleMessage(w)
  <2>1. CASE UNCHANGED wallet
    BY <2>1, <1>u DEF WalletAtEnd, WalletChange
  <2>2. CASE WalletStore(w) /\ wallet[w].pc = "ack"
    BY <2>2, <1>f, <1>q DEF WalletStore, WalletPcs
  <2> QED  BY <1>11, <2>1, <2>2 DEF WalletHandleMessage
<1>12. CASE WalletDisconnect(w)
  <2>1. CASE wallet[w].pc = "offering"
    BY <1>12, <2>1, <1>f DEF WalletDisconnect
  <2>2. CASE wallet[w].pc # "offering"
    <3> DEFINE d == Disconnected(wallet[w])
    <3>1. wallet'[w] = d /\ OthersKept(w) /\ wallet[w].session # "null"
      BY <1>12, <2>2, <1>s, <1>w, DisconnectedType DEF WalletDisconnect
    <3>2. /\ End(d) = "over" /\ d.pc = wallet[w].pc
          /\ d.state \in {wallet[w].state, "DISCONNECTED"}
      BY <3>1, <1>w, FailedIsOver, DisconnectedType
    <3>3. d.transport = "cut"
      BY <3>1, <1>w DEF Disconnected, Client
    <3> QED  BY <3>1, <3>2, <3>3 DEF WalletAtEnd, WalletChange
  <2> QED  BY <2>1, <2>2
<1>13. CASE WalletCrash(w)
  <2>1. wallet'[w] = Dead /\ OthersKept(w)
    BY <1>13, <1>s, FreshType DEF WalletCrash
  <2> QED  BY <2>1, DeadIsOver, FreshType DEF WalletAtEnd, WalletChange
<1> QED
  BY <1>1, <1>2, <1>3, <1>4, <1>5, <1>6, <1>7, <1>8, <1>9, <1>10, <1>11, <1>12, <1>13
  DEF WalletStep

-----------------------------------------------------------------------------
\* A step that is no wallet's leaves the wallets alone; one that is not the
\* choice leaves the choice alone.
LEMMA ChoiceChange ==
  ASSUME HandshakeInv, [Next]_vars
  PROVE  \/ chosen' = chosen
         \/ chosen = NoWallet /\ chosen' \in Wallets /\ UNCHANGED wallet
<1>1. ASSUME NEW code \in Wallets \union {NoWallet}, Submit(code), chosen' # chosen
      PROVE  chosen = NoWallet /\ chosen' \in Wallets /\ UNCHANGED wallet
  BY <1>1 DEF Submit, Dapp, HandshakeInv, Settled, ChosenOnce
<1>2. ASSUME NEW w \in Wallets, DappHandleMessage(w), chosen' # chosen
      PROVE  chosen = NoWallet /\ chosen' \in Wallets /\ UNCHANGED wallet
  <2>1. dapp.pc = "offer" /\ TakeOffer(w) /\ Trusted
    BY <1>2 DEF DappHandleMessage, TakeOffer, otp
  <2>2. chosen' = w /\ UNCHANGED wallet
    BY <2>1 DEF TakeOffer, DappStore, Dapp
  <2> QED  BY <2>1, <2>2 DEF HandshakeInv, Settled, ChosenOnce
<1> QED  BY <1>1, <1>2, OtpFrame DEF otp

LEMMA AtEndInit == Init => AtEnd
BY DEF Init, New, AtEnd, DappAtEnd, WalletAtEnd

LEMMA AtEndStep == HandshakeInv /\ AtEnd /\ [Next]_vars => AtEnd'
<1> SUFFICES ASSUME HandshakeInv, AtEnd, [Next]_vars  PROVE AtEnd'
  OBVIOUS
<1>1. DappAtEnd'
  BY DappSide DEF AtEnd
<1>2. CASE UNCHANGED wallet
  BY <1>1, <1>2 DEF AtEnd, WalletAtEnd
<1>3. ASSUME NEW w \in Wallets,
             WalletConnect(w) \/ WalletStep(w) \/ WalletDisconnect(w) \/ WalletCrash(w)
      PROVE  AtEnd'
  <2>1. WalletAtEnd(w)' /\ OthersKept(w)
    BY <1>3, WalletSide DEF AtEnd
  <2>2. ASSUME NEW v \in Wallets, v # w  PROVE  WalletAtEnd(v)'
    <3>1. wallet'[v] = wallet[v]
      BY <2>1, <2>2 DEF OthersKept, HandshakeInv, TypeOK
    <3> QED  BY <3>1 DEF AtEnd, WalletAtEnd
  <2> QED  BY <1>1, <2>1, <2>2 DEF AtEnd
<1> QED  BY <1>2, <1>3, WalletFrame

-----------------------------------------------------------------------------
(* Every step of Handshake is a step of Pairing or a stutter *)

LEMMA StepsImplement ==
  HandshakeInv /\ AtEnd /\ [Next]_vars => [Abstract!Next]_(Abstract!vars)
<1> SUFFICES ASSUME HandshakeInv, AtEnd, [Next]_vars
             PROVE  [Abstract!Next]_(Abstract!vars)
  OBVIOUS
<1> USE DEF Abstract!vars, Abstract!Next
<1>0. (~ Trusted)' = ~ Trusted
  BY ModeKept
<1>1. CASE UNCHANGED wallet
  <2>1. UNCHANGED [w \in Wallets |-> End(wallet[w])]
    BY <1>1
  <2>2. DappChange
    BY DappSide DEF AtEnd
  <2>3. CASE chosen' = chosen
    <3>1. CASE End(dapp') = End(dapp)
      BY <1>0, <2>1, <2>3, <3>1
    <3>2. CASE End(dapp') = "over"
      <4>1. Abstract!DappEnds
        BY <1>0, <2>1, <2>3, <3>2 DEF Abstract!DappEnds
      <4> QED  BY <4>1
    <3>3. CASE End(dapp) = "open" /\ End(dapp') = "paired" /\ chosen # NoWallet
      <4>1. Abstract!DappPairs
        BY <1>0, <2>1, <2>3, <3>3 DEF Abstract!DappPairs
      <4> QED  BY <4>1
    <3> QED  BY <2>2, <3>1, <3>2, <3>3 DEF DappChange
  <2>4. CASE chosen' # chosen
    <3>1. chosen = NoWallet /\ chosen' \in Wallets
      BY <2>4, ChoiceChange
    <3>2. End(dapp') = End(dapp)
      BY <2>2, <2>4 DEF DappChange
    <3>3. Abstract!Choose(chosen')
      BY <1>0, <2>1, <3>1, <3>2 DEF Abstract!Choose
    <3> QED  BY <3>1, <3>3
  <2> QED  BY <2>3, <2>4
<1>2. ASSUME NEW w \in Wallets,
             WalletConnect(w) \/ WalletStep(w) \/ WalletDisconnect(w) \/ WalletCrash(w)
      PROVE  [Abstract!Next]_(Abstract!vars)
  <2>1. WalletChange(w) /\ OthersKept(w) /\ UNCHANGED <<dapp, chosen>>
    BY <1>2, WalletSide DEF AtEnd
  <2>2. [v \in Wallets |-> End(wallet'[v])]
          = [[v \in Wallets |-> End(wallet[v])] EXCEPT ![w] = End(wallet'[w])]
    BY <2>1 DEF OthersKept
  <2>3. CASE End(wallet'[w]) = End(wallet[w])
    <3>1. UNCHANGED [v \in Wallets |-> End(wallet[v])]
      BY <2>2, <2>3
    <3> QED  BY <1>0, <2>1, <3>1
  <2>4. CASE End(wallet'[w]) = "over"
    <3>1. Abstract!WalletEnds(w)
      BY <1>0, <2>1, <2>2, <2>4 DEF Abstract!WalletEnds
    <3> QED  BY <3>1
  <2>5. CASE End(wallet[w]) = "open" /\ End(wallet'[w]) = "paired" /\ (~ Trusted => chosen = w)
    <3>1. Abstract!WalletPairs(w)
      BY <1>0, <2>1, <2>2, <2>5 DEF Abstract!WalletPairs
    <3> QED  BY <3>1
  <2> QED  BY <2>1, <2>3, <2>4, <2>5 DEF WalletChange
<1> QED  BY <1>1, <1>2, WalletFrame

LEMMA InitImplements == Init => Abstract!Init
BY DEF Init, New, End, Trusted, Abstract!Init

\* A connection attempt, whatever goes wrong in it, is an attempt as Pairing.tla
\* promises it: one wallet settled on at most, a side that is over stays over,
\* and in untrusted mode only the wallet settled on becomes paired.
THEOREM AttemptImplementsPairing == Spec => Pairs
<1>1. Spec => [](HandshakeInv /\ AtEnd)
  <2>1. Init => HandshakeInv /\ AtEnd
    BY InvInit, AtEndInit
  <2>2. HandshakeInv /\ AtEnd /\ [Next]_vars => (HandshakeInv /\ AtEnd)'
    BY InvStep, AtEndStep
  <2> QED  BY <2>1, <2>2, PTL DEF Spec
<1>2. Spec => [][Abstract!Next]_(Abstract!vars)
  BY <1>1, StepsImplement, PTL DEF Spec
<1> QED  BY <1>2, InitImplements, PTL DEF Spec, Pairs, Abstract!Spec

-----------------------------------------------------------------------------
(* The attempts at the code *)

Waiting == {"idle", "connect", "subscribe", "offer"}

\* No code can be wrong before there is a prompt, and where a code still counts
\* an attempt is left.
AttemptsLeft ==
  /\ dapp.pc \in Waiting => wrong = 0
  /\ dapp.pc = "otp" => wrong < OtpAttempts

\* Without an offer or a code the dApp does not come back to its wait, nor to
\* the prompt.
LEMMA PlaceStep ==
  ASSUME TypeOK, [Next]_vars
  PROVE  \/ dapp'.pc = dapp.pc
         \/ dapp'.pc \notin Waiting \union {"otp"}
         \/ dapp.pc \in Waiting /\ dapp'.pc \in Waiting
         \/ \E code \in Wallets \union {NoWallet} : Submit(code)
         \/ \E w \in Wallets : DappHandleMessage(w)
<1> DEFINE Goal ==
         \/ dapp'.pc = dapp.pc
         \/ dapp'.pc \notin Waiting \union {"otp"}
         \/ dapp.pc \in Waiting /\ dapp'.pc \in Waiting
<1>d. dapp \in Client(DappPcs) /\ "done" \in DappPcs
  BY DEF TypeOK, DappPcs
<1>t. \A q \in DappPcs : DappTo(q) => dapp'.pc = q
  BY <1>d DEF DappTo, Dapp, Client
<1>f. ASSUME Dapp(Failed(dapp)) PROVE Goal
  BY <1>f, <1>d, FailedType DEF Dapp, Waiting
<1>1. CASE UNCHANGED <<dapp, otp, dStored>>
  BY <1>1
<1>2. CASE DappConnect \/ DappConnected
  BY <1>2, <1>d DEF DappConnect, DappConnected, Dapp, Client, Waiting
<1>3. CASE DappSubscribed
  BY <1>3, <1>f, <1>t DEF DappSubscribed, DappPcs, Waiting
<1>4. CASE OfferTimeout \/ AckRejected \/ Cancel
  BY <1>4, <1>f DEF OfferTimeout, AckRejected, Cancel
<1>5. CASE DappSessionSubscribed \/ SendAck
  BY <1>5, <1>f, <1>t DEF DappSessionSubscribed, SendAck, DappPcs, Waiting
<1>6. CASE AckPublished
  BY <1>6, <1>f, <1>t DEF AckPublished, DappStore, DappTo, DappPcs, Waiting
<1>7. CASE DappStored
  BY <1>7, <1>f, <1>t DEF DappStored, DappPcs, Waiting
<1>8. CASE DappFinish \/ DappForget
  BY <1>8, <1>d DEF DappFinish, DappForget, Dapp, Client, Waiting
<1>9. CASE DappDisconnect
  BY <1>9, <1>d, <1>f, DisconnectedType DEF DappDisconnect, Dapp
<1>10. CASE DappCrash
  BY <1>10, FreshType DEF DappCrash, Dapp, Waiting
<1> QED
  BY <1>1, <1>2, <1>3, <1>4, <1>5, <1>6, <1>7, <1>8, <1>9, <1>10, DappFrame
  DEF DappStep, User

LEMMA AttemptsStep ==
  ASSUME HandshakeInv, AttemptsLeft, [Next]_vars
  PROVE  AttemptsLeft'
<1>0. /\ TypeOK /\ ChosenOnce /\ OtpAttempts \in Nat \ {0}
      /\ dapp \in Client(DappPcs) /\ wrong \in 0 .. OtpAttempts
  BY DEF HandshakeInv, Settled, TypeOK
<1>1. ASSUME NEW code \in Wallets \union {NoWallet}, Submit(code)
      PROVE  AttemptsLeft'
  <2>1. dapp.pc \notin Waiting
    BY <1>0, <1>1 DEF Submit, ChosenOnce, Waiting
  <2>2. CASE UNCHANGED dapp /\ (wrong' = wrong \/ wrong' < OtpAttempts)
    BY <2>1, <2>2 DEF AttemptsLeft
  <2>3. CASE dapp.pc # "otp" /\ UNCHANGED dapp
    BY <2>1, <2>3 DEF AttemptsLeft
  <2>4. CASE Dapp([dapp EXCEPT !.pc = "subSession", !.session = "final"])
    <3>1. dapp'.pc = "subSession"
      BY <1>0, <2>4 DEF Dapp, Client
    <3> QED  BY <3>1 DEF AttemptsLeft, Waiting
  <2>5. CASE Dapp(Failed(dapp))
    <3>1. dapp'.pc = "done"
      BY <1>0, <2>5, FailedType DEF Dapp, DappPcs
    <3> QED  BY <3>1 DEF AttemptsLeft, Waiting
  <2> QED  BY <1>1, <2>2, <2>3, <2>4, <2>5 DEF Submit
<1>2. ASSUME NEW w \in Wallets, DappHandleMessage(w)
      PROVE  AttemptsLeft'
  <2>1. CASE UNCHANGED <<dapp, otp>>
    BY <2>1 DEF AttemptsLeft, otp
  <2>2. CASE dapp.pc = "offer" /\ TakeOffer(w)
    <3>1. wrong' = 0
      BY <2>2 DEF TakeOffer, AttemptsLeft, Waiting
    <3> QED  BY <1>0, <3>1 DEF AttemptsLeft
  <2> QED  BY <1>2, <2>1, <2>2 DEF DappHandleMessage, otp
<1>3. CASE UNCHANGED otp
  BY <1>0, <1>1, <1>2, <1>3, PlaceStep DEF AttemptsLeft, otp, Waiting
<1> QED  BY <1>1, <1>2, <1>3, OtpFrame

LEMMA SpentStep ==
  ASSUME HandshakeInv, AttemptsLeft, [Next]_vars, wrong = OtpAttempts
  PROVE  chosen' = chosen
<1>0. OtpAttempts \in Nat \ {0} /\ dapp.pc \notin Waiting \union {"otp"}
  BY DEF AttemptsLeft
<1>1. CASE UNCHANGED otp
  BY <1>1 DEF otp
<1>2. ASSUME NEW code \in Wallets \union {NoWallet}, Submit(code)
      PROVE  chosen' = chosen
  BY <1>0, <1>2 DEF Submit
<1>3. ASSUME NEW w \in Wallets, DappHandleMessage(w)
      PROVE  chosen' = chosen
  BY <1>0, <1>3 DEF DappHandleMessage, Waiting, otp
<1> QED  BY <1>1, <1>2, <1>3, OtpFrame

\* After the last attempt at the code no submit(), of the right code either, and
\* no late offer makes the dApp go on with a wallet, for any number of wallets
\* and of attempts (dApp's _handleOtpInput: the callback outlives the promise).
THEOREM AttemptsAreLimited == Spec => LimitHolds
<1>1. Init => AttemptsLeft
  <2>1. New.pc = "idle"
    BY DEF New
  <2> QED  BY <2>1 DEF Init, AttemptsLeft
<1>2. HandshakeInv /\ AttemptsLeft /\ [Next]_vars => AttemptsLeft'
  BY AttemptsStep
<1>3. HandshakeInv /\ AttemptsLeft /\ [Next]_vars
        => [wrong = OtpAttempts => chosen' = chosen]_vars
  BY SpentStep
<1> QED  BY <1>1, <1>2, <1>3, Invariant, PTL DEF Spec, LimitHolds
=============================================================================
