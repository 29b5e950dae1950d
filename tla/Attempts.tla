----------------------------- MODULE Attempts -----------------------------
(***************************************************************************)
(* A DappClient whose connect() is called again: disconnect() gives up an  *)
(* attempt and connect() begins the next, while the connection handler of  *)
(* the first still waits for an offer, a code, a subscription or the       *)
(* store.  All handlers of a client share its state, its session, its      *)
(* transport and the internal event that brings an offer.                  *)
(*                                                                         *)
(* Handshake has the two sides of one attempt in full; here a wallet only  *)
(* answers a request, and what is failing is the user, the store, time.    *)
(***************************************************************************)
EXTENDS Naturals

CONSTANTS
  MaxAttempts,  \* bound: calls of connect() that begin an attempt
  Modes         \* modes the attempts may have

ASSUME BoundAssumption == MaxAttempts \in Nat
ASSUME ModesAssumption == Modes \subseteq {"trusted", "untrusted"}

VARIABLES
  mode,      \* the mode of the attempts
  count,     \* attempts begun
  state,     \* ClientState
  session,   \* this.session: the attempt whose id and keys it has, and the
             \* request whose answer it was made final with, 0 while pending
  stored,    \* records of the store
  link,      \* the transport's connection
  subs,      \* the channels it is subscribed to
  pc,        \* where the handler of each attempt is
  offer,     \* the request answered by the offer it took
  closing,   \* disconnect() calls, by session, that have yet to delete the record
  late,      \* requests past their expiry, from the first on
  offered,   \* requests a wallet has answered
  arrived,   \* answers that reached the client ...
  inbox,     \* ... and that it is decrypting
  overlap,   \* history: connect() was called before an earlier call, or the
             \* decryption of its answer, was over
  cut,       \* history: disconnect() was called before connect() was over
  stray      \* history: a session was ended by the handler of another attempt

vars == <<mode, count, state, session, stored, link, subs, pc, offer, closing,
          late, offered, arrived, inbox, overlap, cut, stray>>
client  == <<state, session, link, subs, closing>>
world   == <<late, offered>>
mail    == <<arrived, inbox>>
history == <<overlap, cut, stray>>

Ids     == 1 .. MaxAttempts
None    == [of |-> 0, peer |-> 0]
Session == [of : Ids, peer : Ids \union {0}]
Hand(a) == <<"handshake", a>>
Chan(a) == <<"session", a>>
Trusted == mode = "trusted"

\* taken: the offer is there; joining: the session's channel; stuck: the handler
\* waits for what will never come.
Pcs == {"idle", "dial", "subscribe", "offer", "taken", "otp", "joining", "ack",
        "store", "clear", "done", "failed", "stuck"}

Init ==
  /\ mode \in Modes
  /\ count = 0
  /\ state = "DISCONNECTED" /\ session = None
  /\ stored = {}
  /\ link = "down" /\ subs = {}
  /\ pc = [a \in Ids |-> "idle"]
  /\ offer = [a \in Ids |-> 0]
  /\ closing = [a \in Ids |-> 0]
  /\ late = 0 /\ offered = {}
  /\ arrived = {} /\ inbox = {}
  /\ overlap = FALSE /\ cut = FALSE /\ stray = FALSE

Over(a) == pc[a] \in {"idle", "done", "failed"} /\ closing[a] = 0

-----------------------------------------------------------------------------
(* disconnect() *)

\* Handlers that wait for a subscription of this transport wait for ever; one
\* that publishes is told false, and fails.
CutOff(f) == [a \in Ids |-> CASE f[a] \in {"subscribe", "joining"} -> "stuck"
                              [] f[a] = "ack"                      -> "failed"
                              [] OTHER                             -> f[a]]

\* With the handlers at f: nothing without a session; else memory and transport
\* at once, the record later.
Disconnected(f) ==
  IF session = None
  THEN pc' = f /\ UNCHANGED client
  ELSE /\ session' = None
       /\ state' = "DISCONNECTED"
       /\ closing' = [closing EXCEPT ![session.of] = @ + 1]
       /\ link' = "down"
       /\ IF link = "down" THEN pc' = f /\ UNCHANGED subs
                           ELSE pc' = CutOff(f) /\ subs' = {}

Disconnect ==
  /\ session # None
  /\ Disconnected(pc)
  /\ cut' = (cut \/ \E a \in Ids : pc[a] \notin {"idle", "done", "failed"})
  /\ UNCHANGED <<mode, count, stored, offer, world, mail, overlap, stray>>

\* sessionstore.delete(), the last thing disconnect() does.
Forget(a) ==
  /\ closing[a] > 0
  /\ closing' = [closing EXCEPT ![a] = @ - 1]
  /\ stored' = {r \in stored : r.of # a}
  /\ UNCHANGED <<mode, count, state, session, link, subs, pc, offer, world, mail, history>>

\* The catch of connect(): disconnect(), whosever session the client has by now.
Fail(a) ==
  /\ Disconnected([pc EXCEPT ![a] = "failed"])
  /\ stray' = (stray \/ (session # None /\ session.of # a))
  /\ UNCHANGED <<mode, count, offer, world, mail, overlap, cut>>

-----------------------------------------------------------------------------
(* connect() and its handler *)

\* A pending session, the request, and transport.connect(), which returns at
\* once unless the transport is down.
Connect ==
  /\ count < MaxAttempts
  /\ state = "DISCONNECTED"
  /\ count' = count + 1
  /\ state' = "CONNECTING"
  /\ session' = [of |-> count', peer |-> 0]
  /\ link' = IF link = "down" THEN "dialing" ELSE link
  /\ pc' = [pc EXCEPT ![count'] = IF link = "down" THEN "dial" ELSE "subscribe"]
  /\ subs' = IF link = "down" THEN subs ELSE subs \union {Hand(count')}
  /\ overlap' = (overlap \/ inbox # {} \/ \E a \in Ids : ~ Over(a))
  /\ UNCHANGED <<mode, stored, offer, closing, world, mail, cut, stray>>

\* "connected": whoever called transport.connect(), and be it for an attempt that
\* was given up, subscribes to its handshake channel.
Connected ==
  /\ link = "dialing"
  /\ link' = "up"
  /\ pc' = [a \in Ids |-> IF pc[a] = "dial" THEN "subscribe" ELSE pc[a]]
  /\ subs' = subs \union {Hand(a) : a \in {b \in Ids : pc[b] = "dial"}}
  /\ UNCHANGED <<mode, count, state, session, stored, offer, closing, world, mail, history>>

Lose ==
  /\ link = "up"
  /\ link' = "dialing"
  /\ UNCHANGED <<mode, count, state, session, stored, subs, pc, offer, closing, world, mail, history>>

\* _waitForHandshakeOffer(): listener and timer, or too late already.
Subscribed(a) ==
  /\ pc[a] = "subscribe" /\ link = "up"
  /\ IF a <= late
     THEN Fail(a) /\ UNCHANGED stored
     ELSE /\ pc' = [pc EXCEPT ![a] = "offer"]
          /\ UNCHANGED <<mode, count, client, stored, offer, world, mail, history>>

OfferTimeout(a) ==
  /\ pc[a] = "offer"
  /\ a <= late
  /\ Fail(a)
  /\ UNCHANGED stored

\* An answer to request a is emitted by the transport, once, and decrypted with
\* the keys the client has by now; with others than those of a, in vain.
Deliver(a) ==
  /\ a \in offered \ arrived
  /\ link = "up" /\ Hand(a) \in subs /\ pc[a] # "subscribe"
  /\ arrived' = arrived \union {a}
  /\ inbox' = IF session.of = a THEN inbox \union {a} ELSE inbox
  /\ UNCHANGED <<mode, count, client, stored, pc, offer, world, history>>

\* handleMessage(): while CONNECTING, the offer goes to every handler that waits.
Handle(a) ==
  /\ a \in inbox
  /\ inbox' = inbox \ {a}
  /\ LET takers == {b \in Ids : pc[b] = "offer" /\ state = "CONNECTING"}
     IN  /\ pc' = [b \in Ids |-> IF b \in takers THEN "taken" ELSE pc[b]]
         /\ offer' = [b \in Ids |-> IF b \in takers THEN a ELSE offer[b]]
  /\ UNCHANGED <<mode, count, client, stored, world, arrived, history>>

\* sessionstore.set() of s: it is under way, and replaces the record of that id.
Store(a, s) ==
  /\ pc' = [pc EXCEPT ![a] = "store"]
  /\ stored' = {r \in stored : r.of # s.of} \union {s}

\* Mutation: the final session is stored, and not made the client's.
TakeForStore(a) ==
  /\ pc[a] = "taken"
  /\ \/ /\ Trusted
        /\ Store(a, [of |-> a, peer |-> offer[a]])
        /\ UNCHANGED <<mode, count, client, offer, world, mail, history>>
     \/ /\ ~ Trusted
        /\ pc' = [pc EXCEPT ![a] = "otp"]
        /\ UNCHANGED <<mode, count, client, stored, offer, world, mail, history>>
     \/ ~ Trusted /\ Fail(a) /\ UNCHANGED stored

\* Trusted: the final session is the client's, and goes to the store.
\* Untrusted: the user is asked for the code, unless its time is over.
Take(a) ==
  /\ pc[a] = "taken"
  /\ \/ /\ Trusted
        /\ session' = [of |-> a, peer |-> offer[a]]
        /\ Store(a, session')
        /\ UNCHANGED <<mode, count, state, link, subs, offer, closing, world, mail, history>>
     \/ /\ ~ Trusted
        /\ pc' = [pc EXCEPT ![a] = "otp"]
        /\ UNCHANGED <<mode, count, client, stored, offer, world, mail, history>>
     \/ ~ Trusted /\ Fail(a) /\ UNCHANGED stored

\* submit() with the right code: the final session is the client's, its channel
\* is subscribed to.
RightCode(a) ==
  /\ pc[a] = "otp"
  /\ session' = [of |-> a, peer |-> offer[a]]
  /\ subs' = subs \union {Chan(offer[a])}
  /\ pc' = [pc EXCEPT ![a] = "joining"]
  /\ UNCHANGED <<mode, count, state, stored, link, offer, closing, world, mail, history>>

\* cancel(), or the last of the wrong codes.
NoCode(a) ==
  /\ pc[a] = "otp"
  /\ Fail(a)
  /\ UNCHANGED stored

\* ... and returns, or fails with the record written and the list not.
Stored(a) ==
  /\ pc[a] = "store"
  /\ \/ /\ pc' = [pc EXCEPT ![a] = IF Trusted THEN "joining" ELSE "clear"]
        /\ subs' = IF Trusted THEN subs \union {Chan(offer[a])} ELSE subs
        /\ UNCHANGED <<mode, count, state, session, stored, link, offer, closing, world, mail, history>>
     \/ Fail(a) /\ UNCHANGED stored

\* Mutation: the acknowledgement is made without a look at the wallet's key.
JoinedBlindly(a) ==
  /\ pc[a] = "joining" /\ link = "up"
  /\ pc' = [pc EXCEPT ![a] = IF Trusted THEN "clear" ELSE "ack"]
  /\ UNCHANGED <<mode, count, client, stored, offer, world, mail, history>>

\* The session's channel is up: the acknowledgement is next, or clear().
Joined(a) ==
  /\ pc[a] = "joining" /\ link = "up"
  /\ IF Trusted \/ session.peer # 0
     THEN /\ pc' = [pc EXCEPT ![a] = IF Trusted THEN "clear" ELSE "ack"]
          /\ UNCHANGED <<mode, count, client, stored, offer, world, mail, history>>
     ELSE Fail(a) /\ UNCHANGED stored     \* no session, or no key to encrypt for

\* The acknowledgement is published: whatever session the client has by now is
\* stored.
Acked(a) ==
  /\ pc[a] = "ack" /\ link = "up"
  /\ IF session = None
     THEN Fail(a) /\ UNCHANGED stored
     ELSE /\ Store(a, session)
          /\ UNCHANGED <<mode, count, client, offer, world, mail, history>>

AckRejected(a) ==
  /\ pc[a] = "ack" /\ link = "up"
  /\ Fail(a)
  /\ UNCHANGED stored

\* clear() of the handshake channel is back: connected, whatever happened.
Finish(a) ==
  /\ pc[a] = "clear"
  /\ pc' = [pc EXCEPT ![a] = "done"]
  /\ state' = "CONNECTED"
  /\ subs' = subs \ {Hand(a)}
  /\ UNCHANGED <<mode, count, session, stored, link, offer, closing, world, mail, history>>

-----------------------------------------------------------------------------
(* Wallets and time *)

\* A wallet that scanned request a publishes its offer.
Answer(a) ==
  /\ a <= count /\ a > late
  /\ offered' = offered \union {a}
  /\ UNCHANGED <<mode, count, client, stored, pc, offer, late, mail, history>>

Expire ==
  /\ late < count
  /\ late' = late + 1
  /\ UNCHANGED <<mode, count, client, stored, pc, offer, offered, mail, history>>

-----------------------------------------------------------------------------
Handler(a) ==
  \/ Subscribed(a) \/ OfferTimeout(a) \/ Take(a) \/ Stored(a) \/ Joined(a)
  \/ Acked(a) \/ AckRejected(a) \/ Finish(a)

Next ==
  \/ Connect \/ Disconnect \/ Connected \/ Lose \/ Expire
  \/ \E a \in Ids : Handler(a) \/ Forget(a) \/ Deliver(a) \/ Handle(a)
                      \/ RightCode(a) \/ NoCode(a) \/ Answer(a)

Spec == Init /\ [][Next]_vars

-----------------------------------------------------------------------------
TypeOK ==
  /\ mode \in Modes
  /\ count \in 0 .. MaxAttempts
  /\ state \in {"DISCONNECTED", "CONNECTING", "CONNECTED"}
  /\ session \in Session \union {None}
  /\ stored \subseteq Session
  /\ \A r, s \in stored : r.of = s.of => r = s
  /\ link \in {"down", "dialing", "up"}
  /\ subs \subseteq {"handshake", "session"} \X Ids
  /\ pc \in [Ids -> Pcs]
  /\ offer \in [Ids -> 0 .. MaxAttempts]
  /\ closing \in [Ids -> Nat]
  /\ late \in 0 .. count /\ offered \subseteq 1 .. count
  /\ inbox \subseteq arrived /\ arrived \subseteq offered
  /\ overlap \in BOOLEAN /\ cut \in BOOLEAN /\ stray \in BOOLEAN

Calm == ~ overlap /\ ~ cut

\* Whatever overlaps, a session without its wallet's key is never stored, where
\* resume() would find it.
FinalRecords == \A r \in stored : r.peer # 0

\* Attempts that are made one after the other leave nothing behind: the client
\* has the session of the last; when it is CONNECTED that session is final, made
\* with the answer to its own request, subscribed to and stored; and when every
\* connect() and disconnect() is over no other session has a record.
LastAttemptOnly ==
  Calm =>
    /\ session # None => session.of = count
    /\ state = "CONNECTED" =>
         session = [of |-> count, peer |-> count] /\ session \in stored /\ Chan(count) \in subs
    /\ (\A a \in Ids : Over(a)) => stored \subseteq {session}

\* "This method is fully self-contained and handles the connection process"
\* (execute() of the handlers): no attempt ends another's session.
SelfContained == ~ stray

=============================================================================
