----------------------------- MODULE Lifecycle -----------------------------
(***************************************************************************)
(* The life of one BaseClient after its handshake: resume(), reconnect(),  *)
(* disconnect(), sending, and the listener for incoming messages, on a     *)
(* transport with a connection of its own and a session store.             *)
(*                                                                         *)
(* Every call, and every incoming message, is an async function; a step is *)
(* the code between two awaits, and calls interleave at every await.  What *)
(* the model is about is state and session, which all of them write.       *)
(***************************************************************************)
EXTENDS Naturals, FiniteSets

CONSTANTS
  Sessions,   \* sessions of the store
  NoSession,  \* null
  Calls       \* bound: calls and messages in progress at once

ASSUME NoSessionAssumption == NoSession \notin Sessions

VARIABLES
  state,     \* ClientState
  session,   \* this.session
  stored,    \* sessions that have a record in the store
  expired,   \* sessions past their expiresAt
  link,      \* the transport's connection
  subs,      \* sessions whose channel the transport is subscribed to ...
  live,      \* ... and those where the relay has confirmed it
  call,      \* what is in progress
  ended,     \* history: sessions whose "disconnected" was emitted
  crossed,   \* history: a disconnect() was in progress together with a resume()
             \* or a reconnect()
  failed,    \* history: a disconnect() has rejected
  redialed,  \* history: reconnect() was called
  dropped    \* history: a dApp dropped a message of the session it has

vars == <<state, session, stored, expired, link, subs, live, call,
          ended, crossed, failed, redialed, dropped>>
histories == <<ended, failed, redialed, dropped>>

Ops == {"none", "resume", "reconnect", "disconnect", "send", "receive"}

\* What a call awaits: get: sessionstore.get; dial: transport.connect; redial:
\* transport.reconnect, which hears errors unless the client was dialling
\* already (rejoin); join: transport.subscribe; clear, delete: the rest of
\* disconnect(); open: decrypt.  The others have their answer and go on before
\* the next event.
Answered == {"dialed", "joined", "redialed", "redialFailed"}
Pcs  == {"idle", "get", "dial", "join", "redial", "rejoin", "clear", "delete", "open"} \union Answered
Idle == [op |-> "none", pc |-> "idle", of |-> NoSession]

Init ==
  /\ state = "DISCONNECTED"
  /\ session = NoSession
  /\ stored = Sessions
  /\ expired = {}
  /\ link = "down"
  /\ subs = {}
  /\ live = {}
  /\ call = [c \in Calls |-> Idle]
  /\ ended = {}
  /\ crossed = FALSE
  /\ failed = FALSE
  /\ redialed = FALSE
  /\ dropped = FALSE

-----------------------------------------------------------------------------
Ending(k)  == k.pc \in {"clear", "delete"}
Opening(k) == k.op \in {"resume", "reconnect"}

\* The calls become f.
Become(f) ==
  /\ call' = f
  /\ crossed' = (crossed \/ \E c, d \in Calls : Ending(f[c]) /\ Opening(f[d]))

Goes(c, pc) == [call EXCEPT ![c].pc = pc]
Done(c)     == [call EXCEPT ![c] = Idle]

\* No promise that has settled waits for its continuation.
Quiet == \A c \in Calls : call[c].pc \notin Answered

-----------------------------------------------------------------------------
(* resume() *)

Resume(c, s) ==
  /\ call[c].pc = "idle"
  /\ state = "DISCONNECTED"
  /\ state' = "CONNECTING"
  /\ Become([call EXCEPT ![c] = [op |-> "resume", pc |-> "get", of |-> s]])
  /\ UNCHANGED <<session, stored, expired, link, subs, live, histories>>

\* sessionstore.get() found nothing, deleted an expired session, or rejected;
\* or the peer's key is not valid: the catch.
NotFound(c) ==
  /\ call[c].pc = "get"
  /\ state' = "DISCONNECTED"
  /\ session' = NoSession
  /\ stored' \in {stored, stored \ ({call[c].of} \intersect expired)}
  /\ Become(Done(c))
  /\ UNCHANGED <<expired, link, subs, live, histories>>

\* Mutation: the session is not remembered.
FoundOnly(c) ==
  /\ call[c].pc = "get"
  /\ call[c].of \in stored \ expired
  /\ link' = IF link = "down" THEN "dialing" ELSE link
  /\ Become(Goes(c, IF link = "down" THEN "dial" ELSE "dialed"))
  /\ UNCHANGED <<state, session, stored, expired, subs, live, histories>>

\* transport.connect() resolves at once unless the transport is down.
Found(c) ==
  /\ call[c].pc = "get"
  /\ call[c].of \in stored \ expired
  /\ session' = call[c].of
  /\ link' = IF link = "down" THEN "dialing" ELSE link
  /\ Become(Goes(c, IF link = "down" THEN "dial" ELSE "dialed"))
  /\ UNCHANGED <<state, stored, expired, subs, live, histories>>

\* transport.subscribe(), to a channel that may be subscribed to already.
Join(c) ==
  /\ call[c].pc = "dialed"
  /\ subs' = subs \union {call[c].of}
  /\ Become(Goes(c, IF call[c].of \in live THEN "joined" ELSE "join"))
  /\ UNCHANGED <<state, session, stored, expired, link, live, histories>>

\* Mutation: "connected" is emitted and the state left as it is.
ResumedUnsaid(c) ==
  /\ call[c].pc = "joined"
  /\ Become(Done(c))
  /\ UNCHANGED <<state, session, stored, expired, link, subs, live, histories>>

Resumed(c) ==
  /\ call[c].pc = "joined"
  /\ state' = "CONNECTED"
  /\ Become(Done(c))
  /\ UNCHANGED <<session, stored, expired, link, subs, live, histories>>

-----------------------------------------------------------------------------
(* reconnect() *)

Reconnect(c) ==
  /\ call[c].pc = "idle"
  /\ state # "CONNECTING"
  /\ session # NoSession
  /\ state' = "CONNECTING"
  /\ link' = "dialing"
  /\ live' = {}
  /\ redialed' = TRUE
  /\ Become([call EXCEPT ![c] = [op |-> "reconnect", of |-> session,
                                 pc |-> IF link = "dialing" THEN "rejoin" ELSE "redial"]])
  /\ UNCHANGED <<session, stored, expired, subs, ended, failed, dropped>>

Reconnected(c) ==
  /\ call[c].pc = "redialed"
  /\ state' = "CONNECTED"
  /\ Become(Done(c))
  /\ UNCHANGED <<session, stored, expired, link, subs, live, histories>>

\* Mutation: a reconnect() that failed leaves the client connecting.
ReconnectFailsQuietly(c) ==
  /\ call[c].pc = "redialFailed"
  /\ Become(Done(c))
  /\ UNCHANGED <<state, session, stored, expired, link, subs, live, histories>>

ReconnectFails(c) ==
  /\ call[c].pc = "redialFailed"
  /\ state' = "DISCONNECTED"
  /\ Become(Done(c))
  /\ UNCHANGED <<session, stored, expired, link, subs, live, histories>>

-----------------------------------------------------------------------------
(* disconnect(), by its owner or by checkSessionExpiry() *)

\* Mutation: the session is cleared when all is done, and not at once.
EndLate(c, op) ==
  /\ state' = "DISCONNECTED"
  /\ subs' = IF link = "down" THEN subs ELSE {}
  /\ live' = {}
  /\ link' = "down"
  /\ Become([call EXCEPT ![c] = [op |-> op, pc |-> "clear", of |-> session]])
  /\ UNCHANGED session

\* Session and state are cleared at once; transport.disconnect() gives up the
\* subscriptions, unless the transport is down, and settles.
End(c, op) ==
  /\ state' = "DISCONNECTED"
  /\ session' = NoSession
  /\ subs' = IF link = "down" THEN subs ELSE {}
  /\ live' = {}
  /\ link' = "down"
  /\ Become([d \in Calls |->
               CASE d = c -> [op |-> op, pc |-> "clear", of |-> session]
                 [] d # c /\ call[d].pc = "join" /\ link # "down" -> Idle  \* never returns
                 [] OTHER -> call[d]])

Disconnect(c) ==
  /\ call[c].pc = "idle"
  /\ session # NoSession
  /\ End(c, "disconnect")
  /\ UNCHANGED <<stored, expired, histories>>

\* transport.clear() removes the subscription; who waits for it never returns.
Cleared(c) ==
  /\ call[c].pc = "clear"
  /\ subs' = subs \ {call[c].of}
  /\ live' = live \ {call[c].of}
  /\ Become([d \in Calls |->
               CASE d = c -> [call[c] EXCEPT !.pc = "delete"]
                 [] d # c /\ call[d].pc = "join" /\ call[d].of = call[c].of -> Idle
                 [] OTHER -> call[d]])
  /\ UNCHANGED <<state, session, stored, expired, link, histories>>

Deleted(c) ==
  /\ call[c].pc = "delete"
  /\ stored' = stored \ {call[c].of}
  /\ ended' = ended \union {call[c].of}
  /\ Become(Done(c))
  /\ UNCHANGED <<state, session, expired, link, subs, live, failed, redialed, dropped>>

\* transport.clear() or sessionstore.delete() rejects, and disconnect() with it.
EndFails(c) ==
  /\ Ending(call[c])
  /\ failed' = TRUE
  /\ Become(Done(c))
  /\ UNCHANGED <<state, session, stored, expired, link, subs, live, ended, redialed, dropped>>

-----------------------------------------------------------------------------
(* Messages *)

\* sendRequest(), sendResponse() with an expired session disconnect it.
Send(c) ==
  /\ call[c].pc = "idle"
  /\ state = "CONNECTED"
  /\ session \in expired
  /\ End(c, "send")
  /\ UNCHANGED <<stored, expired, histories>>

\* The transport emits a message of the channel of s.  The listener decrypts it
\* with the keys of the session the client has.
Receive(c, s) ==
  /\ call[c].pc = "idle"
  /\ Quiet
  /\ s \in live
  /\ session # NoSession
  /\ IF session \in expired
     THEN End(c, "receive")
     ELSE /\ Become([call EXCEPT ![c] = [op |-> "receive", pc |-> "open", of |-> s]])
          /\ UNCHANGED <<state, session, link, subs, live>>
  /\ UNCHANGED <<stored, expired, histories>>

\* decrypt() settles: handleMessage() of the dApp drops it unless CONNECTED.
Handle(c) ==
  /\ call[c].pc = "open"
  /\ dropped' = (dropped \/ (state # "CONNECTED" /\ session = call[c].of))
  /\ Become(Done(c))
  /\ UNCHANGED <<state, session, stored, expired, link, subs, live, ended, failed, redialed>>

-----------------------------------------------------------------------------
(* The relay and time *)

\* Every promise that waits for "connected", however old, has its answer.
Connected ==
  /\ link = "dialing"
  /\ Quiet
  /\ link' = "up"
  /\ Become([c \in Calls |->
       CASE call[c].pc = "dial"                -> [call[c] EXCEPT !.pc = "dialed"]
         [] call[c].pc \in {"redial", "rejoin"} -> [call[c] EXCEPT !.pc = "redialed"]
         [] OTHER                              -> call[c]])
  /\ UNCHANGED <<state, session, stored, expired, subs, live, histories>>

\* An attempt to dial fails; the client library goes on dialling.
DialFails ==
  /\ link = "dialing"
  /\ Quiet
  /\ \E c \in Calls : call[c].pc = "redial"
  /\ Become([c \in Calls |-> IF call[c].pc = "redial" THEN [call[c] EXCEPT !.pc = "redialFailed"]
                                                      ELSE call[c]])
  /\ UNCHANGED <<state, session, stored, expired, link, subs, live, histories>>

\* The connection is lost and dialled again, or ended for good by the relay.
Lose ==
  /\ Quiet
  /\ \/ link = "up" /\ link' = "dialing"
     \/ link # "down" /\ link' = "down"
  /\ live' = {}
  /\ UNCHANGED <<state, session, stored, expired, subs, call, crossed, histories>>

Subscribed(s) ==
  /\ link = "up"
  /\ Quiet
  /\ s \in subs \ live
  /\ live' = live \union {s}
  /\ Become([c \in Calls |-> IF call[c].pc = "join" /\ call[c].of = s
                             THEN [call[c] EXCEPT !.pc = "joined"] ELSE call[c]])
  /\ UNCHANGED <<state, session, stored, expired, link, subs, histories>>

Expire(s) ==
  /\ s \notin expired
  /\ expired' = expired \union {s}
  /\ UNCHANGED <<state, session, stored, link, subs, live, call, crossed, histories>>

-----------------------------------------------------------------------------
\* What a call does once it has its answer, or without asking anybody.
Continue(c) ==
  \/ Found(c) \/ NotFound(c) \/ Join(c) \/ Resumed(c)
  \/ Reconnected(c) \/ ReconnectFails(c)
  \/ Cleared(c) \/ Deleted(c) \/ EndFails(c)
  \/ Handle(c)

Next ==
  \/ \E c \in Calls, s \in Sessions : Resume(c, s) \/ Receive(c, s)
  \/ \E c \in Calls : Reconnect(c) \/ Disconnect(c) \/ Send(c) \/ Continue(c)
  \/ Connected \/ DialFails \/ Lose
  \/ \E s \in Sessions : Subscribed(s) \/ Expire(s)

Spec == Init /\ [][Next]_vars

\* Calls go on, the relay confirms subscriptions, and a client that dials again
\* and again gets through: strongly fair, as every loss begins anew.
FairSpec ==
  /\ Spec
  /\ \A c \in Calls : WF_vars(Continue(c))
  /\ SF_vars(Connected)
  /\ \A s \in Sessions : SF_vars(Subscribed(s))

-----------------------------------------------------------------------------
TypeOK ==
  /\ state \in {"DISCONNECTED", "CONNECTING", "CONNECTED"}
  /\ session \in Sessions \union {NoSession}
  /\ stored \subseteq Sessions /\ expired \subseteq Sessions /\ ended \subseteq Sessions
  /\ link \in {"down", "dialing", "up"}
  /\ live \subseteq subs /\ subs \subseteq Sessions
  /\ call \in [Calls -> [op : Ops, pc : Pcs, of : Sessions \union {NoSession}]]
  /\ \A c \in Calls : call[c].pc # "idle" => call[c].of \in Sessions
  /\ crossed \in BOOLEAN /\ failed \in BOOLEAN /\ redialed \in BOOLEAN /\ dropped \in BOOLEAN

\* Unless a disconnect() overlaps a resume() or a reconnect(), a client that says
\* it is CONNECTED has a session and its transport listens to that session's
\* channel: the two are written by different calls, steps apart.
ConnectedIsUsable ==
  ~ crossed /\ state = "CONNECTED" => session # NoSession /\ session \in subs

\* Unless such calls overlap, CONNECTING is always somebody's state: a call is in
\* progress that will end it, and no other call writes it meanwhile.
ConnectingIsOwned ==
  ~ crossed => /\ state = "CONNECTING" <=> \E c \in Calls : Opening(call[c])
               /\ \A c, d \in Calls : Opening(call[c]) /\ Opening(call[d]) => c = d

\* "disconnected" is the end of a session, whoever ended it (its owner, a message
\* that came too late, a request sent too late) and whatever comes after: no
\* record, no subscription, no client that has it.
EndedForGood ==
  ~ crossed => \A s \in ended : s \notin stored /\ s \notin subs /\ s # session

\* A dApp drops no message of its session unless its application has called
\* reconnect(), or a disconnect() overlapped or rejected, and the session was
\* resumed after it: messages arrive only in states in which they are handled.
HandledOrRedialed == dropped => crossed \/ redialed \/ failed

\* resume() and reconnect() end, in one state or another, unless the relay has
\* ended the connection for good or a disconnect() overlaps.
ConnectingEnds ==
  state = "CONNECTING" ~> (state # "CONNECTING" \/ crossed \/ link = "down")

=============================================================================
