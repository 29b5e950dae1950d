-------------------------- MODULE SharedConnection --------------------------
(***************************************************************************)
(* Several WebSocketTransports of one process on one SharedCentrifuge      *)
(* connection: the reference count of the connection, the count of each    *)
(* channel, the shared reconnect promise, and what each transport believes *)
(* about a connection that others start, restart and end.                  *)
(*                                                                         *)
(* A hub is a context together with its Centrifuge client.  The map of     *)
(* contexts has one entry for the url; a hub the map has forgotten goes on *)
(* with whoever still listens to it.  A step is the code between two       *)
(* awaits; the events it emits reach every listener within it.             *)
(***************************************************************************)
EXTENDS Integers, FiniteSets

CONSTANTS
  Transports,  \* transports made with useSharedConnection on the same url
  Channels     \* relay channels

ASSUME TransportsAssumption == IsFiniteSet(Transports)

VARIABLES
  hub,   \* the hubs, numbered in the order they were made
  made,  \* how many there are
  ctx,   \* the hub in the map, 0 when there is none
  inst   \* each transport with its SharedCentrifuge

vars == <<hub, made, ctx, inst>>

Hubs   == 1 .. Cardinality(Transports)
Conns  == {"disconnected", "connecting", "connected"}
Calls  == {"connect", "disconnect", "reconnect"}

\* refs, count: reference counts; sub: the real subscriptions; redial: how far
\* the reconnect promise is; doomed: the context goes at the next "disconnected".
\* History: torn, the last user left while the reconnect promise was pending or
\* the connection was down; ended, the relay has ended the connection for good.
Fresh == [conn |-> "disconnected", refs |-> 0, count |-> [c \in Channels |-> 0],
          sub |-> [c \in Channels |-> "none"], redial |-> "none", doomed |-> FALSE,
          torn |-> FALSE, ended |-> FALSE]

\* phase: what the owner has done; hub: the hub its listeners are on; left: the
\* SharedCentrifuge has been disconnected; state: the transport's own view;
\* soon: "connected" events due by setImmediate; waits: promises not settled;
\* hears: hub and channel of the real subscriptions that have its listeners;
\* fetched: the channels it holds whose history it has asked for.
Absent == [phase |-> "none", hub |-> 0, left |-> FALSE, chans |-> {},
           state |-> "disconnected", soon |-> 0, waits |-> {},
           hears |-> {}, fetched |-> {}]

Init ==
  /\ hub = [g \in Hubs |-> Fresh]
  /\ made = 0
  /\ ctx = 0
  /\ inst = [t \in Transports |-> Absent]

-----------------------------------------------------------------------------
(* Events *)

On(t, g) == inst[t].hub = g /\ ~ inst[t].left
Here     == hub[ctx]

\* The listeners a transport has on its SharedCentrifuge.
Hear(r, event) ==
  [r EXCEPT !.state = event,
            !.waits = @ \ (IF event = "connected" THEN {"connect"}
                           ELSE IF event = "disconnected" THEN {"disconnect"} ELSE {})]

\* The client of hub g emits an event: those on it pass it on.
Emit(i, g, event) ==
  [t \in Transports |-> IF i[t].hub = g /\ ~ i[t].left THEN Hear(i[t], event) ELSE i[t]]

\* The reconnect promise of hub g settles.
Settled(i, g) ==
  [t \in Transports |-> IF i[t].hub = g THEN [i[t] EXCEPT !.waits = @ \ {"reconnect"}] ELSE i[t]]

Unsynced(h) == [c \in Channels |-> IF h.sub[c] = "subscribed" THEN "subscribing" ELSE h.sub[c]]

\* What a hub becomes when its client goes down, for good or to dial again.
Dropped(h, conn) == [h EXCEPT !.conn = conn, !.sub = Unsynced(h), !.doomed = FALSE]

\* A client that is down dials; dialling or connected, connect() does nothing.
Dialled(h) == IF h.conn = "disconnected" THEN [h EXCEPT !.conn = "connecting"] ELSE h
Dials(i, g, h) == IF h.conn = "disconnected" THEN Emit(i, g, "connecting") ELSE i

\* decrementChannelRef for each channel of S: the last one out unsubscribes.
Released(h, S) ==
  [h EXCEPT !.count = [c \in Channels |-> IF c \in S /\ @[c] > 0 THEN @[c] - 1 ELSE @[c]],
            !.sub   = [c \in Channels |-> IF c \in S /\ h.count[c] = 1 THEN "none" ELSE @[c]]]

\* The listeners of a real subscription of the map's hub go with it, and with
\* nothing else.
Deafened(i, S) ==
  [t \in Transports |->
    [i[t] EXCEPT !.hears = @ \ {<<ctx, c>> : c \in {d \in S : Here.count[d] = 1}},
                 !.fetched = @ \intersect i[t].chans]]

-----------------------------------------------------------------------------
(* Calls of the owners *)

\* Mutation: the count is set once, when the hub is made.
CreateUncounted(t) ==
  /\ inst[t].phase = "none"
  /\ IF ctx = 0
     THEN /\ made' = made + 1 /\ ctx' = made + 1
          /\ hub' = [hub EXCEPT ![made + 1].refs = 1]
     ELSE UNCHANGED <<made, ctx, hub>>
  /\ inst' = [inst EXCEPT ![t].phase = "idle", ![t].hub = ctx']

\* new WebSocketTransport: new SharedCentrifuge(url).
Create(t) ==
  /\ inst[t].phase = "none"
  /\ IF ctx = 0 THEN made' = made + 1 /\ ctx' = made + 1 ELSE UNCHANGED <<made, ctx>>
  /\ hub' = [hub EXCEPT ![ctx'].refs = @ + 1]
  /\ inst' = [inst EXCEPT ![t].phase = "idle", ![t].hub = ctx']

\* A transport is used once: nobody connects it again after disconnect().
MayCall(t) == inst[t].phase \in {"idle", "open"}

\* connect() answers at once unless the transport is disconnected.
ConnectAgain(t) ==
  /\ MayCall(t)
  /\ inst[t].phase # "open"
  /\ inst[t].state # "disconnected"
  /\ inst' = [inst EXCEPT ![t].phase = "open"]
  /\ UNCHANGED <<hub, made, ctx>>

Calling(t) ==
  [inst EXCEPT ![t].phase = "open", ![t].state = "connecting", ![t].waits = @ \union {"connect"}]

\* connect(): SharedCentrifuge.connect dials, lets the dialling finish, or
\* answers by an event of its own.  Without a context it does nothing.
Connect(t) ==
  /\ MayCall(t)
  /\ inst[t].state = "disconnected"
  /\ inst[t].soon < 2
  /\ IF ctx = 0
     THEN inst' = Calling(t) /\ UNCHANGED hub
     ELSE IF Here.conn = "connected"
     THEN inst' = [Calling(t) EXCEPT ![t].soon = @ + 1] /\ UNCHANGED hub
     ELSE /\ hub' = [hub EXCEPT ![ctx] = Dialled(@)]
          /\ inst' = Dials(Calling(t), ctx, Here)
  /\ UNCHANGED <<made, ctx>>

\* subscribe(): a channel is counted once for each instance; its listeners are
\* on the real subscription, which may be up already.
Subscribe(t, c) ==
  /\ inst[t].phase = "open"
  /\ ctx # 0
  /\ c \notin inst[t].chans
  /\ hub' = [hub EXCEPT ![ctx].count[c] = @ + 1,
                        ![ctx].sub[c] = IF @ = "subscribed" THEN @ ELSE "subscribing"]
  /\ inst' = [inst EXCEPT ![t].chans = @ \union {c}, ![t].hears = @ \union {<<ctx, c>>}]
  /\ UNCHANGED <<made, ctx>>

\* Mutation: the instance does not forget the channel it gave up.
ClearKeepsChannel(t, c) ==
  /\ inst[t].phase = "open"
  /\ c \in inst[t].chans
  /\ ctx # 0
  /\ hub' = [hub EXCEPT ![ctx] = Released(@, {c})]
  /\ inst' = Deafened(inst, {c})
  /\ UNCHANGED <<made, ctx>>

\* clear(): getSubscription, removeSubscription.
Clear(t, c) ==
  /\ inst[t].phase = "open"
  /\ c \in inst[t].chans
  /\ ctx # 0
  /\ Here.count[c] > 0
  /\ hub' = [hub EXCEPT ![ctx] = Released(@, {c})]
  /\ inst' = Deafened([inst EXCEPT ![t].chans = @ \ {c}], {c})
  /\ UNCHANGED <<made, ctx>>

\* The owner is done with t, whose instance takes its channels off the hub.
Closing(t, gone) ==
  [inst EXCEPT ![t].phase = "closed", ![t].chans = @ \ gone, ![t].waits = @ \union {"disconnect"}]

\* Mutation: the first one out ends the connection.
LeaveForAll(t) ==
  LET h == [Released(Here, inst[t].chans) EXCEPT !.refs = @ - 1]
      i == Deafened([Closing(t, inst[t].chans) EXCEPT
                       ![t] = [Hear(@, "disconnected") EXCEPT !.left = TRUE]],
                    inst[t].chans)
  IN  /\ hub' = [hub EXCEPT ![ctx] = Dropped(h, "disconnected")]
      /\ inst' = Emit(i, ctx, "disconnected")
      /\ ctx' = 0

\* SharedCentrifuge.disconnect(): the instance says so to its own listeners,
\* is taken out of the counts, and ends the connection if it was the last one.
\* A connection that is down already says nothing more: the context stays.
Leave(t) ==
  LET h == [Released(Here, inst[t].chans) EXCEPT !.refs = @ - 1]
      i == Deafened([Closing(t, inst[t].chans) EXCEPT
                       ![t] = [Hear(@, "disconnected") EXCEPT !.left = TRUE]],
                    inst[t].chans)
  IN  IF h.refs # 0
      THEN hub' = [hub EXCEPT ![ctx] = h] /\ inst' = i /\ ctx' = ctx
      ELSE IF h.conn = "disconnected"
      THEN hub' = [hub EXCEPT ![ctx] = [h EXCEPT !.doomed = TRUE, !.torn = TRUE]] /\ inst' = i /\ ctx' = ctx
      ELSE /\ hub' = [hub EXCEPT ![ctx] =
                        [Dropped(h, "disconnected") EXCEPT !.torn = h.redial # "none"]]
           /\ inst' = Emit(i, ctx, "disconnected")
           /\ ctx' = 0

\* disconnect() of a transport that believes it is disconnected does nothing ...
DisconnectIdle(t) ==
  /\ inst[t].phase = "open"
  /\ inst[t].state = "disconnected"
  /\ inst' = [inst EXCEPT ![t].phase = "closed"]
  /\ UNCHANGED <<hub, made, ctx>>

\* ... otherwise it gives up its channels and leaves; an instance that has left
\* before, or has no context, answers nothing.
Disconnect(t) ==
  /\ inst[t].phase = "open"
  /\ inst[t].state # "disconnected"
  /\ IF ctx # 0 /\ ~ inst[t].left
     THEN Leave(t)
     ELSE LET gone == {c \in inst[t].chans : ctx # 0 /\ Here.count[c] > 0}
          IN  /\ inst' = IF ctx = 0 THEN Closing(t, gone)
                                    ELSE Deafened(Closing(t, gone), gone)
              /\ hub' = [g \in Hubs |-> IF g = ctx THEN Released(hub[g], gone) ELSE hub[g]]
              /\ UNCHANGED ctx
  /\ UNCHANGED made

\* reconnect(): joins the reconnect in progress, or drops the connection; one
\* that is down is dialled at once.  Without a context it answers at once.
Reconnect(t) ==
  /\ inst[t].phase = "open"
  /\ ctx # 0
  /\ LET i == [inst EXCEPT ![t].waits = @ \union {"reconnect"}]
     IN  IF Here.redial # "none"
         THEN inst' = i /\ UNCHANGED <<hub, ctx>>
         ELSE IF Here.conn = "disconnected"
         THEN /\ hub' = [hub EXCEPT ![ctx] = [Dialled(@) EXCEPT !.redial = "dialing"]]
              /\ inst' = Emit(i, ctx, "connecting")
              /\ UNCHANGED ctx
         ELSE /\ hub' = [hub EXCEPT ![ctx] = [Dropped(@, "disconnected") EXCEPT !.redial = "down"]]
              /\ inst' = Emit(i, ctx, "disconnected")
              /\ ctx' = IF Here.doomed THEN 0 ELSE ctx
  /\ UNCHANGED made

-----------------------------------------------------------------------------
(* The hub *)

\* The continuation of reconnect() runs before anything the network brings.
Quiet == \A g \in Hubs : hub[g].redial # "down"

Redial(g) ==
  /\ hub[g].redial = "down"
  /\ hub' = [hub EXCEPT ![g] = [Dialled(@) EXCEPT !.redial = "dialing"]]
  /\ inst' = Dials(inst, g, hub[g])
  /\ UNCHANGED <<made, ctx>>

Connected(g) ==
  /\ Quiet
  /\ hub[g].conn = "connecting"
  /\ hub' = [hub EXCEPT ![g].conn = "connected", ![g].redial = "none"]
  /\ inst' = LET i == Emit(inst, g, "connected")
             IN  IF hub[g].redial = "dialing" THEN Settled(i, g) ELSE i
  /\ UNCHANGED <<made, ctx>>

\* Mutation: a failed attempt clears the reconnect promise and never settles it.
DialFailsUnheard(g) ==
  /\ Quiet
  /\ hub[g].conn = "connecting"
  /\ hub[g].redial = "dialing"
  /\ hub' = [hub EXCEPT ![g].redial = "none"]
  /\ UNCHANGED <<inst, made, ctx>>

\* "error": the client goes on dialling, the reconnect promise rejects.
DialFails(g) ==
  /\ Quiet
  /\ hub[g].conn = "connecting"
  /\ hub[g].redial = "dialing"
  /\ hub' = [hub EXCEPT ![g].redial = "none"]
  /\ inst' = Settled(inst, g)
  /\ UNCHANGED <<made, ctx>>

\* The connection is lost and the client dials again ...
Lose(g) ==
  /\ Quiet
  /\ hub[g].conn = "connected"
  /\ hub' = [hub EXCEPT ![g].conn = "connecting", ![g].sub = Unsynced(hub[g])]
  /\ inst' = Emit(inst, g, "connecting")
  /\ UNCHANGED <<made, ctx>>

\* ... or the relay ended it, with a code after which the client does not dial.
End(g) ==
  /\ Quiet
  /\ hub[g].conn # "disconnected"
  /\ hub' = [hub EXCEPT ![g] = [Dropped(@, "disconnected") EXCEPT !.ended = TRUE]]
  /\ inst' = Emit(inst, g, "disconnected")
  /\ ctx' = IF hub[g].doomed THEN 0 ELSE ctx
  /\ UNCHANGED made

\* "subscribed": whoever listens fetches the history.
Subscribed(g, c) ==
  /\ Quiet
  /\ hub[g].conn = "connected"
  /\ hub[g].sub[c] = "subscribing"
  /\ hub' = [hub EXCEPT ![g].sub[c] = "subscribed"]
  /\ inst' = [t \in Transports |->
                IF <<g, c>> \in inst[t].hears
                THEN [inst[t] EXCEPT !.fetched = @ \union ({c} \intersect inst[t].chans)] ELSE inst[t]]
  /\ UNCHANGED <<made, ctx>>

\* setImmediate: "connected" on the instance, whatever has happened since.
Soon(t) ==
  /\ Quiet
  /\ inst[t].soon > 0
  /\ inst' = [inst EXCEPT ![t] = [Hear(@, "connected") EXCEPT !.soon = inst[t].soon - 1]]
  /\ UNCHANGED <<hub, made, ctx>>

Next ==
  \/ \E t \in Transports :
       \/ Create(t) \/ Connect(t) \/ ConnectAgain(t)
       \/ DisconnectIdle(t) \/ Disconnect(t) \/ Reconnect(t) \/ Soon(t)
       \/ \E c \in Channels : Subscribe(t, c) \/ Clear(t, c)
  \/ \E g \in Hubs :
       \/ Redial(g) \/ Connected(g) \/ DialFails(g) \/ Lose(g) \/ End(g)
       \/ \E c \in Channels : Subscribed(g, c)

Spec == Init /\ [][Next]_vars

\* Continuations and timers run; a client that dials, or is made to dial again
\* and again, connects in the end.
FairSpec ==
  /\ Spec
  /\ \A g \in Hubs : WF_vars(Redial(g)) /\ SF_vars(Connected(g))
  /\ \A t \in Transports : WF_vars(Soon(t))
  /\ \A g \in Hubs, c \in Channels : WF_vars(Subscribed(g, c))

-----------------------------------------------------------------------------
Hub == [conn : Conns, refs : Int, count : [Channels -> Nat],
        sub : [Channels -> {"none", "subscribing", "subscribed"}],
        redial : {"none", "down", "dialing"}, doomed : BOOLEAN, torn : BOOLEAN,
        ended : BOOLEAN]
Instance == [phase : {"none", "idle", "open", "closed"}, hub : 0 .. Cardinality(Transports),
             left : BOOLEAN, chans : SUBSET Channels, state : Conns, soon : 0 .. 2,
             waits : SUBSET Calls, hears : SUBSET (Hubs \X Channels), fetched : SUBSET Channels]

\* A hub went out of the map with users on it: the last user of the time before
\* had left it at the wrong moment (torn).  Those stranded there act on the hub
\* that the map has next, whose counts they are not in.
Stranded == \E g \in Hubs : g # ctx /\ hub[g].torn /\ hub[g].refs # 0

TypeOK ==
  /\ hub \in [Hubs -> Hub]
  /\ made \in 0 .. Cardinality(Transports)
  /\ ctx \in 0 .. made
  /\ inst \in [Transports -> Instance]
  /\ Stranded \/ \A g \in Hubs : hub[g].refs >= 0

Members(g)    == {t \in Transports : On(t, g)}
Holding(g, c) == {t \in Members(g) : c \in inst[t].chans}

\* A reference count (refcount, channelRefs) is the number of those who use what
\* it counts, and what nobody uses is given up: its channel unsubscribed, its
\* connection down and out of the map, unless the hub is torn: a reconnect() still
\* dials for nobody, a connection that was down stays in the map.
Exact(g) ==
  /\ hub[g].refs = Cardinality(Members(g))
  /\ Members(g) = {} /\ ~ hub[g].torn => hub[g].conn = "disconnected" /\ g # ctx
  /\ \A c \in Channels :
       /\ hub[g].count[c] = Cardinality(Holding(g, c))
       /\ Holding(g, c) = {} => hub[g].sub[c] = "none"
CountsExact == Stranded \/ \A g \in Hubs : Exact(g)

\* The underlying connection stays alive until all instances disconnect: one
\* that has not left is on the hub of the map, its channels alive there.
StaysAlive(t) ==
  inst[t].hub # 0 /\ ~ inst[t].left =>
    /\ inst[t].hub = ctx
    /\ \A c \in inst[t].chans : hub[ctx].sub[c] # "none"

\* Nobody is cut off by what others do: connection and channels stay up, and the
\* listeners of those who hold a channel stay on it (decrementChannelRef), until
\* a hub is lost with users on it.
Listens(t)   == \A c \in inst[t].chans : <<inst[t].hub, c>> \in inst[t].hears
NobodyCutOff == Stranded \/ \A t \in Transports : StaysAlive(t) /\ Listens(t)

\* What the class comment promises, without the exception.
AliveUntilAllLeave == \A t \in Transports : StaysAlive(t)

\* Nobody waits for ever: a pending call is answered, the owner gives up, or the
\* relay has ended the connection.
Settles(t, call) ==
  call \in inst[t].waits ~>
    (call \notin inst[t].waits \/ inst[t].phase = "closed" \/ hub[inst[t].hub].ended)
CallsSettle == \A t \in Transports : Settles(t, "connect") /\ Settles(t, "reconnect")

\* "Subscribes to a channel and fetches historical messages" (subscribe): a
\* transport whose channel is up has asked for its history.
HistoryFetched ==
  \A t \in Transports : \A c \in inst[t].chans :
    ctx # 0 /\ Here.sub[c] = "subscribed" => c \in inst[t].fetched

\* "Each instance tracks its own subscriptions and can disconnect independently":
\* who has given up a channel hears nothing of it.
DeafAfterLeaving ==
  \A t \in Transports : \A ear \in inst[t].hears : ear[2] \in inst[t].chans
=============================================================================
