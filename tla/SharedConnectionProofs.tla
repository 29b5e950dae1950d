----------------------- MODULE SharedConnectionProofs -----------------------
(* Proofs about SharedConnection.tla, for any finite set of transports and  *)
(* any channels.                                                            *)
EXTENDS SharedConnection, FiniteSetTheorems, TLAPS

USE TransportsAssumption

(* What the updates of a hub and of a transport give. *)
Subs  == {"none", "subscribing", "subscribed"}
Insts == [Transports -> Instance]
Ears  == SUBSET (Hubs \X Channels)

LEMMA CountType == Cardinality(Transports) \in Nat
BY FS_CardinalityType

\* Up to the connection, its subscriptions and its reconnect promise, which hub
\* it is does not change: its counts are the same, and so are the channels it has.
SameHub(h, k) ==
  /\ k.refs = h.refs /\ k.count = h.count
  /\ \A c \in Channels : k.sub[c] = "none" <=> h.sub[c] = "none"
  /\ k.torn = h.torn
  /\ k.doomed => h.doomed

LEMMA DroppedType ==
  ASSUME NEW h \in Hub, NEW conn \in Conns
  PROVE  /\ Dropped(h, conn) \in Hub
         /\ SameHub(h, Dropped(h, conn))
         /\ Dropped(h, conn).conn = conn
         /\ Dropped(h, conn).redial = h.redial
         /\ Dropped(h, conn).ended = h.ended
         /\ ~ Dropped(h, conn).doomed
<1>1. Unsynced(h) \in [Channels -> Subs]
  BY DEF Hub, Unsynced, Subs
<1>2. \A c \in Channels : Unsynced(h)[c] = "none" <=> h.sub[c] = "none"
  BY DEF Unsynced
<1> QED  BY <1>1, <1>2 DEF Dropped, SameHub, Hub, Subs

LEMMA DialledType ==
  ASSUME NEW h \in Hub
  PROVE  /\ Dialled(h) \in Hub
         /\ SameHub(h, Dialled(h))
         /\ Dialled(h).redial = h.redial
BY DEF Dialled, SameHub, Hub, Conns

LEMMA ReleasedType ==
  ASSUME NEW h \in Hub, NEW S \in SUBSET Channels
  PROVE  /\ Released(h, S) \in Hub
         /\ Released(h, S).refs = h.refs
         /\ Released(h, S).torn = h.torn
         /\ Released(h, S).doomed = h.doomed
         /\ Released(h, S).conn = h.conn
         /\ Released(h, S).redial = h.redial
         /\ \A c \in Channels :
              /\ Released(h, S).count[c] =
                   IF c \in S /\ h.count[c] > 0 THEN h.count[c] - 1 ELSE h.count[c]
              /\ Released(h, S).sub[c] =
                   IF c \in S /\ h.count[c] = 1 THEN "none" ELSE h.sub[c]
<1> DEFINE n == [c \in Channels |-> IF c \in S /\ h.count[c] > 0 THEN h.count[c] - 1 ELSE h.count[c]]
           u == [c \in Channels |-> IF c \in S /\ h.count[c] = 1 THEN "none" ELSE h.sub[c]]
<1>1. Released(h, S) = [h EXCEPT !.count = n, !.sub = u]
  BY DEF Released, Hub
<1>2. n \in [Channels -> Nat] /\ u \in [Channels -> Subs]
  BY DEF Hub, Subs
<1>3. /\ \A c \in Channels : n[c] = IF c \in S /\ h.count[c] > 0 THEN h.count[c] - 1 ELSE h.count[c]
      /\ \A c \in Channels : u[c] = IF c \in S /\ h.count[c] = 1 THEN "none" ELSE h.sub[c]
  OBVIOUS
<1> HIDE DEF n, u
<1> QED  BY <1>1, <1>2, <1>3 DEF Hub, Subs

-----------------------------------------------------------------------------
\* The same transports on the same hubs, with the same channels.
SameUsers(i, j) ==
  \A t \in Transports : /\ j[t].hub = i[t].hub /\ j[t].left = i[t].left
                        /\ j[t].chans = i[t].chans /\ j[t].phase = i[t].phase
SameEars(i, j) == \A t \in Transports : j[t].hears = i[t].hears

LEMMA HearType ==
  ASSUME NEW r \in Instance, NEW event \in Conns
  PROVE  /\ Hear(r, event) \in Instance
         /\ Hear(r, event).hub = r.hub /\ Hear(r, event).left = r.left
         /\ Hear(r, event).chans = r.chans /\ Hear(r, event).phase = r.phase
         /\ Hear(r, event).hears = r.hears /\ Hear(r, event).soon = r.soon
         /\ Hear(r, event).fetched = r.fetched
<1> DEFINE w == r.waits \ (IF event = "connected" THEN {"connect"}
                           ELSE IF event = "disconnected" THEN {"disconnect"} ELSE {})
<1>1. w \in SUBSET Calls
  BY DEF Instance
<1>2. Hear(r, event) = [r EXCEPT !.state = event, !.waits = w]
  BY DEF Hear, Instance
<1> HIDE DEF w
<1> QED  BY <1>1, <1>2 DEF Instance

LEMMA EmitType ==
  ASSUME NEW i \in Insts, NEW g \in Hubs, NEW event \in Conns
  PROVE  /\ Emit(i, g, event) \in Insts
         /\ SameUsers(i, Emit(i, g, event)) /\ SameEars(i, Emit(i, g, event))
<1>1. \A t \in Transports :
        Emit(i, g, event)[t] = IF i[t].hub = g /\ ~ i[t].left THEN Hear(i[t], event) ELSE i[t]
  BY DEF Emit
<1>2. \A t \in Transports : i[t] \in Instance
  BY DEF Insts
<1>3. \A t \in Transports : /\ Emit(i, g, event)[t] \in Instance
                            /\ Emit(i, g, event)[t] \in {i[t], Hear(i[t], event)}
  BY <1>1, <1>2, HearType
<1>4. Emit(i, g, event) \in Insts
  BY <1>3 DEF Emit, Insts
<1> QED  BY <1>2, <1>3, <1>4, HearType DEF SameUsers, SameEars

LEMMA SettledType ==
  ASSUME NEW i \in Insts, NEW g \in Hubs
  PROVE  /\ Settled(i, g) \in Insts
         /\ SameUsers(i, Settled(i, g)) /\ SameEars(i, Settled(i, g))
BY DEF Settled, Insts, Instance, SameUsers, SameEars

LEMMA DialsType ==
  ASSUME NEW i \in Insts, NEW g \in Hubs, NEW h
  PROVE  /\ Dials(i, g, h) \in Insts
         /\ SameUsers(i, Dials(i, g, h)) /\ SameEars(i, Dials(i, g, h))
BY EmitType DEF Dials, Conns, SameUsers, SameEars

LEMMA InstanceIs ==
  Instance = [phase : {"none", "idle", "open", "closed"}, hub : 0 .. Cardinality(Transports),
              left : BOOLEAN, chans : SUBSET Channels, state : Conns, soon : 0 .. 2,
              waits : SUBSET Calls, hears : Ears, fetched : SUBSET Channels]
BY DEF Instance, Ears

LEMMA EarsType ==
  ASSUME NEW r \in Instance, NEW H \in Ears, NEW F \in SUBSET Channels
  PROVE  /\ [r EXCEPT !.hears = H, !.fetched = F] \in Instance
         /\ [r EXCEPT !.hears = H, !.fetched = F].hears = H
BY InstanceIs

LEMMA DeafenedType ==
  ASSUME NEW i \in Insts, NEW S \in SUBSET Channels
  PROVE  /\ Deafened(i, S) \in Insts
         /\ SameUsers(i, Deafened(i, S))
         /\ \A t \in Transports : \A g \in Hubs : \A c \in Channels :
              <<g, c>> \in Deafened(i, S)[t].hears <=>
                <<g, c>> \in i[t].hears /\ ~ (g = ctx /\ c \in S /\ Here.count[c] = 1)
<1> DEFINE D == {<<ctx, c>> : c \in {d \in S : Here.count[d] = 1}}
<1>1. \A t \in Transports :
        Deafened(i, S)[t] = [i[t] EXCEPT !.hears = i[t].hears \ D, !.fetched = @ \intersect i[t].chans]
  BY DEF Deafened, Insts, Instance
<1>2. \A g \in Hubs : \A c \in Channels :
        <<g, c>> \in D <=> g = ctx /\ c \in S /\ Here.count[c] = 1
  OBVIOUS
<1> HIDE DEF D
<1>2a. \A t \in Transports : /\ i[t].hears \ D \in SUBSET (Hubs \X Channels)
                             /\ i[t].fetched \intersect i[t].chans \in SUBSET Channels
  <2> TAKE t \in Transports
  <2>1. i[t] \in Instance
    BY DEF Insts
  <2>2. i[t].hears \in SUBSET (Hubs \X Channels) /\ i[t].fetched \in SUBSET Channels
    BY <2>1 DEF Instance
  <2> QED  BY <2>2
<1>3. \A t \in Transports :
        /\ Deafened(i, S)[t] \in Instance
        /\ Deafened(i, S)[t].hears = i[t].hears \ D
  <2> TAKE t \in Transports
  <2> DEFINE H == i[t].hears \ D
             F == i[t].fetched \intersect i[t].chans
  <2>1. i[t] \in Instance
    BY DEF Insts
  <2>2. Deafened(i, S)[t] = [i[t] EXCEPT !.hears = H, !.fetched = F]
    BY <1>1, <2>1 DEF Instance
  <2>3. H \in Ears /\ F \in SUBSET Channels
    BY <1>2a DEF Ears
  <2> HIDE DEF H, F
  <2>4. [i[t] EXCEPT !.hears = H, !.fetched = F] \in Instance /\ [i[t] EXCEPT !.hears = H, !.fetched = F].hears = H
    BY <2>1, <2>3, EarsType
  <2> QED  BY <2>2, <2>4 DEF H
<1>4. Deafened(i, S) \in Insts
  BY <1>3 DEF Deafened, Insts
<1>5. SameUsers(i, Deafened(i, S))
  <2> SUFFICES ASSUME NEW t \in Transports
               PROVE  /\ Deafened(i, S)[t].hub = i[t].hub /\ Deafened(i, S)[t].left = i[t].left
                      /\ Deafened(i, S)[t].chans = i[t].chans
                      /\ Deafened(i, S)[t].phase = i[t].phase
    BY DEF SameUsers
  <2> DEFINE H == i[t].hears \ D
             F == i[t].fetched \intersect i[t].chans
  <2>1. i[t] \in Instance
    BY DEF Insts
  <2>2. Deafened(i, S)[t] = [i[t] EXCEPT !.hears = H, !.fetched = F]
    BY <1>1, <2>1 DEF Instance
  <2> HIDE DEF H, F
  <2> QED  BY <2>1, <2>2 DEF Instance
<1> QED  BY <1>2, <1>3, <1>4, <1>5

-----------------------------------------------------------------------------
(* The inductive invariant.  Base holds of every state; Good as long as no   *)
(* hub was lost with users on it.                                            *)
Typed ==
  /\ hub \in [Hubs -> Hub]
  /\ made \in 0 .. Cardinality(Transports)
  /\ ctx \in 0 .. made
  /\ inst \in Insts

\* A transport is on the hub it was made on, and holds nothing once it has left.
Known ==
  \A t \in Transports :
    /\ inst[t].phase = "none" => inst[t].hub = 0 /\ inst[t].chans = {} /\ ~ inst[t].left
    /\ inst[t].phase # "none" => inst[t].hub \in 1 .. made
    /\ inst[t].left => inst[t].phase = "closed" /\ inst[t].chans = {}

\* A hub was made by a transport: there are never more hubs than transports.
Peopled == \A g \in 1 .. made : \E t \in Transports : inst[t].hub = g

\* Out of the map, with users, or due to go out of it: torn.
HubSound(g) ==
  /\ g > made => hub[g] = Fresh
  /\ g # ctx /\ hub[g].refs # 0 => hub[g].torn
  /\ hub[g].doomed => hub[g].torn /\ g = ctx
  /\ \A c \in Channels : hub[g].count[c] # 0 => hub[g].sub[c] # "none"

Base == Typed /\ Known /\ Peopled /\ \A g \in Hubs : HubSound(g)

\* Nobody dials for a hub without users.
Unused(g) == Members(g) = {} /\ ~ hub[g].torn => hub[g].redial = "none"

Good ==
  /\ \A g \in Hubs : Exact(g) /\ Unused(g)
  /\ \A t \in Transports : StaysAlive(t) /\ Listens(t)

Inv == Base /\ (Stranded \/ Good)

LEMMA BaseInit == Init => Base
<1> SUFFICES ASSUME Init  PROVE Base
  OBVIOUS
<1>1. Fresh \in Hub /\ Absent \in Instance
  BY CountType DEF Fresh, Absent, Hub, Instance, Conns
<1>2. Typed
  BY <1>1, CountType DEF Init, Typed, Insts
<1>3. Known /\ Peopled
  BY DEF Init, Known, Peopled, Absent
<1>4. \A g \in Hubs : HubSound(g)
  BY DEF Init, HubSound, Fresh
<1> QED  BY <1>2, <1>3, <1>4 DEF Base

LEMMA GoodInit == Init => Good
<1> SUFFICES ASSUME Init  PROVE Good
  OBVIOUS
<1>1. \A g \in Hubs : Members(g) = {} /\ \A c \in Channels : Holding(g, c) = {}
  BY DEF Init, Members, Holding, On, Absent, Hubs
<1>2. \A g \in Hubs : Exact(g) /\ Unused(g)
  BY SMTT(30), <1>1, FS_EmptySet DEF Init, Exact, Unused, Fresh, Hubs
<1>3. \A t \in Transports : StaysAlive(t) /\ Listens(t)
  BY DEF Init, StaysAlive, Listens, Absent
<1> QED  BY <1>2, <1>3 DEF Good

-----------------------------------------------------------------------------
(* Steps that leave every count alone. *)

\* No transport comes, leaves or changes its channels; what the hubs count is the
\* same; only the hub of the map starts to dial or to be redialled, others go on;
\* one that is doomed may go out of the map.
Undisturbed ==
  /\ Typed' /\ made' = made
  /\ \A t \in Transports :
       /\ inst'[t].hub = inst[t].hub /\ inst'[t].left = inst[t].left
       /\ inst'[t].chans = inst[t].chans /\ inst'[t].hears = inst[t].hears
       /\ \/ inst'[t].phase = inst[t].phase
          \/ inst[t].phase \in {"idle", "open"} /\ inst'[t].phase \in {"open", "closed"}
  /\ \A g \in Hubs :
       /\ SameHub(hub[g], hub'[g])
       /\ hub'[g].redial # "none" => hub[g].redial # "none" \/ g = ctx
       /\ hub'[g].conn # "disconnected" =>
            hub[g].conn # "disconnected" \/ hub[g].redial # "none" \/ g = ctx
       /\ g > made => hub'[g] = hub[g]
  /\ ctx' = ctx \/ (ctx \in Hubs /\ ctx' = 0 /\ hub[ctx].doomed /\ ~ hub'[ctx].doomed)

LEMMA Held ==
  ASSUME Typed
  PROVE  /\ \A t \in Transports : inst[t] \in Instance
         /\ \A g \in Hubs : hub[g] \in Hub
         /\ ctx # 0 => ctx \in Hubs /\ Here \in Hub
         /\ made \in Nat /\ ctx \in Nat
BY CountType DEF Typed, Insts, Hubs, Here

LEMMA CallingType ==
  ASSUME Typed, NEW t \in Transports, inst[t].phase \in {"idle", "open"}
  PROVE  /\ Calling(t) \in Insts
         /\ SameEars(inst, Calling(t))
         /\ \A s \in Transports :
              /\ Calling(t)[s].hub = inst[s].hub /\ Calling(t)[s].left = inst[s].left
              /\ Calling(t)[s].chans = inst[s].chans /\ Calling(t)[s].soon = inst[s].soon
              /\ \/ Calling(t)[s].phase = inst[s].phase
                 \/ inst[s].phase \in {"idle", "open"} /\ Calling(t)[s].phase = "open"
<1>1. \A s \in Transports : inst[s] \in Instance
  BY Held
<1>2. Calling(t) = [inst EXCEPT ![t] = [inst[t] EXCEPT !.phase = "open", !.state = "connecting",
                                                       !.waits = inst[t].waits \union {"connect"}]]
  BY DEF Calling, Typed, Insts
<1>3. inst[t].waits \union {"connect"} \in SUBSET Calls
  BY <1>1 DEF Instance, Calls
<1>4. [inst[t] EXCEPT !.phase = "open", !.state = "connecting",
                      !.waits = inst[t].waits \union {"connect"}] \in Instance
  BY <1>1, <1>3 DEF Instance, Conns
<1> QED  BY <1>1, <1>2, <1>4 DEF Typed, Insts, SameEars, Instance

LEMMA SameInst == Typed => /\ SameUsers(inst, inst) /\ SameEars(inst, inst)
BY DEF SameUsers, SameEars

LEMMA HubMoves ==
  ASSUME Base, NEW g \in Hubs, NEW k \in Hub, g <= made,
         hub' = [hub EXCEPT ![g] = k], SameHub(hub[g], k),
         k.redial # "none" => hub[g].redial # "none" \/ g = ctx,
         k.conn # "disconnected" =>
           hub[g].conn # "disconnected" \/ hub[g].redial # "none" \/ g = ctx,
         made' = made, inst' \in Insts, SameEars(inst, inst'),
         \A t \in Transports :
           /\ inst'[t].hub = inst[t].hub /\ inst'[t].left = inst[t].left
           /\ inst'[t].chans = inst[t].chans
           /\ \/ inst'[t].phase = inst[t].phase
              \/ inst[t].phase \in {"idle", "open"} /\ inst'[t].phase \in {"open", "closed"},
         ctx' = ctx \/ (ctx \in Hubs /\ ctx' = 0 /\ hub[ctx].doomed /\ ~ hub'[ctx].doomed)
  PROVE  Undisturbed
<1>1. Typed'
  BY Held DEF Base, Typed, Hubs, Insts
<1>2. \A f \in Hubs : SameHub(hub[f], hub[f])
  BY DEF SameHub
<1>3. \A f \in Hubs : hub'[f] = IF f = g THEN k ELSE hub[f]
  BY DEF Base, Typed
<1>4. \A f \in Hubs :
       /\ SameHub(hub[f], hub'[f])
       /\ hub'[f].redial # "none" => hub[f].redial # "none" \/ f = ctx
       /\ hub'[f].conn # "disconnected" =>
            hub[f].conn # "disconnected" \/ hub[f].redial # "none" \/ f = ctx
       /\ f > made => hub'[f] = hub[f]
  BY <1>2, <1>3, Held DEF Base, Hubs
<1> QED  BY <1>1, <1>4 DEF Undisturbed, SameEars

LEMMA OnlyInst ==
  ASSUME Base, UNCHANGED <<hub, made, ctx>>, inst' \in Insts, SameEars(inst, inst'),
         \A t \in Transports :
           /\ inst'[t].hub = inst[t].hub /\ inst'[t].left = inst[t].left
           /\ inst'[t].chans = inst[t].chans
           /\ \/ inst'[t].phase = inst[t].phase
              \/ inst[t].phase \in {"idle", "open"} /\ inst'[t].phase \in {"open", "closed"}
  PROVE  Undisturbed
<1>1. Typed'
  BY DEF Base, Typed, Insts
<1>2. \A f \in Hubs : SameHub(hub[f], hub[f])
  BY DEF SameHub
<1> QED  BY <1>1, <1>2 DEF Undisturbed, SameEars

\* A hub that is up, or being dialled again, was made.
LEMMA UpIsMade ==
  ASSUME Base, NEW g \in Hubs
  PROVE  /\ hub[g].conn # "disconnected" => g <= made
         /\ hub[g].redial # "none" => g <= made
         /\ g = ctx => g <= made
BY Held DEF Base, HubSound, Fresh, Typed, Hubs

LEMMA ConnectQuiet ==
  ASSUME Base, NEW t \in Transports, Connect(t)
  PROVE  Undisturbed
<1>0. inst[t].phase \in {"idle", "open"}
  BY DEF Connect, MayCall
<1>1. CASE ctx = 0
  <2>1. inst' = Calling(t) /\ UNCHANGED <<hub, made, ctx>>
    BY <1>1 DEF Connect
  <2> QED  BY <1>0, <2>1, CallingType, OnlyInst DEF Base
<1>2. CASE ctx # 0 /\ Here.conn = "connected"
  <2>1. inst' = [Calling(t) EXCEPT ![t].soon = @ + 1] /\ UNCHANGED <<hub, made, ctx>>
    BY <1>2 DEF Connect
  <2>2. Calling(t)[t].soon \in 0 .. 1
    BY <1>0, CallingType, Held DEF Connect, Instance, Base
  <2> DEFINE r == [Calling(t)[t] EXCEPT !.soon = Calling(t)[t].soon + 1]
  <2>a. Calling(t) \in Insts /\ Calling(t)[t] \in Instance
    BY <1>0, CallingType DEF Base, Insts
  <2>b. r \in Instance
    BY <2>2, <2>a DEF Instance
  <2>c. inst' = [Calling(t) EXCEPT ![t] = r]
    BY <2>1
  <2>3. inst' \in Insts
    <3> HIDE DEF r
    <3> QED  BY <2>a, <2>b, <2>c DEF Insts
  <2>4. SameUsers(Calling(t), inst') /\ SameEars(Calling(t), inst')
    BY <2>1, <1>0, CallingType DEF Base, Insts, Instance, SameUsers, SameEars
  <2>5. SameEars(inst, inst')
    BY <2>4, <1>0, CallingType DEF SameEars, Base
  <2> QED  BY <1>0, <2>1, <2>3, <2>4, <2>5, CallingType, OnlyInst DEF Base, SameUsers
<1>3. CASE ctx # 0 /\ Here.conn # "connected"
  <2>1. /\ hub' = [hub EXCEPT ![ctx] = Dialled(Here)]
        /\ inst' = Dials(Calling(t), ctx, Here)
        /\ UNCHANGED <<made, ctx>>
    BY <1>3 DEF Connect, Here
  <2>2. ctx \in Hubs /\ Here \in Hub /\ ctx <= made
    BY <1>3, Held, UpIsMade DEF Base
  <2>3. /\ inst' \in Insts /\ SameUsers(Calling(t), inst') /\ SameEars(Calling(t), inst')
    BY <1>0, <2>1, <2>2, CallingType, DialsType DEF Base
  <2>4. SameEars(inst, inst')
    BY <2>3, <1>0, CallingType DEF SameEars, Base
  <2>5. \A s \in Transports :
           /\ inst'[s].hub = inst[s].hub /\ inst'[s].left = inst[s].left
           /\ inst'[s].chans = inst[s].chans
           /\ \/ inst'[s].phase = inst[s].phase
              \/ inst[s].phase \in {"idle", "open"} /\ inst'[s].phase \in {"open", "closed"}
    BY <2>3, <1>0, CallingType DEF Base, SameUsers
  <2>6. Dialled(Here) \in Hub /\ SameHub(hub[ctx], Dialled(Here)) /\ Dialled(Here).redial = hub[ctx].redial
    BY <2>2, DialledType DEF Here
  <2> QED  BY <2>1, <2>2, <2>3, <2>4, <2>5, <2>6, HubMoves
<1> QED  BY <1>1, <1>2, <1>3

LEMMA OwnerQuiet ==
  ASSUME Base, NEW t \in Transports,
         ConnectAgain(t) \/ DisconnectIdle(t) \/ Soon(t)
  PROVE  Undisturbed
<1>1. inst[t] \in Instance
  BY Held DEF Base
<1>2. CASE ConnectAgain(t) \/ DisconnectIdle(t)
  <2>1. PICK p \in {"open", "closed"} : inst' = [inst EXCEPT ![t].phase = p]
    BY <1>2 DEF ConnectAgain, DisconnectIdle
  <2>2. inst[t].phase \in {"idle", "open"} /\ UNCHANGED <<hub, made, ctx>>
    BY <1>2 DEF ConnectAgain, DisconnectIdle, MayCall
  <2> QED  BY <2>1, <2>2, OnlyInst DEF Base, Typed, Insts, Instance, SameEars
<1>3. CASE Soon(t)
  <2>1. Hear(inst[t], "connected") \in Instance /\ "connected" \in Conns
    BY <1>1, HearType DEF Conns
  <2> DEFINE r == [Hear(inst[t], "connected") EXCEPT !.soon = inst[t].soon - 1]
  <2>2. inst' = [inst EXCEPT ![t] = r] /\ UNCHANGED <<hub, made, ctx>>
    BY <1>3, <1>1, <2>1, HearType DEF Soon
  <2>3. inst[t].soon \in 1 .. 2
    BY <1>1, <1>3 DEF Soon, Instance
  <2>4. /\ r \in Instance /\ r.hub = inst[t].hub /\ r.left = inst[t].left
        /\ r.chans = inst[t].chans /\ r.phase = inst[t].phase /\ r.hears = inst[t].hears
    BY <1>1, <2>1, <2>3, HearType DEF Instance
  <2> HIDE DEF r
  <2> QED  BY <2>2, <2>4, OnlyInst DEF Base, Typed, Insts, SameEars
<1> QED  BY <1>2, <1>3

LEMMA WaitsMore ==
  ASSUME Typed, NEW t \in Transports, NEW call \in Calls
  PROVE  LET i == [inst EXCEPT ![t].waits = @ \union {call}]
         IN  i \in Insts /\ SameUsers(inst, i) /\ SameEars(inst, i)
<1>1. inst[t] \in Instance
  BY Held
<1>2. inst[t].waits \union {call} \in SUBSET Calls
  BY <1>1 DEF Instance
<1> DEFINE r == [inst[t] EXCEPT !.waits = inst[t].waits \union {call}]
<1>3. /\ r \in Instance /\ r.hub = inst[t].hub /\ r.left = inst[t].left
      /\ r.chans = inst[t].chans /\ r.phase = inst[t].phase /\ r.hears = inst[t].hears
  BY <1>1, <1>2 DEF Instance
<1>4. [inst EXCEPT ![t].waits = @ \union {call}] = [inst EXCEPT ![t] = r]
  BY DEF Typed, Insts
<1> HIDE DEF r
<1> QED  BY <1>3, <1>4 DEF Typed, Insts, SameUsers, SameEars

LEMMA ReconnectQuiet ==
  ASSUME Base, NEW t \in Transports, Reconnect(t)
  PROVE  Undisturbed
<1> DEFINE i == [inst EXCEPT ![t].waits = @ \union {"reconnect"}]
<1>1. i \in Insts /\ SameUsers(inst, i) /\ SameEars(inst, i)
  BY WaitsMore DEF Calls, Base
<1>2. ctx \in Hubs /\ Here \in Hub /\ ctx <= made /\ made' = made
  BY Held, UpIsMade DEF Base, Reconnect
<1> HIDE DEF i
<1>3. CASE Here.redial # "none"
  <2>1. inst' = i /\ UNCHANGED <<hub, ctx>>
    BY <1>3 DEF Reconnect, i
  <2> QED  BY <1>1, <1>2, <2>1, OnlyInst DEF SameUsers
<1>4. CASE Here.redial = "none" /\ Here.conn = "disconnected"
  <2> DEFINE k == [Dialled(Here) EXCEPT !.redial = "dialing"]
  <2>1. /\ hub' = [hub EXCEPT ![ctx] = k]
        /\ inst' = Emit(i, ctx, "connecting") /\ ctx' = ctx
    BY <1>4 DEF Reconnect, i, Here
  <2>2. k \in Hub /\ SameHub(hub[ctx], k)
    BY <1>2, DialledType DEF Here, Hub, SameHub
  <2>3. inst' \in Insts /\ SameUsers(i, inst') /\ SameEars(i, inst')
    BY <1>1, <1>2, <2>1, EmitType DEF Conns
  <2> HIDE DEF k
  <2> QED  BY <1>1, <1>2, <2>1, <2>2, <2>3, HubMoves DEF SameUsers, SameEars
<1>5. CASE Here.redial = "none" /\ Here.conn # "disconnected"
  <2> DEFINE k == [Dropped(Here, "disconnected") EXCEPT !.redial = "down"]
  <2>1. /\ hub' = [hub EXCEPT ![ctx] = k]
        /\ inst' = Emit(i, ctx, "disconnected") /\ ctx' = IF hub[ctx].doomed THEN 0 ELSE ctx
    BY <1>5 DEF Reconnect, i, Here
  <2>2. k \in Hub /\ SameHub(hub[ctx], k) /\ ~ k.doomed
    BY <1>2, DroppedType DEF Here, Hub, SameHub, Conns
  <2>4. hub'[ctx] = k
    BY <1>2, <2>1 DEF Base, Typed
  <2>3. inst' \in Insts /\ SameUsers(i, inst') /\ SameEars(i, inst')
    BY <1>1, <1>2, <2>1, EmitType DEF Conns
  <2> HIDE DEF k
  <2>5. ctx' = ctx \/ (ctx \in Hubs /\ ctx' = 0 /\ hub[ctx].doomed /\ ~ hub'[ctx].doomed)
    BY <1>2, <2>1, <2>2, <2>4
  <2> QED  BY ZenonT(40), <1>1, <1>2, <2>1, <2>2, <2>3, <2>5, HubMoves DEF SameUsers, SameEars
<1> QED  BY <1>3, <1>4, <1>5

LEMMA HubQuiet ==
  ASSUME Base, NEW g \in Hubs,
         \/ Redial(g) \/ Connected(g) \/ DialFails(g) \/ Lose(g) \/ End(g)
         \/ \E c \in Channels : Subscribed(g, c)
  PROVE  Undisturbed
<1>1. hub[g] \in Hub /\ inst \in Insts /\ SameUsers(inst, inst) /\ SameEars(inst, inst)
  BY Held, SameInst DEF Base, Typed
<1>2. g <= made
  BY UpIsMade DEF Redial, Connected, DialFails, Lose, End, Subscribed
<1>3. CASE Redial(g)
  <2> DEFINE k == [Dialled(hub[g]) EXCEPT !.redial = "dialing"]
  <2>1. /\ hub' = [hub EXCEPT ![g] = k] /\ inst' = Dials(inst, g, hub[g]) /\ hub[g].redial = "down"
        /\ UNCHANGED <<made, ctx>>
    BY <1>3 DEF Redial
  <2>2. k \in Hub /\ SameHub(hub[g], k)
    BY <1>1, DialledType DEF Hub, SameHub
  <2>3. inst' \in Insts /\ SameUsers(inst, inst') /\ SameEars(inst, inst')
    BY <1>1, <2>1, DialsType
  <2> HIDE DEF k
  <2> QED  BY <1>2, <2>1, <2>2, <2>3, HubMoves DEF SameUsers
<1>4. CASE Connected(g)
  <2> DEFINE k == [hub[g] EXCEPT !.conn = "connected", !.redial = "none"]
             i == Emit(inst, g, "connected")
  <2>0. hub[g].conn = "connecting"
    BY <1>4 DEF Connected
  <2>1. /\ hub' = [hub EXCEPT ![g] = k]
        /\ inst' = IF hub[g].redial = "dialing" THEN Settled(i, g) ELSE i
        /\ UNCHANGED <<made, ctx>>
    BY <1>1, <1>4 DEF Connected, Base, Typed
  <2>2. k \in Hub /\ SameHub(hub[g], k) /\ k.redial = "none"
    BY <1>1 DEF Hub, SameHub, Conns
  <2>3. i \in Insts /\ SameUsers(inst, i) /\ SameEars(inst, i)
    BY <1>1, EmitType DEF Conns
  <2> HIDE DEF i, k
  <2>4. inst' \in Insts /\ SameUsers(i, inst') /\ SameEars(i, inst')
    BY <2>1, <2>3, SettledType DEF SameUsers, SameEars
  <2> QED  BY <1>2, <2>0, <2>1, <2>2, <2>3, <2>4, HubMoves DEF SameUsers, SameEars
<1>5. CASE DialFails(g)
  <2> DEFINE k == [hub[g] EXCEPT !.redial = "none"]
  <2>1. /\ hub' = [hub EXCEPT ![g] = k] /\ inst' = Settled(inst, g)
        /\ UNCHANGED <<made, ctx>>
    BY <1>5 DEF DialFails
  <2>2. k \in Hub /\ SameHub(hub[g], k) /\ k.redial = "none" /\ k.conn = hub[g].conn
    BY <1>1 DEF Hub, SameHub
  <2>3. inst' \in Insts /\ SameUsers(inst, inst') /\ SameEars(inst, inst')
    BY <1>1, <2>1, SettledType
  <2> HIDE DEF k
  <2> QED  BY <1>2, <2>1, <2>2, <2>3, HubMoves DEF SameUsers
<1>6. CASE Lose(g)
  <2> DEFINE k == [hub[g] EXCEPT !.conn = "connecting", !.sub = Unsynced(hub[g])]
  <2>1. /\ hub' = [hub EXCEPT ![g] = k] /\ inst' = Emit(inst, g, "connecting")
        /\ hub[g].conn = "connected" /\ UNCHANGED <<made, ctx>>
    BY <1>6, <1>1 DEF Lose, Base, Typed
  <2>2. /\ Unsynced(hub[g]) \in [Channels -> Subs]
        /\ \A c \in Channels : Unsynced(hub[g])[c] = "none" <=> hub[g].sub[c] = "none"
    BY <1>1 DEF Hub, Unsynced, Subs
  <2>3. k \in Hub /\ SameHub(hub[g], k) /\ k.redial = hub[g].redial
    BY <1>1, <2>2 DEF Hub, SameHub, Conns, Subs
  <2>4. inst' \in Insts /\ SameUsers(inst, inst') /\ SameEars(inst, inst')
    BY <1>1, <2>1, EmitType DEF Conns
  <2> HIDE DEF k
  <2> QED  BY <1>2, <2>1, <2>3, <2>4, HubMoves DEF SameUsers
<1>7. CASE End(g)
  <2> DEFINE k == [Dropped(hub[g], "disconnected") EXCEPT !.ended = TRUE]
  <2>1. /\ hub' = [hub EXCEPT ![g] = k] /\ inst' = Emit(inst, g, "disconnected")
        /\ made' = made /\ ctx' = IF hub[g].doomed THEN 0 ELSE ctx
    BY <1>7 DEF End
  <2> DEFINE d == Dropped(hub[g], "disconnected")
  <2>d. /\ d \in Hub /\ SameHub(hub[g], d) /\ d.redial = hub[g].redial
        /\ d.conn = "disconnected" /\ ~ d.doomed
    BY <1>1, DroppedType DEF Conns
  <2>2. /\ k \in Hub /\ SameHub(hub[g], k) /\ k.redial = hub[g].redial
        /\ k.conn = "disconnected" /\ ~ k.doomed
    <3> HIDE DEF d
    <3>1. k = [d EXCEPT !.ended = TRUE]
      BY DEF d
    <3> QED  BY ZenonT(40), <2>d, <3>1 DEF Hub, SameHub
  <2>4. hub[g].doomed => g = ctx
    BY DEF Base, HubSound
  <2>3. inst' \in Insts /\ SameUsers(inst, inst') /\ SameEars(inst, inst')
    BY <1>1, <2>1, EmitType DEF Conns
  <2> HIDE DEF k
  <2>5. hub'[g] = k
    BY <2>1 DEF Base, Typed
  <2>6. ctx' = ctx \/ (ctx \in Hubs /\ ctx' = 0 /\ hub[ctx].doomed /\ ~ hub'[ctx].doomed)
    BY <2>1, <2>2, <2>4, <2>5
  <2> QED  BY <1>2, <2>1, <2>2, <2>3, <2>6, HubMoves DEF SameUsers
<1>8. ASSUME NEW c \in Channels, Subscribed(g, c)  PROVE Undisturbed
  <2> DEFINE k == [hub[g] EXCEPT !.sub = [hub[g].sub EXCEPT ![c] = "subscribed"]]
  <2>1. /\ hub' = [hub EXCEPT ![g] = k] /\ hub[g].sub[c] = "subscribing"
        /\ UNCHANGED <<made, ctx>>
    BY <1>8, <1>1 DEF Subscribed, Base, Typed, Hub
  <2>2. k \in Hub /\ SameHub(hub[g], k) /\ k.redial = hub[g].redial /\ k.conn = hub[g].conn
    BY <1>1, <2>1 DEF Hub, SameHub
  <2>3. inst' = [t \in Transports |->
                IF <<g, c>> \in inst[t].hears
                THEN [inst[t] EXCEPT !.fetched = @ \union ({c} \intersect inst[t].chans)] ELSE inst[t]]
    BY <1>8 DEF Subscribed
  <2>4. \A t \in Transports :
          /\ inst'[t] \in Instance /\ inst'[t].hub = inst[t].hub /\ inst'[t].left = inst[t].left
          /\ inst'[t].chans = inst[t].chans /\ inst'[t].phase = inst[t].phase
          /\ inst'[t].hears = inst[t].hears
    <3> TAKE t \in Transports
    <3>1. inst[t] \in Instance
      BY <1>1 DEF Insts
    <3>2. inst[t].fetched \union ({c} \intersect inst[t].chans) \in SUBSET Channels
      BY <3>1 DEF Instance
    <3>3. inst'[t] = inst[t] \/
          inst'[t] = [inst[t] EXCEPT !.fetched = inst[t].fetched \union ({c} \intersect inst[t].chans)]
      BY <2>3, <3>1 DEF Instance
    <3> QED  BY <3>1, <3>2, <3>3 DEF Instance
  <2>5. inst' \in Insts /\ SameUsers(inst, inst') /\ SameEars(inst, inst')
    BY <2>3, <2>4 DEF Insts, SameUsers, SameEars
  <2> HIDE DEF k
  <2> QED  BY <1>2, <2>1, <2>2, <2>5, HubMoves DEF SameUsers
<1> QED  BY <1>3, <1>4, <1>5, <1>6, <1>7, <1>8

LEMMA QuietDisconnect ==
  ASSUME Base, NEW t \in Transports, Disconnect(t), ctx = 0 \/ inst[t].left
  PROVE  Undisturbed
<1>1. ctx = 0
  BY DEF Base, Known, Disconnect
<1>2. /\ inst' = Closing(t, {}) /\ UNCHANGED <<made, ctx>>
      /\ hub' = [g \in Hubs |-> hub[g]]
  <2>1. {c \in inst[t].chans : ctx # 0 /\ Here.count[c] > 0} = {}
    BY <1>1
  <2>2. \A g \in Hubs : g # ctx
    BY <1>1 DEF Hubs
  <2> QED  BY <1>1, <2>1, <2>2 DEF Disconnect
<1>3. hub' = hub
  BY <1>2 DEF Base, Typed
<1>4. inst[t] \in Instance /\ inst[t].phase = "open"
  BY Held DEF Base, Disconnect
<1> DEFINE r == [inst[t] EXCEPT !.phase = "closed", !.chans = inst[t].chans \ {},
                                !.waits = inst[t].waits \union {"disconnect"}]
<1>5. inst[t].waits \union {"disconnect"} \in SUBSET Calls
  BY <1>4 DEF Instance, Calls
<1>6. /\ r \in Instance /\ r.hub = inst[t].hub /\ r.left = inst[t].left
      /\ r.chans = inst[t].chans /\ r.phase = "closed" /\ r.hears = inst[t].hears
  BY <1>4, <1>5 DEF Instance
<1>7. inst' = [inst EXCEPT ![t] = r]
  BY <1>2 DEF Closing, Base, Typed, Insts
<1> HIDE DEF r
<1>8. \A s \in Transports : inst'[s] = IF s = t THEN r ELSE inst[s]
  BY <1>7 DEF Base, Typed, Insts
<1>9. inst' \in Insts /\ SameEars(inst, inst')
  BY <1>6, <1>7, <1>8 DEF Base, Typed, Insts, SameEars
<1> QED  BY <1>2, <1>3, <1>4, <1>6, <1>8, <1>9, OnlyInst

LEMMA StutterQuiet == Base /\ UNCHANGED vars => Undisturbed
<1> SUFFICES ASSUME Base, UNCHANGED vars  PROVE Undisturbed
  OBVIOUS
<1>1. UNCHANGED <<hub, made, ctx>> /\ inst' = inst
  BY DEF vars
<1> QED  BY <1>1, OnlyInst DEF Base, Typed, SameEars

LEMMA BaseKept == Base /\ Undisturbed => Base'
<1> SUFFICES ASSUME Base, Undisturbed  PROVE Base'
  OBVIOUS
<1>1. Typed' /\ made' = made
  BY DEF Undisturbed
<1>2. Known'
  BY DEF Base, Known, Undisturbed
<1>3. Peopled'
  BY DEF Base, Peopled, Undisturbed
<1>4. ASSUME NEW g \in Hubs  PROVE HubSound(g)'
  <2>1. HubSound(g) /\ SameHub(hub[g], hub'[g]) /\ (g > made => hub'[g] = hub[g])
    BY DEF Base, Undisturbed
  <2>2. ctx' = ctx \/ (ctx \in Hubs /\ ctx' = 0 /\ hub[ctx].doomed /\ ~ hub'[ctx].doomed)
    BY DEF Undisturbed
  <2>3. hub[ctx].doomed /\ ctx \in Hubs => hub[ctx].torn
    BY DEF Base, HubSound
  <2>4. ctx' # ctx => g # ctx' /\ (g = ctx => hub'[g].torn /\ ~ hub'[g].doomed)
    BY <2>1, <2>2, <2>3 DEF SameHub, Hubs
  <2>5. hub'[g].doomed => hub'[g].torn /\ g = ctx'
    BY <2>1, <2>2, <2>4 DEF HubSound, SameHub
  <2>6. g # ctx' /\ hub'[g].refs # 0 => hub'[g].torn
    BY <2>1, <2>4 DEF HubSound, SameHub
  <2> QED  BY <1>1, <2>1, <2>5, <2>6 DEF HubSound, SameHub
<1> QED  BY <1>1, <1>2, <1>3, <1>4 DEF Base, Hubs

\* Who is on a hub, and holds a channel there.
LEMMA SameMembers ==
  ASSUME NEW g \in Hubs,
         \A t \in Transports : /\ inst'[t].hub = inst[t].hub /\ inst'[t].left = inst[t].left
                               /\ inst'[t].chans = inst[t].chans
  PROVE  Members(g)' = Members(g) /\ \A c \in Channels : Holding(g, c)' = Holding(g, c)
BY DEF Members, Holding, On

LEMMA Sizes ==
  ASSUME Base, NEW g \in Hubs
  PROVE  /\ IsFiniteSet(Members(g)) /\ Cardinality(Members(g)) \in Nat
         /\ Cardinality(Members(g)) = 0 <=> Members(g) = {}
         /\ \A c \in Channels :
              /\ IsFiniteSet(Holding(g, c)) /\ Cardinality(Holding(g, c)) \in Nat
              /\ Cardinality(Holding(g, c)) = 0 <=> Holding(g, c) = {}
<1>1. Members(g) \in SUBSET Transports
  BY DEF Members
<1>2. \A c \in Channels : Holding(g, c) \in SUBSET Transports
  BY DEF Holding, Members
<1>3. \A S \in SUBSET Transports :
        IsFiniteSet(S) /\ Cardinality(S) \in Nat /\ (Cardinality(S) = 0 <=> S = {})
  BY FS_Subset, FS_CardinalityType, FS_EmptySet
<1> QED  BY <1>1, <1>2, <1>3

LEMMA GoodKept == Base /\ Good /\ Undisturbed => (Stranded \/ Good)'
<1> SUFFICES ASSUME Base, Good, Undisturbed, ~ Stranded'  PROVE Good'
  OBVIOUS
<1>0. Base'
  BY BaseKept
<1>1. \A g \in Hubs : SameHub(hub[g], hub'[g])
  BY DEF Undisturbed
<1>2. \A g \in Hubs : Members(g)' = Members(g) /\ \A c \in Channels : Holding(g, c)' = Holding(g, c)
  BY SameMembers DEF Undisturbed
<1>3. ctx' # ctx => ctx \in Hubs /\ ctx' = 0 /\ hub'[ctx].torn /\ hub'[ctx].refs = 0
                    /\ Members(ctx) = {}
  <2> SUFFICES ASSUME ctx' # ctx
               PROVE ctx \in Hubs /\ ctx' = 0 /\ hub'[ctx].torn /\ hub'[ctx].refs = 0
                     /\ Members(ctx) = {}
    OBVIOUS
  <2>1. ctx \in Hubs /\ ctx' = 0 /\ hub[ctx].doomed
    BY DEF Undisturbed
  <2>2. hub'[ctx].torn
    BY <1>1, <2>1 DEF Base, HubSound, SameHub
  <2>3. hub'[ctx].refs = 0
    BY <2>1, <2>2 DEF Stranded, Hubs
  <2>4. Members(ctx) = {}
    BY <1>1, <2>1, <2>3, Sizes DEF Good, Exact, SameHub
  <2> QED  BY <2>1, <2>2, <2>3, <2>4
<1>4. ASSUME NEW g \in Hubs  PROVE Exact(g)' /\ Unused(g)'
  <2>1. Exact(g) /\ Unused(g) /\ SameHub(hub[g], hub'[g])
    BY <1>1 DEF Good
  <2>2. Members(g)' = {} /\ ~ hub'[g].torn =>
          /\ hub[g].conn = "disconnected" /\ g # ctx /\ hub[g].redial = "none"
    BY <1>2, <2>1 DEF Exact, Unused, SameHub
  <2>3. Members(g)' = {} /\ ~ hub'[g].torn =>
          /\ hub'[g].conn = "disconnected" /\ hub'[g].redial = "none" /\ g # ctx'
    BY <1>3, <2>2 DEF Undisturbed, Hubs
  <2>4. \A c \in Channels : Holding(g, c)' = {} => hub'[g].sub[c] = "none"
    BY <1>2, <2>1 DEF Exact, SameHub
  <2>5. /\ hub'[g].refs = Cardinality(Members(g)')
        /\ \A c \in Channels : hub'[g].count[c] = Cardinality(Holding(g, c)')
    BY <1>2, <2>1 DEF Exact, SameHub
  <2> QED  BY <2>3, <2>4, <2>5 DEF Exact, Unused
<1>5. ASSUME NEW t \in Transports  PROVE StaysAlive(t)' /\ Listens(t)'
  <2>1. StaysAlive(t) /\ Listens(t)
    BY DEF Good
  <2>2. /\ inst'[t].hub = inst[t].hub /\ inst'[t].left = inst[t].left
        /\ inst'[t].chans = inst[t].chans /\ inst'[t].hears = inst[t].hears
    BY DEF Undisturbed
  <2>3. Listens(t)'
    BY <2>1, <2>2 DEF Listens
  <2>4. StaysAlive(t)'
    <3> SUFFICES ASSUME inst[t].hub # 0, ~ inst[t].left
                 PROVE  /\ inst'[t].hub = ctx'
                        /\ \A c \in inst[t].chans : hub'[ctx'].sub[c] # "none"
      BY <2>2 DEF StaysAlive
    <3>1. inst[t].hub = ctx /\ \A c \in inst[t].chans : hub[ctx].sub[c] # "none"
      BY <2>1 DEF StaysAlive
    <3>2. ctx \in Hubs /\ t \in Members(ctx)
      BY <3>1, Held DEF Members, On, Base
    <3>3. ctx' = ctx
      BY <1>3, <3>2
    <3>4. inst[t].chans \subseteq Channels
      BY Held DEF Instance, Base
    <3> QED  BY <1>1, <2>2, <3>1, <3>2, <3>3, <3>4 DEF SameHub
  <2> QED  BY <2>3, <2>4
<1> QED  BY <1>4, <1>5 DEF Good, Hubs

LEMMA StrandedStays == Base /\ Stranded /\ Undisturbed => Stranded'
<1> SUFFICES ASSUME Base, Stranded, Undisturbed  PROVE Stranded'
  OBVIOUS
<1>1. PICK g \in Hubs : g # ctx /\ hub[g].torn /\ hub[g].refs # 0
  BY DEF Stranded
<1>2. hub'[g].torn /\ hub'[g].refs # 0 /\ g # ctx'
  BY <1>1 DEF Undisturbed, SameHub, Hubs
<1> QED  BY <1>2 DEF Stranded, Hubs

-----------------------------------------------------------------------------
(* A new transport. *)

\* There is room for the hub of a transport that is not made yet.
LEMMA Room ==
  ASSUME Base, NEW t \in Transports, inst[t].phase = "none"
  PROVE  made + 1 \in Hubs
<1> DEFINE U == {s \in Transports : inst[s].hub \in 1 .. made}
           f == [s \in U |-> inst[s].hub]
<1>1. made \in Nat /\ Cardinality(Transports) \in Nat
  BY Held, CountType DEF Base
<1>2. f \in Surjection(U, 1 .. made)
  BY DEF Base, Peopled, Surjection
<1>3. t \notin U
  BY <1>1 DEF Base, Known
<1>4. U \in SUBSET (Transports \ {t})
  BY <1>3
<1>5. /\ IsFiniteSet(Transports \ {t})
      /\ Cardinality(Transports \ {t}) = Cardinality(Transports) - 1
  BY FS_RemoveElement
<1>6. IsFiniteSet(U) /\ Cardinality(U) <= Cardinality(Transports) - 1 /\ Cardinality(U) \in Nat
  BY <1>4, <1>5, FS_Subset, FS_CardinalityType
<1>7. Cardinality(1 .. made) = made
  BY <1>1, FS_Interval
<1> HIDE DEF U, f
<1>8. Cardinality(1 .. made) <= Cardinality(U)
  BY <1>2, <1>6, FS_Surjection
<1> QED  BY <1>1, <1>6, <1>7, <1>8 DEF Hubs

LEMMA CreateEffect ==
  ASSUME Base, NEW t \in Transports, Create(t)
  PROVE  /\ ctx' \in Hubs /\ made' \in 0 .. Cardinality(Transports) /\ ctx' <= made'
         /\ \/ ctx # 0 /\ ctx' = ctx /\ made' = made
            \/ ctx = 0 /\ ctx' = made + 1 /\ made' = made + 1
         /\ hub' = [hub EXCEPT ![ctx'] = [hub[ctx'] EXCEPT !.refs = hub[ctx'].refs + 1]]
         /\ inst' = [inst EXCEPT ![t] = [inst[t] EXCEPT !.phase = "idle", !.hub = ctx']]
         /\ inst[t].hub = 0 /\ inst[t].chans = {} /\ ~ inst[t].left
<1>1. made + 1 \in Hubs
  BY Room DEF Create
<1>2. made \in Nat /\ (ctx # 0 => ctx \in Hubs) /\ made \in 0 .. Cardinality(Transports) /\ ctx <= made
  BY Held, CountType DEF Base, Typed
<1>3. /\ \/ ctx # 0 /\ ctx' = ctx /\ made' = made
         \/ ctx = 0 /\ ctx' = made + 1 /\ made' = made + 1
      /\ hub' = [hub EXCEPT ![ctx'].refs = @ + 1]
      /\ inst' = [inst EXCEPT ![t].phase = "idle", ![t].hub = ctx']
      /\ inst[t].phase = "none"
  BY DEF Create
<1>4. ctx' \in Hubs /\ made' \in 0 .. Cardinality(Transports) /\ ctx' <= made'
  BY <1>1, <1>2, <1>3, CountType DEF Hubs
<1>5. inst[t].hub = 0 /\ inst[t].chans = {} /\ ~ inst[t].left
  BY <1>3 DEF Base, Known
<1> QED  BY <1>3, <1>4, <1>5 DEF Base, Typed, Insts

LEMMA CreateStep ==
  ASSUME Base, NEW t \in Transports, Create(t)
  PROVE  Base' /\ (Stranded => Stranded') /\ (Good => (Stranded \/ Good)')
<1> DEFINE k == [hub[ctx'] EXCEPT !.refs = hub[ctx'].refs + 1]
           r == [inst[t] EXCEPT !.phase = "idle", !.hub = ctx']
<1>1. /\ ctx' \in Hubs /\ made' \in 0 .. Cardinality(Transports) /\ ctx' <= made'
      /\ \/ ctx # 0 /\ ctx' = ctx /\ made' = made
         \/ ctx = 0 /\ ctx' = made + 1 /\ made' = made + 1
      /\ hub' = [hub EXCEPT ![ctx'] = k] /\ inst' = [inst EXCEPT ![t] = r]
      /\ inst[t].hub = 0 /\ inst[t].chans = {} /\ ~ inst[t].left
  BY CreateEffect
<1>2. inst[t] \in Instance /\ hub[ctx'] \in Hub /\ made \in Nat /\ ctx \in Nat
  BY <1>1, Held DEF Base
<1>3. /\ k \in Hub /\ k.refs = hub[ctx'].refs + 1 /\ k.count = hub[ctx'].count
      /\ k.sub = hub[ctx'].sub /\ k.torn = hub[ctx'].torn /\ k.doomed = hub[ctx'].doomed
      /\ k.conn = hub[ctx'].conn /\ k.redial = hub[ctx'].redial
  BY <1>2 DEF Hub
<1>4. /\ r \in Instance /\ r.phase = "idle" /\ r.hub = ctx' /\ r.chans = {} /\ ~ r.left
      /\ r.hears = inst[t].hears
  <2>1. ctx' \in 0 .. Cardinality(Transports)
    BY <1>1, CountType DEF Hubs
  <2> QED  BY <1>1, <1>2, <2>1 DEF Instance
<1> HIDE DEF k, r
<1>5. \A g \in Hubs : hub'[g] = IF g = ctx' THEN k ELSE hub[g]
  BY <1>1 DEF Base, Typed
<1>6. \A s \in Transports : inst'[s] = IF s = t THEN r ELSE inst[s]
  BY <1>1 DEF Base, Typed, Insts
<1>7. Typed'
  <2>1. ctx' \in 0 .. made'
    BY <1>1, CountType DEF Hubs
  <2> QED  BY <1>1, <1>3, <1>4, <2>1 DEF Base, Typed, Insts, Hubs
<1>8. Known'
  <2> SUFFICES ASSUME NEW s \in Transports
               PROVE /\ inst'[s].phase = "none" => inst'[s].hub = 0 /\ inst'[s].chans = {} /\ ~ inst'[s].left
                     /\ inst'[s].phase # "none" => inst'[s].hub \in 1 .. made'
                     /\ inst'[s].left => inst'[s].phase = "closed" /\ inst'[s].chans = {}
    BY DEF Known
  <2>1. CASE s = t
    BY <1>1, <1>2, <1>4, <1>6, <2>1, CountType DEF Hubs
  <2>2. CASE s # t
    BY <1>1, <1>2, <1>6, <2>2 DEF Base, Known
  <2> QED  BY <2>1, <2>2
<1>9. Peopled'
  <2> SUFFICES ASSUME NEW g \in 1 .. made'  PROVE \E s \in Transports : inst'[s].hub = g
    BY DEF Peopled
  <2>1. CASE g = ctx'
    BY <1>4, <1>6, <2>1
  <2>2. CASE g # ctx'
    <3>1. g \in 1 .. made
      BY <1>1, <1>2, <2>2
    <3>2. PICK s \in Transports : inst[s].hub = g
      BY <3>1 DEF Base, Peopled
    <3>3. s # t
      BY <1>1, <3>1, <3>2
    <3> QED  BY <1>6, <3>2, <3>3
  <2> QED  BY <2>1, <2>2
<1>10. ASSUME NEW g \in Hubs  PROVE HubSound(g)'
  <2>1. HubSound(g)
    BY DEF Base
  <2>2. CASE g # ctx'
    <3>1. g # ctx /\ hub'[g] = hub[g] /\ (g > made' => g > made)
      BY <1>1, <1>2, <1>5, <2>2, CountType DEF Hubs
    <3> QED  BY <2>1, <2>2, <3>1 DEF HubSound
  <2>3. CASE g = ctx'
    <3>1. hub'[g] = k /\ ~ (g > made')
      BY <1>1, <1>2, <1>5, <2>3, CountType DEF Hubs
    <3>2. k.doomed => k.torn
      BY <1>3, <2>1, <2>3 DEF HubSound
    <3>3. \A c \in Channels : k.count[c] # 0 => k.sub[c] # "none"
      BY <1>3, <2>1, <2>3 DEF HubSound
    <3> QED  BY <2>3, <3>1, <3>2, <3>3 DEF HubSound
  <2> QED  BY <2>2, <2>3
<1>11. Base'
  BY <1>7, <1>8, <1>9, <1>10 DEF Base, Hubs
<1>12. ASSUME Stranded  PROVE Stranded'
  <2>1. PICK g \in Hubs : g # ctx /\ hub[g].torn /\ hub[g].refs # 0
    BY <1>12 DEF Stranded
  <2>2. g <= made
    BY <2>1, <1>2, CountType DEF Base, HubSound, Fresh, Hubs
  <2>3. g # ctx'
    BY <1>1, <1>2, <2>1, <2>2, CountType DEF Hubs
  <2>4. hub'[g] = hub[g]
    BY <1>5, <2>3
  <2> QED  BY <2>1, <2>3, <2>4 DEF Stranded, Hubs
<1>13. ASSUME Good  PROVE Good'
  <2>1. \A g \in Hubs : Members(g)' = IF g = ctx' THEN Members(g) \union {t} ELSE Members(g)
    BY <1>1, <1>4, <1>6, CountType DEF Members, On, Hubs
  <2>2. \A g \in Hubs : t \notin Members(g)
    BY <1>1, CountType DEF Members, On, Hubs
  <2>3. \A g \in Hubs : \A c \in Channels : Holding(g, c)' = Holding(g, c)
    BY <1>1, <1>4, <1>6, <2>1 DEF Holding
  <2>4. ASSUME NEW g \in Hubs  PROVE Exact(g)' /\ Unused(g)'
    <3>1. Exact(g) /\ Unused(g)
      BY <1>13 DEF Good
    <3>2. CASE g = ctx'
      <4>1. hub'[g] = k /\ Members(g)' = Members(g) \union {t} /\ Members(g)' # {}
        BY <1>5, <2>1, <3>2
      <4>2. Cardinality(Members(g)') = Cardinality(Members(g)) + 1
        BY <2>2, <4>1, Sizes, FS_AddElement
      <4> QED  BY <1>3, <2>3, <3>1, <3>2, <4>1, <4>2 DEF Exact, Unused
    <3>3. CASE g # ctx'
      <4>1. hub'[g] = hub[g] /\ Members(g)' = Members(g) /\ g # ctx
        BY <1>1, <1>5, <2>1, <3>3, CountType DEF Hubs
      <4> QED  BY <2>3, <3>1, <3>3, <4>1 DEF Exact, Unused
    <3> QED  BY <3>2, <3>3
  <2>5. ASSUME NEW s \in Transports  PROVE StaysAlive(s)' /\ Listens(s)'
    <3>1. CASE s = t
      <4>1. inst'[s].chans = {} /\ inst'[s].hub = ctx'
        BY <1>4, <1>6, <3>1
      <4> QED  BY <4>1 DEF StaysAlive, Listens
    <3>2. CASE s # t
      <4>1. StaysAlive(s) /\ Listens(s) /\ inst'[s] = inst[s]
        BY <1>6, <1>13, <3>2 DEF Good
      <4>2. inst[s].hub # 0 /\ ~ inst[s].left => ctx' = ctx
        BY <1>1, <4>1 DEF StaysAlive
      <4>3. hub'[ctx'].sub = hub[ctx'].sub
        BY <1>1, <1>3, <1>5
      <4> QED  BY <4>1, <4>2, <4>3 DEF StaysAlive, Listens
    <3> QED  BY <3>1, <3>2
  <2> QED  BY <2>4, <2>5 DEF Good, Hubs
<1> QED  BY <1>11, <1>12, <1>13

-----------------------------------------------------------------------------
(* Steps that change the counts of the hub in the map. *)

LEMMA BaseOneHub ==
  ASSUME Base, ctx \in Hubs, NEW k \in Hub, hub' = [hub EXCEPT ![ctx] = k], made' = made,
         ctx' = ctx \/ (ctx' = 0 /\ ~ k.doomed /\ (k.refs # 0 => k.torn)),
         k.doomed => k.torn,
         \A c \in Channels : k.count[c] # 0 => k.sub[c] # "none",
         inst' \in Insts, Known',
         \A t \in Transports : inst'[t].hub = inst[t].hub
  PROVE  Base' /\ (Stranded => Stranded')
<1>1. \A g \in Hubs : hub'[g] = IF g = ctx THEN k ELSE hub[g]
  BY DEF Base, Typed
<1>2. made \in Nat /\ ctx \in Nat /\ ctx <= made
  BY Held, UpIsMade DEF Base
<1>3. Typed'
  BY <1>2 DEF Base, Typed
<1>4. Peopled'
  BY DEF Base, Peopled
<1>5. ASSUME NEW g \in Hubs  PROVE HubSound(g)'
  <2>1. CASE g = ctx
    BY <1>1, <1>2, <2>1 DEF HubSound, Hubs
  <2>2. CASE g # ctx
    <3>1. hub'[g] = hub[g] /\ HubSound(g)
      BY <1>1, <2>2 DEF Base
    <3> QED  BY <2>2, <3>1 DEF HubSound
  <2> QED  BY <2>1, <2>2
<1>6. ASSUME Stranded  PROVE Stranded'
  <2>1. PICK g \in Hubs : g # ctx /\ hub[g].torn /\ hub[g].refs # 0
    BY <1>6 DEF Stranded
  <2>2. hub'[g] = hub[g] /\ g # ctx'
    BY <1>1, <2>1 DEF Hubs
  <2> QED  BY <2>1, <2>2 DEF Stranded, Hubs
<1> QED  BY <1>3, <1>4, <1>5, <1>6 DEF Base, Hubs

LEMMA GoodOneHub ==
  ASSUME Base, Good, NEW f \in Hubs, f = ctx, NEW k \in Hub, hub' = [hub EXCEPT ![f] = k],
         ctx' = ctx \/ ctx' = 0,
         \A s \in Transports : inst'[s].hub = inst[s].hub /\ (inst[s].left => inst'[s].left),
         Exact(f)', Unused(f)',
         \A s \in Transports : StaysAlive(s)' /\ Listens(s)'
  PROVE  Good'
<1>1. ASSUME NEW g \in Hubs, g # f  PROVE Exact(g)' /\ Unused(g)'
  <2>1. Members(g) = {}
    BY <1>1, Held DEF Good, StaysAlive, Members, On, Base, Hubs
  <2>2. Members(g)' = {}
    BY <2>1 DEF Members, On
  <2>3. \A c \in Channels : Holding(g, c) = {} /\ Holding(g, c)' = {}
    BY <2>1, <2>2 DEF Holding
  <2>4. hub'[g] = hub[g] /\ Exact(g) /\ Unused(g) /\ g # ctx'
    BY <1>1 DEF Good, Base, Typed, Hubs
  <2>5. hub'[g].refs = Cardinality(Members(g)') /\ Unused(g)'
    BY <2>1, <2>2, <2>4 DEF Exact, Unused
  <2>6. ASSUME NEW c \in Channels
        PROVE hub'[g].count[c] = Cardinality(Holding(g, c)') /\ hub'[g].sub[c] = "none"
    <3>1. Holding(g, c) = {} /\ Holding(g, c)' = {}
      BY <2>1, <2>2 DEF Holding
    <3>2. hub[g].count[c] = Cardinality(Holding(g, c)) /\ hub[g].sub[c] = "none"
      BY <2>4, <3>1 DEF Exact
    <3> QED  BY <2>4, <3>1, <3>2
  <2>7. Members(g)' = {} /\ ~ hub'[g].torn => hub'[g].conn = "disconnected" /\ g # ctx'
    BY <2>1, <2>4 DEF Exact
  <2> QED  BY <2>5, <2>6, <2>7 DEF Exact
<1>2. ASSUME NEW g \in Hubs, g = f  PROVE Exact(g)' /\ Unused(g)'
  BY <1>2 DEF Exact, Unused, Members, Holding, On
<1>3. \A g \in Hubs : Exact(g)' /\ Unused(g)'
  BY <1>1, <1>2
<1> QED  BY <1>3 DEF Good, Hubs

\* A client that acts and has not left is on the hub of the map.
LEMMA Present ==
  ASSUME Base, Good, NEW t \in Transports, inst[t].phase = "open"
  PROVE  t \in Members(ctx) /\ ctx \in Hubs
BY Held, CountType DEF Base, Known, Good, StaysAlive, Members, On, Hubs

LEMMA SubscribeStep ==
  ASSUME Base, NEW t \in Transports, NEW c \in Channels, Subscribe(t, c)
  PROVE  Base' /\ (Stranded => Stranded') /\ (Good => (Stranded \/ Good)')
<1> DEFINE k == [hub[ctx] EXCEPT !.count = [hub[ctx].count EXCEPT ![c] = hub[ctx].count[c] + 1],
                                 !.sub = [hub[ctx].sub EXCEPT ![c] =
                                   IF hub[ctx].sub[c] = "subscribed" THEN hub[ctx].sub[c] ELSE "subscribing"]]
           r == [inst[t] EXCEPT !.chans = inst[t].chans \union {c},
                                !.hears = inst[t].hears \union {<<ctx, c>>}]
<1>1. /\ inst[t].phase = "open" /\ ctx \in Hubs /\ c \notin inst[t].chans
      /\ inst[t] \in Instance /\ hub[ctx] \in Hub /\ UNCHANGED <<made, ctx>>
  BY Held DEF Subscribe, Base
<1>2. hub' = [hub EXCEPT ![ctx] = k]
  BY <1>1 DEF Subscribe, Base, Typed, Hub
<1>3. inst' = [inst EXCEPT ![t] = r]
  BY <1>1 DEF Subscribe, Base, Typed, Insts, Instance
<1>4. /\ k \in Hub /\ k.refs = hub[ctx].refs /\ k.torn = hub[ctx].torn /\ k.doomed = hub[ctx].doomed
      /\ k.conn = hub[ctx].conn /\ k.redial = hub[ctx].redial
      /\ \A d \in Channels \ {c} : k.count[d] = hub[ctx].count[d] /\ k.sub[d] = hub[ctx].sub[d]
      /\ k.count[c] = hub[ctx].count[c] + 1
      /\ k.sub[c] # "none"
  <2> DEFINE n == [hub[ctx].count EXCEPT ![c] = hub[ctx].count[c] + 1]
             u == [hub[ctx].sub EXCEPT ![c] =
                    IF hub[ctx].sub[c] = "subscribed" THEN hub[ctx].sub[c] ELSE "subscribing"]
  <2>1. hub[ctx].count \in [Channels -> Nat] /\ hub[ctx].sub \in [Channels -> Subs]
    BY <1>1 DEF Hub, Subs
  <2>2. n \in [Channels -> Nat] /\ u \in [Channels -> Subs]
    BY <2>1 DEF Subs
  <2>3. /\ \A d \in Channels \ {c} : n[d] = hub[ctx].count[d] /\ u[d] = hub[ctx].sub[d]
        /\ n[c] = hub[ctx].count[c] + 1 /\ u[c] # "none"
    BY <2>1
  <2>4. k = [hub[ctx] EXCEPT !.count = n, !.sub = u]
    OBVIOUS
  <2> HIDE DEF k, n, u
  <2> QED  BY <1>1, <2>2, <2>3, <2>4 DEF Hub, Subs
<1>5. /\ r \in Instance /\ r.hub = inst[t].hub /\ r.left = inst[t].left /\ r.phase = "open"
      /\ r.chans = inst[t].chans \union {c} /\ r.hears = inst[t].hears \union {<<ctx, c>>}
  <2> DEFINE H == inst[t].hears \union {<<ctx, c>>}
             C == inst[t].chans \union {c}
  <2>1. r = [inst[t] EXCEPT !.chans = C, !.hears = H]
    OBVIOUS
  <2>2. inst[t].hears \in SUBSET (Hubs \X Channels)
    BY <1>1 DEF Instance
  <2>3. H \in Ears
    BY <1>1, <2>2 DEF Ears
  <2>4. C \in SUBSET Channels
    BY <1>1 DEF Instance
  <2> HIDE DEF r, k, C, H
  <2>5. /\ [inst[t] EXCEPT !.chans = C, !.hears = H] \in Instance
        /\ [inst[t] EXCEPT !.chans = C, !.hears = H].hub = inst[t].hub
        /\ [inst[t] EXCEPT !.chans = C, !.hears = H].left = inst[t].left
        /\ [inst[t] EXCEPT !.chans = C, !.hears = H].phase = inst[t].phase
        /\ [inst[t] EXCEPT !.chans = C, !.hears = H].chans = C
        /\ [inst[t] EXCEPT !.chans = C, !.hears = H].hears = H
    BY <1>1, <2>3, <2>4, InstanceIs
  <2> QED  BY <1>1, <2>1, <2>5 DEF C, H
<1> HIDE DEF k, r
<1>6. \A s \in Transports : inst'[s] = IF s = t THEN r ELSE inst[s]
  BY <1>3 DEF Base, Typed, Insts
<1>7. inst' \in Insts /\ \A s \in Transports : inst'[s].hub = inst[s].hub /\ inst'[s].left = inst[s].left
  BY <1>3, <1>5, <1>6 DEF Base, Typed, Insts
<1>8. Known'
  BY <1>1, <1>5, <1>6 DEF Base, Known
<1>9. HubSound(ctx)
  BY <1>1 DEF Base
<1>10. \A d \in Channels : k.count[d] # 0 => k.sub[d] # "none"
  BY <1>4, <1>9 DEF HubSound
<1>11. Base' /\ (Stranded => Stranded')
  <2>1. k.doomed => k.torn
    BY <1>4, <1>9 DEF HubSound
  <2> QED  BY <1>1, <1>2, <1>4, <1>7, <1>8, <1>10, <2>1, BaseOneHub
<1>12. ASSUME Good  PROVE Good'
  <2>1. t \in Members(ctx) /\ Exact(ctx) /\ Unused(ctx)
    BY <1>1, <1>12, Present DEF Good
  <2>2. Members(ctx)' = Members(ctx)
    BY <1>1, <1>7 DEF Members, On
  <2>3. \A d \in Channels : Holding(ctx, d)' = IF d = c THEN Holding(ctx, d) \union {t} ELSE Holding(ctx, d)
    <3> TAKE d \in Channels
    <3>1. \A s \in Members(ctx) : s \in Transports
      BY DEF Members
    <3>2. \A s \in Members(ctx) : d \in inst'[s].chans <=> d \in inst[s].chans \/ (s = t /\ d = c)
      BY <1>5, <1>6, <3>1
    <3>3. Holding(ctx, d)' = {s \in Members(ctx) : d \in inst'[s].chans}
      BY <1>1, <2>2 DEF Holding
    <3> QED  BY <2>1, <3>2, <3>3 DEF Holding
  <2>4. t \notin Holding(ctx, c)
    BY <1>1 DEF Holding
  <2>5. Cardinality(Holding(ctx, c)') = Cardinality(Holding(ctx, c)) + 1
    BY <1>1, <2>3, <2>4, Sizes, FS_AddElement
  <2>6. hub'[ctx] = k
    BY <1>1, <1>2 DEF Base, Typed
  <2>7. Exact(ctx)'
    BY <1>1, <1>4, <2>1, <2>2, <2>3, <2>5, <2>6 DEF Exact
  <2>8. Unused(ctx)'
    BY <1>1, <2>1, <2>2 DEF Unused
  <2>9. ASSUME NEW s \in Transports  PROVE StaysAlive(s)' /\ Listens(s)'
    <3>1. StaysAlive(s) /\ Listens(s)
      BY <1>12 DEF Good
    <3>2. inst[t].hub = ctx
      BY <2>1 DEF Members, On
    <3>3. inst'[s].chans = IF s = t THEN inst[s].chans \union {c} ELSE inst[s].chans
      BY <1>5, <1>6
    <3>4. inst'[s].hears = IF s = t THEN inst[s].hears \union {<<ctx, c>>} ELSE inst[s].hears
      BY <1>5, <1>6
    <3>5. Listens(s)'
      BY <1>7, <3>1, <3>2, <3>3, <3>4 DEF Listens
    <3>6. \A d \in Channels : hub[ctx].sub[d] # "none" => hub'[ctx].sub[d] # "none"
      BY <1>4, <2>6
    <3>7. inst[s].chans \subseteq Channels
      BY Held DEF Base, Instance
    <3>8. hub'[ctx].sub[c] # "none"
      BY <1>4, <2>6
    <3>9. StaysAlive(s)'
      BY <1>1, <1>7, <3>1, <3>3, <3>6, <3>7, <3>8 DEF StaysAlive
    <3> QED  BY <3>5, <3>9
  <2> QED  BY <1>1, <1>2, <1>4, <1>7, <1>12, <2>7, <2>8, <2>9, GoodOneHub
<1> QED  BY <1>11, <1>12

-----------------------------------------------------------------------------
(* A transport gives up channels. *)

\* What the hub of the map counts once t, that is on it, has given up S.
Rest(t, S, c) == IF c \in S THEN Holding(ctx, c) \ {t} ELSE Holding(ctx, c)

LEMMA ReleasedExact ==
  ASSUME Base, Good, ctx \in Hubs, NEW t \in Members(ctx), NEW S \in SUBSET inst[t].chans,
         NEW c \in Channels
  PROVE  /\ Released(Here, S).count[c] = Cardinality(Rest(t, S, c))
         /\ Rest(t, S, c) = {} => Released(Here, S).sub[c] = "none"
         /\ Rest(t, S, c) # {} => Released(Here, S).sub[c] = Here.sub[c]
         /\ c \in S /\ Here.count[c] = 1 => Holding(ctx, c) = {t}
<1>1. inst[t].chans \subseteq Channels /\ Here \in Hub /\ Here = hub[ctx]
  BY Held DEF Base, Instance, Members, Here, Hubs
<1>2. /\ Released(Here, S).count[c] =
           IF c \in S /\ Here.count[c] > 0 THEN Here.count[c] - 1 ELSE Here.count[c]
      /\ Released(Here, S).sub[c] = IF c \in S /\ Here.count[c] = 1 THEN "none" ELSE Here.sub[c]
  BY <1>1, ReleasedType
<1>3. /\ Here.count[c] = Cardinality(Holding(ctx, c))
      /\ Holding(ctx, c) = {} => Here.sub[c] = "none"
  BY <1>1 DEF Good, Exact
<1>4. /\ IsFiniteSet(Holding(ctx, c)) /\ Cardinality(Holding(ctx, c)) \in Nat
      /\ Cardinality(Holding(ctx, c)) = 0 <=> Holding(ctx, c) = {}
  BY Sizes
<1>5. CASE c \notin S
  BY <1>2, <1>3, <1>4, <1>5 DEF Rest
<1>6. CASE c \in S
  <2>1. t \in Holding(ctx, c)
    BY <1>6 DEF Holding
  <2>2. /\ IsFiniteSet(Holding(ctx, c) \ {t})
        /\ Cardinality(Holding(ctx, c) \ {t}) = Cardinality(Holding(ctx, c)) - 1
    BY <1>4, <2>1, FS_RemoveElement
  <2>3. Cardinality(Holding(ctx, c) \ {t}) = 0 <=> Holding(ctx, c) \ {t} = {}
    BY <2>2, FS_EmptySet
  <2>4. Here.count[c] > 0
    BY <1>3, <1>4, <2>1
  <2>5. Here.count[c] = 1 <=> Holding(ctx, c) \ {t} = {}
    BY <1>3, <1>4, <2>2, <2>3
  <2> QED  BY <1>2, <1>3, <1>6, <2>1, <2>2, <2>4, <2>5 DEF Rest
<1> QED  BY <1>5, <1>6

\* The others who hold a channel still hear it.
LEMMA OthersListen ==
  ASSUME Base, Good, ctx \in Hubs, NEW t \in Members(ctx), NEW S \in SUBSET inst[t].chans,
         NEW i \in Insts, \A s \in Transports : i[s].hears = inst[s].hears,
         NEW s \in Transports, NEW c \in inst[s].chans, c \in S => s # t
  PROVE  /\ <<inst[s].hub, c>> \in Deafened(i, S)[s].hears
         /\ s \in Members(ctx) /\ s \in Rest(t, S, c)
<1>1. inst[t].chans \subseteq Channels /\ c \in Channels
  BY Held DEF Base, Instance, Members
<1>2. inst[s].hub \in Hubs /\ ~ inst[s].left
  <2>1. inst[s].phase # "none" /\ ~ inst[s].left /\ inst[s].hub \in 1 .. made
    BY DEF Base, Known
  <2>2. made \in Nat /\ made <= Cardinality(Transports)
    BY CountType DEF Base, Typed
  <2> QED  BY <2>1, <2>2, CountType DEF Hubs
<1>3. inst[s].hub = ctx /\ <<inst[s].hub, c>> \in inst[s].hears
  BY <1>2, CountType DEF Good, StaysAlive, Listens, Hubs
<1>4. s \in Members(ctx) /\ s \in Holding(ctx, c) /\ s \in Rest(t, S, c)
  BY <1>2, <1>3 DEF Members, On, Holding, Rest
<1>5. ~ (c \in S /\ Here.count[c] = 1)
  BY <1>1, <1>4, ReleasedExact
<1>6. S \in SUBSET Channels
  BY <1>1
<1> QED  BY <1>1, <1>2, <1>3, <1>4, <1>5, <1>6, DeafenedType

LEMMA ReleasedAlive ==
  ASSUME NEW h \in Hub, NEW S \in SUBSET Channels,
         \A c \in Channels : h.count[c] # 0 => h.sub[c] # "none"
  PROVE  \A c \in Channels : Released(h, S).count[c] # 0 => Released(h, S).sub[c] # "none"
<1>1. \A c \in Channels : h.count[c] \in Nat
  BY DEF Hub
<1> QED  BY <1>1, ReleasedType

LEMMA ClearStep ==
  ASSUME Base, NEW t \in Transports, NEW c \in Channels, Clear(t, c)
  PROVE  Base' /\ (Stranded => Stranded') /\ (Good => (Stranded \/ Good)')
<1> DEFINE k == Released(Here, {c})
           i == [inst EXCEPT ![t].chans = @ \ {c}]
<1>1. /\ inst[t].phase = "open" /\ ctx \in Hubs /\ c \in inst[t].chans
      /\ inst[t] \in Instance /\ Here \in Hub /\ Here = hub[ctx] /\ UNCHANGED <<made, ctx>>
  BY Held DEF Clear, Base, Here
<1>2. hub' = [hub EXCEPT ![ctx] = k] /\ inst' = Deafened(i, {c})
  BY DEF Clear, Here
<1>3. /\ i \in Insts /\ SameEars(inst, i)
      /\ \A s \in Transports : /\ i[s].hub = inst[s].hub /\ i[s].left = inst[s].left
                               /\ i[s].phase = inst[s].phase
                               /\ i[s].chans = IF s = t THEN inst[s].chans \ {c} ELSE inst[s].chans
  <2> DEFINE r == [inst[t] EXCEPT !.chans = inst[t].chans \ {c}]
  <2>1. /\ r \in Instance /\ r.hub = inst[t].hub /\ r.left = inst[t].left
        /\ r.phase = inst[t].phase /\ r.hears = inst[t].hears /\ r.chans = inst[t].chans \ {c}
    BY <1>1 DEF Instance
  <2>2. i = [inst EXCEPT ![t] = r]
    BY DEF Base, Typed, Insts
  <2> HIDE DEF r, i
  <2> QED  BY <2>1, <2>2 DEF Base, Typed, Insts, SameEars
<1>4. /\ k \in Hub /\ k.refs = Here.refs /\ k.torn = Here.torn /\ k.doomed = Here.doomed
      /\ k.conn = Here.conn /\ k.redial = Here.redial
  BY <1>1, ReleasedType
<1>5. HubSound(ctx)
  BY <1>1 DEF Base
<1>6. \A d \in Channels : k.count[d] # 0 => k.sub[d] # "none"
  BY <1>1, <1>5, ReleasedAlive DEF HubSound
<1> HIDE DEF i
<1>7. /\ inst' \in Insts
      /\ \A s \in Transports : /\ inst'[s].hub = inst[s].hub /\ inst'[s].left = inst[s].left
                               /\ inst'[s].phase = inst[s].phase
                               /\ inst'[s].chans = IF s = t THEN inst[s].chans \ {c} ELSE inst[s].chans
  <2>1. Deafened(i, {c}) \in Insts /\ SameUsers(i, Deafened(i, {c}))
    BY <1>3, DeafenedType
  <2> QED  BY <1>2, <1>3, <2>1 DEF SameUsers
<1> HIDE DEF k
<1>8. Known'
  BY <1>1, <1>7 DEF Base, Known
<1>9. Base' /\ (Stranded => Stranded')
  <2>1. k.doomed => k.torn
    BY <1>1, <1>4, <1>5 DEF HubSound
  <2> QED  BY <1>1, <1>2, <1>4, <1>6, <1>7, <1>8, <2>1, BaseOneHub
<1>10. ASSUME Good  PROVE Good'
  <2>1. t \in Members(ctx) /\ Exact(ctx) /\ Unused(ctx)
    BY <1>1, <1>10, Present DEF Good
  <2>2. Members(ctx)' = Members(ctx)
    BY <1>1, <1>7 DEF Members, On
  <2>3. \A d \in Channels : Holding(ctx, d)' = Rest(t, {c}, d)
    <3> TAKE d \in Channels
    <3>1. Holding(ctx, d)' = {s \in Members(ctx) : d \in inst'[s].chans}
      BY <1>1, <2>2 DEF Holding
    <3>2. \A s \in Members(ctx) : d \in inst'[s].chans <=> d \in inst[s].chans /\ ~ (s = t /\ d = c)
      BY <1>7 DEF Members
    <3> QED  BY <2>1, <3>1, <3>2 DEF Holding, Rest
  <2>4. hub'[ctx] = k
    BY <1>1, <1>2 DEF Base, Typed
  <2>5. {c} \in SUBSET inst[t].chans
    BY <1>1
  <2>6. \A d \in Channels :
          /\ k.count[d] = Cardinality(Rest(t, {c}, d))
          /\ Rest(t, {c}, d) = {} => k.sub[d] = "none"
          /\ Rest(t, {c}, d) # {} => k.sub[d] = Here.sub[d]
    BY <1>1, <1>10, <2>1, <2>5, ReleasedExact DEF k
  <2>7. Exact(ctx)' /\ Unused(ctx)'
    BY <1>1, <1>4, <2>1, <2>2, <2>3, <2>4, <2>6 DEF Exact, Unused
  <2>8. ASSUME NEW s \in Transports  PROVE StaysAlive(s)' /\ Listens(s)'
    <3>1. ASSUME NEW d \in inst'[s].chans
          PROVE /\ <<inst'[s].hub, d>> \in inst'[s].hears
                /\ inst[s].hub = ctx => hub'[ctx].sub[d] # "none"
      <4>1. d \in inst[s].chans /\ (d \in {c} => s # t) /\ d \in Channels
        BY <1>7, <3>1, Held DEF Base, Instance
      <4>2. \A u \in Transports : i[u].hears = inst[u].hears
        BY <1>3 DEF SameEars
      <4>3. /\ <<inst[s].hub, d>> \in Deafened(i, {c})[s].hears
            /\ s \in Members(ctx) /\ s \in Rest(t, {c}, d)
        BY <1>1, <1>3, <1>10, <2>1, <2>5, <4>1, <4>2, OthersListen
      <4>4. StaysAlive(s)
        BY <1>10 DEF Good
      <4>5. inst[s].hub = ctx => Here.sub[d] # "none"
        BY <1>1, <4>1, <4>3, <4>4 DEF StaysAlive, Members, On, Hubs
      <4> QED  BY <1>2, <1>7, <2>4, <2>6, <4>1, <4>3, <4>5
    <3>2. StaysAlive(s)
      BY <1>10 DEF Good
    <3> QED  BY <1>1, <1>7, <3>1, <3>2 DEF StaysAlive, Listens
  <2> QED  BY <1>1, <1>2, <1>4, <1>7, <1>10, <2>7, <2>8, GoodOneHub
<1> QED  BY <1>9, <1>10

\* What a transport and the hub become when it leaves.
LEMMA ClosingType ==
  ASSUME Base, NEW t \in Transports
  PROVE  LET i == [Closing(t, inst[t].chans) EXCEPT
                     ![t] = [Hear(@, "disconnected") EXCEPT !.left = TRUE]]
         IN  /\ i \in Insts /\ SameEars(inst, i)
             /\ i[t].left /\ i[t].chans = {} /\ i[t].phase = "closed" /\ i[t].hub = inst[t].hub
             /\ \A s \in Transports \ {t} : i[s] = inst[s]
<1> DEFINE q == [inst[t] EXCEPT !.phase = "closed", !.chans = {},
                                !.waits = inst[t].waits \union {"disconnect"}]
           r == [Hear(q, "disconnected") EXCEPT !.left = TRUE]
<1>1. inst[t] \in Instance
  BY Held DEF Base
<1>2. inst[t].waits \union {"disconnect"} \in SUBSET Calls
  BY <1>1 DEF Instance, Calls
<1>3. /\ q \in Instance /\ q.hub = inst[t].hub /\ q.hears = inst[t].hears
      /\ q.phase = "closed" /\ q.chans = {}
  BY <1>1, <1>2 DEF Instance
<1>4. inst[t].chans \ inst[t].chans = {}
  OBVIOUS
<1>5. Closing(t, inst[t].chans) = [inst EXCEPT ![t] = q]
  BY <1>1, <1>4 DEF Closing, Base, Typed, Insts, Instance
<1> HIDE DEF q
<1>6. /\ Hear(q, "disconnected") \in Instance
      /\ Hear(q, "disconnected").hub = q.hub /\ Hear(q, "disconnected").chans = q.chans
      /\ Hear(q, "disconnected").phase = q.phase /\ Hear(q, "disconnected").hears = q.hears
  BY <1>3, HearType DEF Conns
<1>7. /\ r \in Instance /\ r.left /\ r.chans = {} /\ r.phase = "closed" /\ r.hub = inst[t].hub
      /\ r.hears = inst[t].hears
  BY <1>3, <1>6 DEF Instance
<1>8. [Closing(t, inst[t].chans) EXCEPT
         ![t] = [Hear(@, "disconnected") EXCEPT !.left = TRUE]] = [inst EXCEPT ![t] = r]
  BY <1>5 DEF Base, Typed, Insts
<1> HIDE DEF r
<1> QED  BY <1>7, <1>8 DEF Base, Typed, Insts, SameEars

\* The three ways to leave: others stay; the connection is down already; it ends.
Stays(h, k) ==
  /\ k.refs # 0 /\ ctx' = ctx /\ k.torn = h.torn /\ k.doomed = h.doomed
  /\ k.conn = h.conn /\ k.redial = h.redial
Lingers(k) == k.refs = 0 /\ ctx' = ctx /\ k.torn
Ends(k) ==
  /\ k.refs = 0 /\ ctx' = 0 /\ ~ k.doomed /\ k.conn = "disconnected"
  /\ ~ k.torn => k.redial = "none"

LEMMA LeaveEffect ==
  ASSUME Base, NEW t \in Transports, ctx \in Hubs, Leave(t)
  PROVE  \E k \in Hub : \E i \in Insts :
           /\ hub' = [hub EXCEPT ![ctx] = k]
           /\ k.refs = Here.refs - 1
           /\ \A c \in Channels : /\ k.count[c] = Released(Here, inst[t].chans).count[c]
                                  /\ k.sub[c] = "none" <=> Released(Here, inst[t].chans).sub[c] = "none"
           /\ Stays(Here, k) \/ Lingers(k) \/ Ends(k)
           /\ SameEars(inst, i)
           /\ i[t].left /\ i[t].chans = {} /\ i[t].phase = "closed" /\ i[t].hub = inst[t].hub
           /\ \A s \in Transports \ {t} : i[s] = inst[s]
           /\ inst' \in Insts
           /\ SameUsers(i, inst') /\ SameEars(Deafened(i, inst[t].chans), inst')
<1> DEFINE S == inst[t].chans
           d == Released(Here, S)
           h == [d EXCEPT !.refs = d.refs - 1]
           i == [Closing(t, S) EXCEPT ![t] = [Hear(@, "disconnected") EXCEPT !.left = TRUE]]
           j == Deafened(i, S)
<1>1. S \in SUBSET Channels /\ Here \in Hub
  <2>1. S \in SUBSET Channels
    BY Held DEF Base, Instance
  <2>2. Here \in Hub
    BY Held DEF Base, Hubs
  <2> QED  BY <2>1, <2>2
<1>2. d \in Hub /\ d.refs = Here.refs /\ d.torn = Here.torn /\ d.doomed = Here.doomed
      /\ d.conn = Here.conn /\ d.redial = Here.redial
  BY <1>1, ReleasedType
<1>3. i \in Insts /\ SameEars(inst, i) /\ i[t].left /\ i[t].chans = {} /\ i[t].phase = "closed"
      /\ i[t].hub = inst[t].hub /\ \A s \in Transports \ {t} : i[s] = inst[s]
  BY ClosingType
<1>4. j \in Insts /\ SameUsers(i, j)
  <2> HIDE DEF i
  <2> QED  BY <1>1, <1>3, DeafenedType
<1>5. IF h.refs # 0
      THEN hub' = [hub EXCEPT ![ctx] = h] /\ inst' = j /\ ctx' = ctx
      ELSE IF h.conn = "disconnected"
      THEN hub' = [hub EXCEPT ![ctx] = [h EXCEPT !.doomed = TRUE, !.torn = TRUE]] /\ inst' = j /\ ctx' = ctx
      ELSE /\ hub' = [hub EXCEPT ![ctx] =
                        [Dropped(h, "disconnected") EXCEPT !.torn = h.redial # "none"]]
           /\ inst' = Emit(j, ctx, "disconnected")
           /\ ctx' = 0
  BY DEF Leave
<1> HIDE DEF i, d
<1>6. /\ h \in Hub /\ h.refs = Here.refs - 1 /\ h.count = d.count /\ h.sub = d.sub
      /\ h.torn = Here.torn /\ h.doomed = Here.doomed /\ h.conn = Here.conn /\ h.redial = Here.redial
  BY <1>2 DEF Hub
<1> HIDE DEF h, j
<1>7. SameUsers(j, j) /\ SameEars(j, j)
  BY DEF SameUsers, SameEars
<1>8. CASE h.refs # 0
  <2>1. hub' = [hub EXCEPT ![ctx] = h] /\ inst' = j /\ Stays(Here, h)
    BY <1>5, <1>6, <1>8 DEF Stays
  <2> QED  BY <1>3, <1>4, <1>6, <1>7, <2>1 DEF d, j, S
<1>9. CASE h.refs = 0 /\ h.conn = "disconnected"
  <2> DEFINE k == [h EXCEPT !.doomed = TRUE, !.torn = TRUE]
  <2>1. hub' = [hub EXCEPT ![ctx] = k] /\ inst' = j /\ ctx' = ctx
    BY <1>5, <1>9
  <2>2. k \in Hub /\ k.refs = h.refs /\ k.count = h.count /\ k.sub = h.sub /\ k.torn
    BY <1>6 DEF Hub
  <2> HIDE DEF k
  <2>3. Lingers(k)
    BY <1>9, <2>1, <2>2 DEF Lingers
  <2> QED  BY <1>3, <1>4, <1>6, <1>7, <2>1, <2>2, <2>3 DEF d, j, S
<1>10. CASE h.refs = 0 /\ h.conn # "disconnected"
  <2> DEFINE e == Dropped(h, "disconnected")
             k == [e EXCEPT !.torn = h.redial # "none"]
  <2>1. hub' = [hub EXCEPT ![ctx] = k] /\ inst' = Emit(j, ctx, "disconnected") /\ ctx' = 0
    BY <1>5, <1>10
  <2>2. e \in Hub /\ SameHub(h, e) /\ e.conn = "disconnected" /\ e.redial = h.redial /\ ~ e.doomed
    BY <1>6, DroppedType DEF Conns
  <2> HIDE DEF e
  <2>3. /\ k \in Hub /\ k.refs = h.refs /\ k.count = h.count /\ k.conn = "disconnected"
        /\ ~ k.doomed /\ (~ k.torn => k.redial = "none") /\ k.sub = e.sub
    BY <2>2 DEF Hub, SameHub
  <2>4. \A c \in Channels : k.sub[c] = "none" <=> d.sub[c] = "none"
    BY <1>6, <2>2, <2>3 DEF SameHub
  <2> HIDE DEF k
  <2>5. Ends(k)
    BY <1>10, <2>1, <2>3 DEF Ends
  <2>6. inst' \in Insts /\ SameUsers(j, inst') /\ SameEars(j, inst')
    BY <1>4, <2>1, EmitType DEF Conns
  <2>7. SameUsers(i, inst')
    BY <1>4, <2>6 DEF SameUsers
  <2> QED  BY <1>3, <1>6, <2>1, <2>3, <2>4, <2>5, <2>6, <2>7 DEF d, j, S
<1> QED  BY <1>8, <1>9, <1>10

LEMMA LeaveStep ==
  ASSUME Base, NEW t \in Transports, inst[t].phase = "open", ctx \in Hubs, Leave(t), made' = made
  PROVE  Base' /\ (Stranded => Stranded') /\ (Good => (Stranded \/ Good)')
<1> DEFINE S == inst[t].chans
<1>1. PICK k \in Hub, i \in Insts :
           /\ hub' = [hub EXCEPT ![ctx] = k]
           /\ k.refs = Here.refs - 1
           /\ \A c \in Channels : /\ k.count[c] = Released(Here, S).count[c]
                                  /\ k.sub[c] = "none" <=> Released(Here, S).sub[c] = "none"
           /\ Stays(Here, k) \/ Lingers(k) \/ Ends(k)
           /\ SameEars(inst, i)
           /\ i[t].left /\ i[t].chans = {} /\ i[t].phase = "closed" /\ i[t].hub = inst[t].hub
           /\ \A s \in Transports \ {t} : i[s] = inst[s]
           /\ inst' \in Insts
           /\ SameUsers(i, inst') /\ SameEars(Deafened(i, S), inst')
  BY LeaveEffect
<1> HIDE DEF S
<1>2. Here \in Hub /\ Here = hub[ctx] /\ S \in SUBSET Channels
  <2>1. S \in SUBSET Channels
    BY Held DEF Base, Instance, S
  <2>2. Here \in Hub /\ Here = hub[ctx]
    BY Held DEF Base, Hubs, Here
  <2> QED  BY <2>1, <2>2
<1>3. HubSound(ctx)
  BY DEF Base
<1>4. /\ inst'[t].left /\ inst'[t].chans = {} /\ inst'[t].phase = "closed"
      /\ \A s \in Transports : inst'[s].hub = inst[s].hub
      /\ \A s \in Transports \ {t} : /\ inst'[s].left = inst[s].left /\ inst'[s].chans = inst[s].chans
                                     /\ inst'[s].phase = inst[s].phase
  BY <1>1 DEF SameUsers
<1>5. Known'
  BY <1>4 DEF Base, Known
<1>6. \A c \in Channels : k.count[c] # 0 => k.sub[c] # "none"
  BY <1>1, <1>2, <1>3, ReleasedAlive DEF HubSound
<1>7. k.doomed => k.torn
  BY <1>1, <1>2, <1>3 DEF Stays, Lingers, Ends, HubSound
<1>8. ctx' = ctx \/ (ctx' = 0 /\ ~ k.doomed /\ (k.refs # 0 => k.torn))
  BY <1>1 DEF Stays, Lingers, Ends
<1>9. Base' /\ (Stranded => Stranded')
  BY <1>1, <1>4, <1>5, <1>6, <1>7, <1>8, BaseOneHub
<1>10. ASSUME Good  PROVE Good'
  <2>0. PICK f \in Hubs : f = ctx
    OBVIOUS
  <2>1. t \in Members(f) /\ Exact(f) /\ Unused(f)
    BY <1>10, <2>0, Present DEF Good
  <2>2. Members(f)' = Members(f) \ {t}
    BY <1>4, <2>0, <2>1 DEF Members, On
  <2>3. \A d \in Channels : Holding(f, d)' = Rest(t, S, d)
    <3> TAKE d \in Channels
    <3>1. Holding(f, d)' = {s \in Members(f) \ {t} : d \in inst'[s].chans}
      BY <2>2 DEF Holding
    <3>2. \A s \in Members(f) \ {t} : d \in inst'[s].chans <=> d \in inst[s].chans
      BY <1>4 DEF Members
    <3>3. d \notin S => t \notin Holding(ctx, d)
      BY DEF Holding, S
    <3> QED  BY <2>0, <3>1, <3>2, <3>3 DEF Holding, Rest
  <2>4. hub'[f] = k
    BY <1>1, <2>0 DEF Base, Typed
  <2>5. S \in SUBSET inst[t].chans
    BY DEF S
  <2>6. \A d \in Channels :
          /\ k.count[d] = Cardinality(Rest(t, S, d))
          /\ Rest(t, S, d) = {} => k.sub[d] = "none"
          /\ Rest(t, S, d) # {} => (k.sub[d] = "none" <=> Here.sub[d] = "none")
    BY <1>1, <1>10, <2>0, <2>1, <2>5, ReleasedExact
  <2>7. k.refs = Cardinality(Members(f)') /\ (k.refs = 0 => Members(f)' = {})
    <3>1. IsFiniteSet(Members(f)) /\ Here.refs = Cardinality(Members(f))
      BY <1>2, <2>0, <2>1, Sizes DEF Exact
    <3>2. IsFiniteSet(Members(f) \ {t}) /\ Cardinality(Members(f) \ {t}) = Cardinality(Members(f)) - 1
      BY <2>1, <3>1, FS_RemoveElement
    <3> QED  BY <1>1, <2>2, <3>1, <3>2, FS_EmptySet
  <2>8. Members(f)' = {} => k.refs = 0
    BY <2>7, FS_EmptySet
  <2>9. Members(f)' = {} /\ ~ k.torn => k.conn = "disconnected" /\ f # ctx' /\ k.redial = "none"
    BY <1>1, <2>0, <2>8 DEF Stays, Lingers, Ends, Hubs
  <2>10. Exact(f)' /\ Unused(f)'
    BY <2>3, <2>4, <2>6, <2>7, <2>9 DEF Exact, Unused
  <2>11. ASSUME NEW s \in Transports  PROVE StaysAlive(s)' /\ Listens(s)'
    <3>1. ASSUME NEW d \in inst'[s].chans
          PROVE /\ <<inst'[s].hub, d>> \in inst'[s].hears
                /\ hub'[f].sub[d] # "none" /\ s \in Members(f)'
      <4>1. d \in inst[s].chans /\ s # t /\ d \in Channels
        BY <1>1, <1>4, <3>1, Held DEF Base, Instance
      <4>2. \A u \in Transports : i[u].hears = inst[u].hears
        BY <1>1 DEF SameEars
      <4>3. /\ <<inst[s].hub, d>> \in Deafened(i, S)[s].hears
            /\ s \in Members(f) /\ s \in Rest(t, S, d)
        BY SMTT(30), <1>1, <1>10, <2>0, <2>1, <2>5, <4>1, <4>2, OthersListen
      <4>4. Here.sub[d] # "none"
        BY <1>2, <1>10, <2>0, <4>1, <4>3, Held DEF Good, StaysAlive, Members, On, Hubs
      <4>5. hub'[f].sub[d] # "none"
        BY <2>4, <2>6, <4>1, <4>3, <4>4
      <4>6. inst'[s].hears = Deafened(i, S)[s].hears
        BY <1>1 DEF SameEars
      <4> QED  BY <1>4, <2>2, <4>1, <4>3, <4>5, <4>6
    <3>2. Listens(s)'
      BY <3>1 DEF Listens
    <3>3. StaysAlive(s)'
      <4> SUFFICES ASSUME inst'[s].hub # 0, ~ inst'[s].left
                   PROVE  /\ inst'[s].hub = ctx'
                          /\ \A c \in inst'[s].chans : hub'[ctx'].sub[c] # "none"
        BY DEF StaysAlive
      <4>1. s # t /\ inst[s].hub = ctx /\ ~ inst[s].left
        BY <1>4, <1>10 DEF Good, StaysAlive
      <4>2. s \in Members(f)'
        BY <1>4, <2>0, <2>2, <4>1 DEF Members, On
      <4>3. ctx' = ctx
        BY <1>1, <2>7, <4>2 DEF Stays, Lingers, Ends
      <4> QED  BY <1>4, <2>0, <3>1, <4>1, <4>3
    <3> QED  BY <3>2, <3>3
  <2> QED  BY <1>1, <1>4, <1>8, <1>10, <2>0, <2>10, <2>11, GoodOneHub
<1> QED  BY <1>9, <1>10

-----------------------------------------------------------------------------
LEMMA InvStep == Inv /\ [Next]_vars => Inv'
<1> SUFFICES ASSUME Inv, [Next]_vars  PROVE Inv'
  OBVIOUS
<1>1. Base
  BY DEF Inv
<1>2. CASE Undisturbed
  BY <1>1, <1>2, BaseKept, GoodKept, StrandedStays DEF Inv
<1>3. ASSUME NEW t \in Transports, Create(t)  PROVE Inv'
  BY <1>1, <1>3, CreateStep DEF Inv
<1>4. ASSUME NEW t \in Transports, NEW c \in Channels, Subscribe(t, c)  PROVE Inv'
  BY <1>1, <1>4, SubscribeStep DEF Inv
<1>5. ASSUME NEW t \in Transports, NEW c \in Channels, Clear(t, c)  PROVE Inv'
  BY <1>1, <1>5, ClearStep DEF Inv
<1>6. ASSUME NEW t \in Transports, Disconnect(t)  PROVE Inv'
  <2>1. CASE ctx = 0 \/ inst[t].left
    BY <1>1, <1>2, <1>6, <2>1, QuietDisconnect
  <2>2. CASE ctx # 0 /\ ~ inst[t].left
    <3>1. inst[t].phase = "open" /\ ctx \in Hubs /\ Leave(t) /\ made' = made
      BY <1>1, <1>6, <2>2, Held DEF Disconnect, Base
    <3> QED  BY <1>1, <3>1, LeaveStep DEF Inv
  <2> QED  BY <2>1, <2>2
<1>7. ASSUME NEW t \in Transports,
             Connect(t) \/ ConnectAgain(t) \/ DisconnectIdle(t) \/ Reconnect(t) \/ Soon(t)
      PROVE  Undisturbed
  BY <1>1, <1>7, ConnectQuiet, OwnerQuiet, ReconnectQuiet
<1>8. ASSUME NEW g \in Hubs,
             \/ Redial(g) \/ Connected(g) \/ DialFails(g) \/ Lose(g) \/ End(g)
             \/ \E c \in Channels : Subscribed(g, c)
      PROVE  Undisturbed
  BY <1>1, <1>8, HubQuiet
<1>9. CASE UNCHANGED vars
  BY <1>1, <1>2, <1>9, StutterQuiet
<1> QED  BY <1>2, <1>3, <1>4, <1>5, <1>6, <1>7, <1>8, <1>9 DEF Next

LEMMA Invariant == Spec => []Inv
<1>1. Init => Inv
  BY BaseInit, GoodInit DEF Inv
<1> QED  BY <1>1, InvStep, PTL DEF Spec

\* Every variable stays in its type; there is a hub for each that was made, and
\* no reference count (refcount--) goes below zero as long as no hub was lost
\* with users on it.
THEOREM TypeCorrect == Spec => []TypeOK
<1>1. Inv => TypeOK
  <2> SUFFICES ASSUME Inv  PROVE TypeOK
    OBVIOUS
  <2>1. Stranded \/ \A g \in Hubs : hub[g].refs >= 0
    BY Sizes DEF Inv, Good, Exact
  <2> QED  BY <2>1 DEF Inv, Base, Typed, TypeOK, Insts
<1> QED  BY <1>1, Invariant, PTL

\* refcount and each channel's count are the numbers of transports that use the
\* connection and the channel, however they come, subscribe, reconnect and leave;
\* what nobody uses is given up.
THEOREM CountsAreExact == Spec => []CountsExact
<1>1. Inv => CountsExact
  BY DEF Inv, Good, CountsExact
<1> QED  BY <1>1, Invariant, PTL

\* No transport is cut off from the connection or from a channel by what others
\* do, as long as no hub was lost with users on it.
THEOREM OthersAreKept == Spec => []NobodyCutOff
<1>1. Inv => NobodyCutOff
  BY DEF Inv, Good, NobodyCutOff
<1> QED  BY <1>1, Invariant, PTL
=============================================================================
