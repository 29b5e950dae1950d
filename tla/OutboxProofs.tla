---------------------------- MODULE OutboxProofs ----------------------------
(***************************************************************************)
(* Proofs about Outbox, for every number of channels, attempts, calls and  *)
(* restarts: types, the order of what the relay holds, and the wake-up of  *)
(* the drain loop.                                                         *)
(***************************************************************************)
EXTENDS Outbox, TLAPS

\* Sequences in the form the backends use: lengths and elements.
LEMMA QueueTail ==
  ASSUME NEW S, NEW q \in Seq(S), q # <<>>
  PROVE  /\ Len(q) \in Nat \ {0}
         /\ Head(q) \in S
         /\ Head(q) = q[1]
         /\ Tail(q) \in Seq(S)
         /\ Len(Tail(q)) = Len(q) - 1
         /\ \A k \in 1 .. Len(Tail(q)) : Tail(q)[k] = q[k + 1]
  OBVIOUS

LEMMA Appended ==
  ASSUME NEW S, NEW q \in Seq(S), NEW e \in S
  PROVE  /\ Append(q, e) \in Seq(S)
         /\ Append(q, e) # <<>>
         /\ Len(Append(q, e)) = Len(q) + 1
         /\ DOMAIN Append(q, e) = 1 .. Len(q) + 1
         /\ \A k \in 1 .. Len(q) : Append(q, e)[k] = q[k]
         /\ Append(q, e)[Len(q) + 1] = e
  OBVIOUS

LEMMA SeqWidens ==
  ASSUME NEW S, NEW T, S \subseteq T, NEW q \in Seq(S)
  PROVE  q \in Seq(T)
  OBVIOUS

\* Settling promises changes no channel, adds no call and settles no promise
\* twice.
LEMMA Settled ==
  ASSUME items \in Seq(Call), NEW S, NEW how \in Outcomes
  PROVE  /\ Settle(S, how) \in Seq(Call)
         /\ Len(Settle(S, how)) = Len(items)
         /\ \A i \in Item :
              /\ Settle(S, how)[i].channel = items[i].channel
              /\ Settle(S, how)[i].outcome =
                   IF i \in S /\ items[i].outcome = "pending"
                   THEN how ELSE items[i].outcome
  <1> DEFINE new(i) == IF i \in S /\ items[i].outcome = "pending"
                       THEN [items[i] EXCEPT !.outcome = how] ELSE items[i]
  <1>1. \A i \in 1 .. Len(items) : items[i] \in Call
    OBVIOUS
  <1>2. \A i \in 1 .. Len(items) :
          /\ new(i) \in Call
          /\ new(i).channel = items[i].channel
          /\ new(i).outcome = IF i \in S /\ items[i].outcome = "pending"
                              THEN how ELSE items[i].outcome
    BY <1>1 DEF Call
  <1> HIDE DEF new
  <1>3. [i \in 1 .. Len(items) |-> new(i)] \in Seq(Call)
    BY <1>2
  <1>4. Settle(S, how) = [i \in 1 .. Len(items) |-> new(i)] /\ Item = 1 .. Len(items)
    BY DEF Settle, Item, new
  <1> QED
    BY <1>2, <1>3, <1>4

LEMMA OutcomesUsed == {"pending", "true", "false", "rejected", "lost"} \subseteq Outcomes
  BY DEF Outcomes

-----------------------------------------------------------------------------
(* Types *)

LEMMA IdleType == Idle \in Loop /\ Idle.pc = "idle"
  BY AttemptsAssumption DEF Idle, Loop

LEMMA NextAttempt ==
  ASSUME NEW p \in Loop, p.attempt # Attempts - 1
  PROVE  LET q == [p EXCEPT !.attempt = @ + 1]
         IN  q \in Loop /\ q.item = p.item /\ q.pc = p.pc /\ q.nonce = p.nonce
  <1>1. p.attempt + 1 \in 0 .. Attempts - 1
    BY AttemptsAssumption DEF Loop
  <1> DEFINE a == p.attempt + 1
             q == [p EXCEPT !.attempt = a]
  <1>2. [p EXCEPT !.attempt = @ + 1] = q
    OBVIOUS
  <1> HIDE DEF a
  <1>3. q \in Loop /\ q.item = p.item /\ q.pc = p.pc /\ q.nonce = p.nonce
    BY <1>1 DEF a, Loop
  <1> QED
    BY <1>2, <1>3 DEF a

LEMMA PeekType ==
  ASSUME NEW n \in Nat, NEW q \in Seq(1 .. n), q # <<>>
  PROVE  Peek(q) \in Loop /\ Peek(q).item \in 1 .. n /\ Peek(q).pc = "get"
  <1>1. Head(q) \in 1 .. n /\ Head(q) \in Nat
    BY QueueTail
  <1> QED
    BY <1>1, AttemptsAssumption DEF Peek, Loop

LEMMA TypeInit == Init => TypeOK
  <1> SUFFICES ASSUME Init PROVE TypeOK
    OBVIOUS
  <1>1. /\ items \in Seq(Call)
        /\ queue \in Seq(Item)
    BY DEF Init
  <1>2. \A S : [c \in Channels |-> <<>>] \in [Channels -> Seq(S)]
    OBVIOUS
  <1>3. log \in [Channels -> Seq(Entry)]
    BY <1>2 DEF Init
  <1>4. proc \in Loop /\ proc.pc = "idle"
    BY IdleType DEF Init
  <1>5. state \in States /\ closed \in BOOLEAN /\ reused \in BOOLEAN /\ retired \subseteq Channels
    BY DEF Init, States
  <1>6. nonceStore \in [Channels -> Nat] /\ crashes \in 0 .. MaxCrashes
    BY BoundsAssumption DEF Init
  <1> QED
    BY <1>1, <1>3, <1>4, <1>5, <1>6 DEF TypeOK

\* Calling or re-entering _processQueue leaves a well-typed loop.
LEMMA ProcessQueueType ==
  ASSUME proc \in Loop, proc.pc # "idle" => proc.item \in Item', Len(items') \in Nat,
         NEW q \in Seq(Item'), NEW st, ProcessQueue(q, st)
  PROVE  proc' \in Loop /\ (proc'.pc # "idle" => proc'.item \in Item')
  <1>1. CASE proc' = proc
    BY <1>1
  <1>2. CASE q # <<>> /\ proc' = Peek(q)
    BY <1>2, PeekType DEF Item
  <1> QED
    BY <1>1, <1>2 DEF ProcessQueue

\* shift() and the next peek keep the types.
LEMMA FinishType ==
  ASSUME TypeOK, NEW how \in Outcomes, Finish(how)
  PROVE  /\ items' \in Seq(Call)
         /\ Len(items') = Len(items)
         /\ Item' = Item
         /\ Entry' = Entry
         /\ queue' \in Seq(Item)
         /\ proc' \in Loop
         /\ proc'.pc # "idle" => proc'.item \in Item
  <1>1. items' \in Seq(Call) /\ Len(items') = Len(items)
    BY Settled DEF Finish, TypeOK
  <1>2. Item' = Item /\ Entry' = Entry
    BY <1>1 DEF Item, Entry
  <1>3. queue' \in Seq(Item)
    BY QueueTail DEF Finish, TypeOK
  <1>4. Len(items) \in Nat /\ Item = 1 .. Len(items)
    BY DEF TypeOK, Item
  <1>5. proc' \in Loop /\ (proc'.pc # "idle" => proc'.item \in Item)
    BY <1>3, <1>4, PeekType, IdleType DEF Finish
  <1> QED
    BY <1>1, <1>2, <1>3, <1>5

\* The channel of the item in the loop is one of the transport's.
LEMMA AcceptedChannel ==
  ASSUME TypeOK, proc.pc # "idle"
  PROVE  Current \in Channels
  <1>1. items[proc.item] \in Call
    BY DEF TypeOK, Item
  <1> QED
    BY <1>1 DEF Current, Channel, Call

\* What the relay accepts is an entry of the channel in the loop.
LEMMA AcceptType ==
  ASSUME TypeOK, proc.pc # "idle", Accept
  PROVE  /\ log' \in [Channels -> Seq(Entry)]
         /\ Current \in Channels
         /\ [nonce |-> proc.nonce, item |-> proc.item] \in Entry
         /\ log'[Current] = Append(log[Current], [nonce |-> proc.nonce, item |-> proc.item])
         /\ \A c \in Channels \ {Current} : log'[c] = log[c]
  <1>1. proc.item \in Item /\ proc.nonce \in Nat
    BY DEF TypeOK, Loop
  <1>3. Current \in Channels
    BY AcceptedChannel
  <1>4. [nonce |-> proc.nonce, item |-> proc.item] \in Entry
    BY <1>1 DEF Entry
  <1>5. log[Current] \in Seq(Entry)
    BY <1>3 DEF TypeOK
  <1> QED
    BY <1>3, <1>4, <1>5, Appended DEF Accept, TypeOK

LEMMA TypeNext == TypeOK /\ [Next]_vars => TypeOK'
  <1> SUFFICES ASSUME TypeOK, [Next]_vars PROVE TypeOK'
    OBVIOUS
  <1>1. CASE UNCHANGED vars
    BY <1>1 DEF TypeOK, vars, Item, Entry
  <1>2. ASSUME NEW c \in Channels, Publish(c) PROVE TypeOK'
    <2> DEFINE new == [channel |-> c, outcome |-> "pending"]
    <2>1. items \in Seq(Call) /\ new \in Call /\ items' = Append(items, new)
      BY <1>2, OutcomesUsed DEF Publish, TypeOK, Call
    <2>2. items' \in Seq(Call) /\ Len(items') = Len(items) + 1
      BY <2>1, Appended
    <2>3. /\ Len(items) \in Nat /\ Len(items') \in Nat
          /\ Item \subseteq Item' /\ Len(items) + 1 \in Item'
      BY <2>1, <2>2 DEF Item
    <2>4. queue \in Seq(Item')
      BY <2>3, SeqWidens DEF TypeOK
    <2>5. queue' \in Seq(Item')
      BY <1>2, <2>3, <2>4, Appended DEF Publish
    <2>6. proc' \in Loop /\ (proc'.pc # "idle" => proc'.item \in Item')
      BY <1>2, <2>3, <2>5, ProcessQueueType DEF Publish, TypeOK
    <2>7. Entry \subseteq Entry'
      BY <2>3 DEF Entry
    <2>8. \A d \in Channels : log[d] \in Seq(Entry')
      BY <2>7, SeqWidens DEF TypeOK
    <2>9. log' \in [Channels -> Seq(Entry')]
      BY <1>2, <2>8 DEF Publish, TypeOK
    <2> QED
      BY <1>2, <2>2, <2>5, <2>6, <2>9 DEF TypeOK, Publish, conn
  <1>3. ASSUME NEW c \in Channels, Clear(c) PROVE TypeOK'
    BY <1>3 DEF Clear, TypeOK, conn, Item, Entry
  <1>4. CASE Connect \/ Reconnect
    BY <1>4 DEF Connect, Reconnect, TypeOK, Item, Entry, States
  <1>5. ASSUME NEW to \in {"connecting", "disconnected"}, ConnectionLost(to) PROVE TypeOK'
    BY <1>5 DEF ConnectionLost, TypeOK, Item, Entry, States
  <1>6. CASE Connected \/ Subscribed
    <2>1. Item' = Item /\ Entry' = Entry /\ items' = items /\ queue' = queue
      BY <1>6 DEF Connected, Subscribed, Item, Entry
    <2>2. queue \in Seq(Item') /\ Len(items') \in Nat
      BY <2>1 DEF TypeOK
    <2>3. proc' \in Loop /\ (proc'.pc # "idle" => proc'.item \in Item)
      BY <1>6, <2>1, <2>2, ProcessQueueType DEF Connected, Subscribed, TypeOK
    <2> QED
      BY <1>6, <2>1, <2>3 DEF Connected, Subscribed, TypeOK, conn, States
  <1>7. CASE Disconnect
    <2>1. items' \in Seq(Call) /\ Len(items') = Len(items)
      BY <1>7, Settled, OutcomesUsed DEF Disconnect, TypeOK
    <2>2. Item' = Item /\ Entry' = Entry
      BY <2>1 DEF Item, Entry
    <2>3. queue' \in Seq(Item)
      BY <1>7 DEF Disconnect
    <2> QED
      BY <1>7, <2>1, <2>2, <2>3 DEF Disconnect, TypeOK, States
  <1>8. CASE GetNonce
    <2>1. /\ proc.item \in Item /\ nonceStore[Current] \in Nat
      BY <1>8, AcceptedChannel DEF GetNonce, TypeOK
    <2>2. proc' \in Loop /\ proc'.item = proc.item
      <3>1. proc \in Loop /\ nonceStore[Current] + 1 \in Nat
        BY <2>1 DEF TypeOK
      <3>2. proc' = [proc EXCEPT !.pc = "set", !.nonce = nonceStore[Current] + 1]
        BY <1>8 DEF GetNonce
      <3> QED
        BY <3>1, <3>2 DEF Loop
    <2> QED
      BY <1>8, <2>1, <2>2 DEF GetNonce, TypeOK, conn, Item, Entry
  <1>9. CASE SetNonce
    <2>1. proc' \in Loop /\ proc'.item = proc.item /\ proc.item \in Item
      <3>1. proc \in Loop /\ proc' = [proc EXCEPT !.pc = "attempt"]
        BY <1>9 DEF SetNonce, TypeOK
      <3>2. proc' \in Loop /\ proc'.item = proc.item
        BY <3>1 DEF Loop
      <3> QED
        BY <1>9, <3>2 DEF SetNonce, TypeOK
    <2>2. nonceStore' \in [Channels -> Nat]
      BY <1>9 DEF SetNonce, TypeOK, Loop
    <2> QED
      BY <1>9, <2>1, <2>2 DEF SetNonce, TypeOK, conn, Item, Entry
  <1>10. CASE StoreFails
    <2>1. nonceStore' \in [Channels -> Nat]
      BY <1>10 DEF StoreFails, TypeOK, Loop
    <2> QED
      BY <1>10, <2>1, FinishType, OutcomesUsed DEF StoreFails, TypeOK, conn
  <1>11. CASE AttemptOk
    BY <1>11, FinishType, AcceptType, OutcomesUsed DEF AttemptOk, TypeOK, conn
  <1>12. CASE AttemptFails
    <2>1. log' \in [Channels -> Seq(Entry)]
      BY <1>12, AcceptType DEF AttemptFails, TypeOK
    <2>2. CASE Finish("rejected")
      BY <1>12, <2>1, <2>2, FinishType, OutcomesUsed DEF AttemptFails, TypeOK, conn
    <2>3. CASE /\ proc.attempt # Attempts - 1
               /\ proc' = [proc EXCEPT !.attempt = @ + 1]
               /\ UNCHANGED <<queue, items>>
      <3>1. proc' \in Loop /\ proc'.item = proc.item /\ proc'.pc = proc.pc
        BY <2>3, NextAttempt DEF TypeOK
      <3>2. Item' = Item /\ Entry' = Entry
        BY <2>3 DEF Item, Entry
      <3> QED
        BY <1>12, <2>1, <2>3, <3>1, <3>2 DEF AttemptFails, TypeOK, conn
    <2> QED
      BY <1>12, <2>2, <2>3 DEF AttemptFails
  <1>13. CASE Crash
    <2>1. items' \in Seq(Call) /\ Len(items') = Len(items)
      BY <1>13, Settled, OutcomesUsed DEF Crash, TypeOK
    <2>2. Item' = Item /\ Entry' = Entry
      BY <2>1 DEF Item, Entry
    <2>3. queue' \in Seq(Item) /\ proc' \in Loop /\ proc'.pc = "idle"
      BY <1>13, IdleType DEF Crash
    <2>4. crashes' \in 0 .. MaxCrashes
      BY <1>13, BoundsAssumption DEF Crash, TypeOK
    <2> QED
      BY <1>13, <2>1, <2>2, <2>3, <2>4 DEF Crash, TypeOK, States
  <1> QED
    BY <1>1, <1>2, <1>3, <1>4, <1>5, <1>6, <1>7, <1>8, <1>9, <1>10, <1>11, <1>12, <1>13
    DEF Next, Drain

\* Every reachable state is well typed: in particular the queue and the relay
\* name only calls that were made, and the retry count stays in its bound
\* (publish, _process, _processQueue, retry).
THEOREM TypeCorrect == Spec => []TypeOK
  BY TypeInit, TypeNext, PTL DEF Spec

-----------------------------------------------------------------------------
(* The lost wake-up *)

\* The drain loop is never asleep while there is something to send and a
\* connection to send it on: publish(), the "connected" listener and the end
\* of the loop leave no gap between them.
THEOREM NeverStalled == Spec => []NoStalledQueue
  <1>1. Init => NoStalledQueue
    BY DEF Init, NoStalledQueue
  <1>2. TypeOK /\ NoStalledQueue /\ [Next]_vars => NoStalledQueue'
    <2> SUFFICES ASSUME TypeOK, NoStalledQueue, [Next]_vars PROVE NoStalledQueue'
      OBVIOUS
    <2> USE DEF NoStalledQueue
    <2>1. CASE UNCHANGED vars
      BY <2>1 DEF vars
    <2>2. ASSUME NEW c \in Channels, Publish(c) PROVE NoStalledQueue'
      BY <2>2 DEF Publish, ProcessQueue, Peek, conn
    <2>3. ASSUME NEW c \in Channels, Clear(c) PROVE NoStalledQueue'
      BY <2>3 DEF Clear, conn
    <2>4. CASE Connect \/ Reconnect
      BY <2>4 DEF Connect, Reconnect
    <2>5. ASSUME NEW to \in {"connecting", "disconnected"}, ConnectionLost(to)
          PROVE  NoStalledQueue'
      BY <2>5 DEF ConnectionLost
    <2>6. CASE Connected \/ Subscribed
      BY <2>6 DEF Connected, Subscribed, ProcessQueue, Peek, conn
    <2>7. CASE Disconnect \/ Crash
      BY <2>7 DEF Disconnect, Crash
    <2>8. CASE GetNonce \/ SetNonce
      BY <2>8 DEF GetNonce, SetNonce, conn, TypeOK, Loop
    <2>9. ASSUME NEW how, Finish(how) PROVE NoStalledQueue'
      BY <2>9 DEF Finish, Peek
    <2>10. CASE StoreFails \/ AttemptOk
      BY <2>9, <2>10 DEF StoreFails, AttemptOk
    <2>11. CASE AttemptFails
      <3>1. CASE Finish("rejected")
        BY <2>9, <3>1
      <3>2. CASE proc' = [proc EXCEPT !.attempt = @ + 1]
        BY <2>11, <3>2 DEF AttemptFails, conn, TypeOK, Loop
      <3> QED
        BY <2>11, <3>1, <3>2 DEF AttemptFails
    <2> QED
      BY <2>1, <2>2, <2>3, <2>4, <2>5, <2>6, <2>7, <2>8, <2>10, <2>11 DEF Next, Drain
  <1> QED
    BY <1>1, <1>2, TypeCorrect, PTL DEF Spec

-----------------------------------------------------------------------------
(* The order of what the relay holds *)

\* Elements of a queue and of a log, as numbers.
LEMMA QueueElements ==
  ASSUME NEW n \in Nat, NEW q \in Seq(1 .. n)
  PROVE  /\ Len(q) \in Nat
         /\ DOMAIN q = 1 .. Len(q)
         /\ \A k \in DOMAIN q : q[k] \in 1 .. n /\ q[k] \in Nat
  OBVIOUS

LEMMA LogElements ==
  ASSUME NEW n \in Nat, NEW L \in [Channels -> Seq([nonce : Nat, item : 1 .. n])],
         NEW c \in Channels
  PROVE  /\ Len(L[c]) \in Nat
         /\ DOMAIN L[c] = 1 .. Len(L[c])
         /\ \A j \in DOMAIN L[c] : /\ L[c][j].item \in 1 .. n
                                   /\ L[c][j].item \in Nat
                                   /\ L[c][j].nonce \in Nat
  <1>1. L[c] \in Seq([nonce : Nat, item : 1 .. n])
    OBVIOUS
  <1> DEFINE E == [nonce : Nat, item : 1 .. n]
  <1> HIDE DEF E
  <1>2. /\ Len(L[c]) \in Nat
        /\ DOMAIN L[c] = 1 .. Len(L[c])
        /\ \A j \in DOMAIN L[c] : L[c][j] \in E
    <2>1. L[c] \in Seq(E)
      BY <1>1 DEF E
    <2> QED
      BY <2>1
  <1>3. \A e \in E : e.item \in 1 .. n /\ e.item \in Nat /\ e.nonce \in Nat
    BY DEF E
  <1> QED
    BY <1>2, <1>3

\* Nothing on the relay is newer than the item in the loop.
LEMMA LogUpToLoop ==
  ASSUME TypeOK, LogBehindLoop, proc.pc # "idle",
         NEW c \in Channels, NEW j \in DOMAIN log[c]
  PROVE  log[c][j].item <= proc.item
  <1>1. log[c][j].item \in Nat /\ proc.item \in Nat
    <2>1. /\ Len(items) \in Nat
          /\ log \in [Channels -> Seq([nonce : Nat, item : 1 .. Len(items)])]
      <3>1. items \in Seq(Call) /\ log \in [Channels -> Seq(Entry)]
        BY DEF TypeOK
      <3>2. Entry = [nonce : Nat, item : 1 .. Len(items)]
        BY DEF Entry, Item
      <3>3. Len(items) \in Nat
        BY <3>1
      <3>4. log \in [Channels -> Seq([nonce : Nat, item : 1 .. Len(items)])]
        BY <3>1, <3>2, Zenon
      <3> QED
        BY <3>3, <3>4
    <2>2. log[c][j].item \in Nat
      BY <2>1, LogElements
    <2>3. proc.item \in Nat
      BY DEF TypeOK, Loop
    <2> QED
      BY <2>2, <2>3
  <1>2. log[c][j].item < proc.item \/ log[c][j].item = proc.item
    BY DEF LogBehindLoop
  <1> QED
    BY <1>1, <1>2

\* shift() takes the loop's item or, when disconnect() emptied the queue under
\* the loop, a newer one: either way what is left is newer than the log.
LEMMA FinishOrder ==
  ASSUME TypeOK, TypeOK', QueueInOrder, LoopIsFirst, proc.pc # "idle",
         NEW how \in Outcomes, Finish(how),
         \A c \in Channels : \A j \in DOMAIN log'[c] : log'[c][j].item <= proc.item
  PROVE  /\ QueueInOrder'
         /\ LoopIsFirst'
         /\ LogBehindQueue'
         /\ LogBehindLoop'
         /\ proc'.pc \in {"idle", "get"}
  <1>1. /\ proc.item \in Nat
        /\ \A k \in DOMAIN queue : queue[k] \in Nat
        /\ \A k \in DOMAIN queue' : queue'[k] \in Nat
        /\ DOMAIN queue = 1 .. Len(queue) /\ Len(queue) \in Nat
        /\ DOMAIN queue' = 1 .. Len(queue') /\ Len(queue') \in Nat
    <2>1. queue \in Seq(1 .. Len(items)) /\ Len(items) \in Nat
      BY DEF TypeOK, Item
    <2>2. queue' \in Seq(1 .. Len(items')) /\ Len(items') \in Nat
      BY DEF TypeOK, Item
    <2> QED
      BY <2>1, <2>2, QueueElements DEF TypeOK, Loop
  <1>2. \A c \in Channels : \A j \in DOMAIN log'[c] : log'[c][j].item \in Nat
    <2>1. /\ Len(items') \in Nat
          /\ log' \in [Channels -> Seq([nonce : Nat, item : 1 .. Len(items')])]
      BY DEF TypeOK, Entry, Item
    <2> QED
      BY <2>1, LogElements
  <1>3. \A k \in DOMAIN queue' : /\ k \in DOMAIN queue /\ k + 1 \in DOMAIN queue
                                /\ queue'[k] = queue[k + 1]
    <2>1. CASE queue = <<>>
      <3>1. queue' = <<>>
        BY <2>1 DEF Finish
      <3> QED
        BY <3>1
    <2>2. CASE queue # <<>>
      <3>1. queue' = Tail(queue) /\ queue \in Seq(Item)
        BY <2>2 DEF Finish, TypeOK
      <3> QED
        BY <1>1, <2>2, <3>1, QueueTail
    <2> QED
      BY <2>1, <2>2
  <1>4. \A k \in DOMAIN queue' : proc.item < queue'[k]
    <2> TAKE k \in DOMAIN queue'
    <2>1. 1 \in DOMAIN queue /\ 1 < k + 1 /\ k + 1 \in DOMAIN queue
      BY <1>1, <1>3
    <2>2. proc.item <= queue[1] /\ queue[1] < queue[k + 1]
      BY <2>1 DEF LoopIsFirst, QueueInOrder
    <2> QED
      BY SMTT(30), <1>1, <1>3, <2>1, <2>2
  <1>5. QueueInOrder'
    <2> SUFFICES ASSUME NEW j \in DOMAIN queue', NEW k \in DOMAIN queue', j < k
                 PROVE  queue'[j] < queue'[k]
      BY DEF QueueInOrder
    <2>1. j + 1 < k + 1
      BY <1>1
    <2> QED
      BY <1>3, <2>1 DEF QueueInOrder
  <1>6. \A c \in Channels : \A j \in DOMAIN log'[c] : \A k \in DOMAIN queue' :
          log'[c][j].item < queue'[k]
    <2> TAKE c \in Channels
    <2> TAKE j \in DOMAIN log'[c]
    <2> TAKE k \in DOMAIN queue'
    <2>1. log'[c][j].item <= proc.item /\ proc.item < queue'[k]
      BY <1>4
    <2> QED
      BY <1>1, <1>2, <2>1
  <1>7. CASE queue' = <<>>
    <2>1. proc'.pc = "idle"
      BY <1>7, IdleType DEF Finish
    <2> QED
      BY <1>5, <1>6, <2>1 DEF LoopIsFirst, LogBehindQueue, LogBehindLoop
  <1>8. CASE queue' # <<>>
    <2>1. proc'.pc = "get" /\ proc'.item = Head(queue')
      BY <1>8 DEF Finish, Peek
    <2>2. 1 \in DOMAIN queue' /\ proc'.item = queue'[1]
      BY <1>1, <1>8, <2>1, QueueTail DEF TypeOK
    <2>3. LoopIsFirst'
      <3> SUFFICES ASSUME NEW k \in DOMAIN queue' PROVE queue'[1] <= queue'[k]
        BY <2>2 DEF LoopIsFirst
      <3>1. k = 1 \/ 1 < k
        BY <1>1
      <3> QED
        BY <1>1, <1>5, <2>2, <3>1 DEF QueueInOrder
    <2>4. LogBehindLoop' /\ LogBehindQueue'
      BY <1>6, <2>1, <2>2 DEF LogBehindLoop, LogBehindQueue
    <2> QED
      BY <1>5, <2>1, <2>3, <2>4
  <1> QED
    BY <1>7, <1>8

\* The relay accepts a publication: an old entry is older than it or is the
\* same publication, accepted by an attempt whose reply was lost.
LEMMA AcceptOrder ==
  ASSUME TypeOK, OrderInv, proc.pc = "attempt", Accept,
         nonceStore' = nonceStore, retired' = retired
  PROVE  /\ RelayOrder'
         /\ \A c \in Channels : \A j \in DOMAIN log'[c] :
              \/ log'[c][j].item < proc.item
                 /\ (c = Current /\ c \notin retired => log'[c][j].nonce < proc.nonce)
              \/ log'[c][j] = [nonce |-> proc.nonce, item |-> proc.item]
         /\ \A c \in Channels : \A j \in DOMAIN log'[c] : log'[c][j].item <= proc.item
         /\ \A c \in Channels \ retired : \A j \in DOMAIN log'[c] :
              log'[c][j].nonce <= nonceStore[c]
  <1> DEFINE e == [nonce |-> proc.nonce, item |-> proc.item]
             n == Len(log[Current])
  <1>1. /\ Current \in Channels
        /\ log'[Current] = Append(log[Current], e)
        /\ \A c \in Channels \ {Current} : log'[c] = log[c]
        /\ e \in Entry
    BY AcceptType
  <1>2. /\ log[Current] \in Seq(Entry) /\ n \in Nat
        /\ DOMAIN log[Current] = 1 .. n
        /\ DOMAIN log'[Current] = 1 .. n + 1
        /\ \A j \in 1 .. n : log'[Current][j] = log[Current][j]
        /\ log'[Current][n + 1] = e
    <2>1. log[Current] \in Seq(Entry)
      BY <1>1 DEF TypeOK
    <2> QED
      BY <1>1, <2>1, Appended
  <1>3. proc.item \in Nat /\ proc.nonce \in Nat /\ e.item = proc.item /\ e.nonce = proc.nonce
    BY DEF TypeOK, Loop
  <1>4. \A c \in Channels : \A j \in DOMAIN log'[c] :
          \/ j \in DOMAIN log[c] /\ log'[c][j] = log[c][j]
          \/ c = Current /\ j = n + 1 /\ log'[c][j] = e
    BY <1>1, <1>2
  <1>5. \A c \in Channels : \A j \in DOMAIN log[c] :
          \/ log[c][j].item < proc.item
             /\ (c = Current /\ c \notin retired => log[c][j].nonce < proc.nonce)
          \/ log[c][j] = e
    BY DEF OrderInv, LogBehindLoop
  <1> HIDE DEF e, n
  <1>6. \A c \in Channels : \A j \in DOMAIN log'[c] :
          \/ log'[c][j].item < proc.item
             /\ (c = Current /\ c \notin retired => log'[c][j].nonce < proc.nonce)
          \/ log'[c][j] = e
    BY <1>4, <1>5
  <1>7. \A c \in Channels : \A j \in DOMAIN log'[c] : log'[c][j].item <= proc.item
    <2> TAKE c \in Channels
    <2> TAKE j \in DOMAIN log'[c]
    <2>1. CASE j \in DOMAIN log[c] /\ log'[c][j] = log[c][j]
      BY <2>1, LogUpToLoop DEF OrderInv
    <2>2. CASE log'[c][j] = e
      BY <1>3, <2>2
    <2> QED
      BY <1>4, <2>1, <2>2
  <1>8. Current \notin retired => proc.nonce = nonceStore[Current]
    BY DEF OrderInv, CounterAhead
  <1>9. \A c \in Channels \ retired : \A j \in DOMAIN log'[c] :
          log'[c][j].nonce <= nonceStore[c]
    <2> TAKE c \in Channels \ retired
    <2> TAKE j \in DOMAIN log'[c]
    <2>1. CASE j \in DOMAIN log[c] /\ log'[c][j] = log[c][j]
      BY <2>1 DEF OrderInv, CounterAhead
    <2>2. CASE c = Current /\ log'[c][j] = e
      BY <1>3, <1>8, <2>2
    <2> QED
      BY <1>4, <2>1, <2>2
  <1>10. RelayOrder'
    <2> SUFFICES ASSUME NEW c \in Channels \ retired,
                        NEW j \in DOMAIN log'[c], NEW k \in DOMAIN log'[c], j < k
                 PROVE  \/ log'[c][j] = log'[c][k]
                        \/ /\ log'[c][j].item < log'[c][k].item
                           /\ log'[c][j].nonce < log'[c][k].nonce
      BY DEF RelayOrder
    <2>1. CASE c # Current
      BY <1>1, <2>1 DEF OrderInv, RelayOrder
    <2>2. CASE c = Current /\ k \in 1 .. n
      <3>1. j \in 1 .. n
        BY <1>2, <2>2
      <3> QED
        BY <1>2, <2>2, <3>1 DEF OrderInv, RelayOrder
    <2>3. CASE c = Current /\ k = n + 1
      <3>1. j \in 1 .. n /\ log'[c][j] = log[c][j] /\ log'[c][k] = e
        BY <1>2, <2>3
      <3> QED
        BY <1>2, <1>3, <1>5, <2>3, <3>1
    <2> QED
      BY <1>2, <2>1, <2>2, <2>3
  <1> QED
    BY <1>6, <1>7, <1>9, <1>10 DEF e

\* A step that leaves the loop, the log and the counter alone, and the queue
\* or nothing of it.
LEMMA Undisturbed ==
  ASSUME OrderInv,
         UNCHANGED <<log, nonceStore, retired, proc>>,
         queue' = queue \/ queue' = <<>>,
         proc.pc # "idle" => Current' = Current
  PROVE  OrderInv'
  <1>1. RelayOrder'
    BY DEF OrderInv, RelayOrder
  <1>2. CounterAhead'
    BY DEF OrderInv, CounterAhead
  <1>3. LogBehindLoop'
    BY DEF OrderInv, LogBehindLoop
  <1>4. QueueInOrder' /\ LoopIsFirst' /\ LogBehindQueue'
    BY DEF OrderInv, QueueInOrder, LoopIsFirst, LogBehindQueue
  <1> QED
    BY <1>1, <1>2, <1>3, <1>4 DEF OrderInv

\* The idle loop wakes up on a queue that is newer than the log.
LEMMA WakeUp ==
  ASSUME TypeOK, TypeOK', OrderInv,
         UNCHANGED <<log, nonceStore, retired>>,
         proc.pc = "idle", queue' # <<>>, proc' = Peek(queue'),
         QueueInOrder',
         \A c \in Channels : \A j \in DOMAIN log[c] : \A k \in DOMAIN queue' :
           log[c][j].item < queue'[k]
  PROVE  OrderInv'
  <1>1. /\ DOMAIN queue' = 1 .. Len(queue') /\ Len(queue') \in Nat
        /\ \A k \in DOMAIN queue' : queue'[k] \in Nat
    <2>1. queue' \in Seq(1 .. Len(items')) /\ Len(items') \in Nat
      BY DEF TypeOK, Item
    <2> QED
      BY <2>1, QueueElements
  <1>2. 1 \in DOMAIN queue' /\ proc'.item = queue'[1] /\ proc'.pc = "get"
    BY <1>1, QueueTail DEF TypeOK, Peek
  <1>3. LoopIsFirst'
    <2> SUFFICES ASSUME NEW k \in DOMAIN queue' PROVE queue'[1] <= queue'[k]
      BY <1>2 DEF LoopIsFirst
    <2>1. k = 1 \/ 1 < k
      BY <1>1
    <2> QED
      BY <1>1, <1>2, <2>1 DEF QueueInOrder
  <1>4. LogBehindLoop' /\ LogBehindQueue'
    BY <1>2 DEF LogBehindLoop, LogBehindQueue
  <1>5. CounterAhead' /\ RelayOrder'
    BY <1>2 DEF OrderInv, CounterAhead, RelayOrder
  <1> QED
    BY <1>3, <1>4, <1>5 DEF OrderInv

\* Settling promises moves no item to another channel.
LEMMA SameChannel ==
  ASSUME TypeOK, proc.pc # "idle", proc'.item = proc.item,
         items' = items \/ \E S : \E how \in Outcomes : items' = Settle(S, how)
  PROVE  Current' = Current
  <1>1. proc.item \in Item
    BY DEF TypeOK
  <1> QED
    BY <1>1, Settled DEF TypeOK, Current, Channel

LEMMA OrderInit == Init => OrderInv
  BY DEF Init, Idle, OrderInv, QueueInOrder, LoopIsFirst, LogBehindQueue,
     LogBehindLoop, CounterAhead, RelayOrder

LEMMA OrderNext == TypeOK /\ TypeOK' /\ OrderInv /\ [Next]_vars => OrderInv'
  <1> SUFFICES ASSUME TypeOK, TypeOK', OrderInv, [Next]_vars PROVE OrderInv'
    OBVIOUS
  <1>1. CASE UNCHANGED vars
    BY <1>1, Undisturbed DEF vars, Current, Channel
  <1>2. ASSUME NEW c \in Channels, Publish(c) PROVE OrderInv'
    <2> DEFINE n == Len(items) + 1
    <2>1. /\ Len(items) \in Nat /\ queue \in Seq(1 .. Len(items)) /\ queue \in Seq(Nat)
          /\ items' = Append(items, [channel |-> c, outcome |-> "pending"])
      BY <1>2 DEF Publish, TypeOK, Item
    <2>2. /\ Len(queue) \in Nat
          /\ DOMAIN queue = 1 .. Len(queue)
          /\ \A k \in DOMAIN queue : queue[k] \in Nat /\ queue[k] < n
      BY <2>1, QueueElements
    <2>3. /\ DOMAIN queue' = 1 .. Len(queue) + 1 /\ queue' # <<>>
          /\ \A k \in DOMAIN queue : queue'[k] = queue[k]
          /\ queue'[Len(queue) + 1] = n
      BY <1>2, <2>1, <2>2, Appended DEF Publish
    <2>4. \A c1 \in Channels : \A j \in DOMAIN log[c1] :
            log[c1][j].item \in Nat /\ log[c1][j].item < n
      <3>1. \A c1 \in Channels : \A j \in DOMAIN log[c1] : log[c1][j].item \in 1 .. Len(items)
        <4>1. Entry = [nonce : Nat, item : 1 .. Len(items)]
          BY DEF Entry, Item
        <4>2. log \in [Channels -> Seq([nonce : Nat, item : 1 .. Len(items)])]
          BY <4>1, Zenon DEF TypeOK
        <4> QED
          BY <2>1, <4>2, LogElements
      <3> QED
        BY <2>1, <3>1
    <2>5. \A k \in DOMAIN queue' : k \in DOMAIN queue \/ k = Len(queue) + 1
      BY <2>2, <2>3
    <2>6. QueueInOrder'
      <3> SUFFICES ASSUME NEW j \in DOMAIN queue', NEW k \in DOMAIN queue', j < k
                   PROVE  queue'[j] < queue'[k]
        BY DEF QueueInOrder
      <3>1. j \in DOMAIN queue
        BY <2>2, <2>3
      <3>2. CASE k \in DOMAIN queue
        BY <2>3, <3>1, <3>2 DEF OrderInv, QueueInOrder
      <3>3. CASE k = Len(queue) + 1
        BY <2>2, <2>3, <3>1, <3>3
      <3> QED
        BY <2>5, <3>2, <3>3
    <2>7. CASE proc' = proc
      <3>1. LoopIsFirst'
        <4> SUFFICES ASSUME proc.pc # "idle", NEW k \in DOMAIN queue'
                     PROVE  proc.item <= queue'[k]
          BY <2>7 DEF LoopIsFirst
        <4>1. proc.item \in 1 .. Len(items)
          BY DEF TypeOK, Item
        <4>2. proc.item <= n
          BY <2>1, <4>1
        <4> QED
          BY <2>3, <2>5, <4>2 DEF OrderInv, LoopIsFirst
      <3>2. LogBehindQueue'
        BY <1>2, <2>3, <2>4, <2>5, <2>7 DEF Publish, OrderInv, LogBehindQueue
      <3>3. proc.pc # "idle" => Current' = Current
        <4> SUFFICES ASSUME proc.pc # "idle" PROVE Current' = Current
          OBVIOUS
        <4>1. proc.item \in 1 .. Len(items) /\ items \in Seq(Call)
          BY DEF TypeOK, Item
        <4>2. items'[proc.item] = items[proc.item]
          BY <2>1, <4>1
        <4> QED
          BY <2>7, <4>2 DEF Current, Channel
      <3>4. LogBehindLoop' /\ CounterAhead' /\ RelayOrder'
        BY <1>2, <2>7, <3>3 DEF Publish, OrderInv, LogBehindLoop, CounterAhead, RelayOrder
      <3> QED
        BY <2>6, <3>1, <3>2, <3>4 DEF OrderInv
    <2>8. CASE proc.pc = "idle" /\ proc' = Peek(queue')
      <3>1. \A c1 \in Channels : \A j \in DOMAIN log[c1] : \A k \in DOMAIN queue' :
              log[c1][j].item < queue'[k]
        BY <2>3, <2>4, <2>5, <2>8 DEF OrderInv, LogBehindQueue
      <3> QED
        BY <1>2, <2>3, <2>6, <2>8, <3>1, WakeUp DEF Publish
    <2> QED
      BY <1>2, <2>7, <2>8 DEF Publish, ProcessQueue
  <1>3. ASSUME NEW c \in Channels, Clear(c) PROVE OrderInv'
    <2>1. /\ UNCHANGED <<queue, items, proc, log>>
          /\ retired' = retired \union {c}
          /\ \A d \in Channels \ retired' : nonceStore'[d] = nonceStore[d]
      BY <1>3 DEF Clear, TypeOK
    <2>2. Current' = Current
      BY <2>1 DEF Current, Channel
    <2>3. CounterAhead'
      <3>1. proc.pc # "idle" => Current \in Channels
        BY AcceptedChannel
      <3> QED
        BY <2>1, <2>2, <3>1 DEF OrderInv, CounterAhead
    <2>4. LogBehindLoop' /\ RelayOrder'
      BY <2>1, <2>2 DEF OrderInv, LogBehindLoop, RelayOrder
    <2> QED
      BY <2>1, <2>3, <2>4 DEF OrderInv, QueueInOrder, LoopIsFirst, LogBehindQueue
  <1>4. CASE Connect \/ Reconnect
    BY <1>4, Undisturbed DEF Connect, Reconnect, Current, Channel
  <1>5. ASSUME NEW to \in {"connecting", "disconnected"}, ConnectionLost(to) PROVE OrderInv'
    BY <1>5, Undisturbed DEF ConnectionLost, Current, Channel
  <1>6. CASE Connected \/ Subscribed
    <2>1. UNCHANGED <<log, nonceStore, retired, queue, items>>
      BY <1>6 DEF Connected, Subscribed, conn
    <2>2. CASE proc' = proc
      BY <2>1, <2>2, Undisturbed DEF Current, Channel
    <2>3. CASE proc.pc = "idle" /\ queue # <<>> /\ proc' = Peek(queue)
      BY <2>1, <2>3, WakeUp DEF OrderInv, QueueInOrder, LogBehindQueue, Peek
    <2> QED
      BY <1>6, <2>2, <2>3 DEF Connected, Subscribed, ProcessQueue
  <1>7. CASE Disconnect
    <2>1. proc.pc # "idle" => Current' = Current
      BY <1>7, SameChannel, OutcomesUsed DEF Disconnect
    <2> QED
      BY <1>7, <2>1, Undisturbed DEF Disconnect
  <1>8. CASE GetNonce
    <2>1. /\ proc.pc = "get" /\ proc'.pc = "set" /\ proc'.item = proc.item
          /\ proc'.nonce = nonceStore[Current] + 1
      BY <1>8 DEF GetNonce, TypeOK, Loop
    <2>2. UNCHANGED <<queue, items, nonceStore, log, retired>>
      BY <1>8 DEF GetNonce, conn
    <2>3. Current' = Current
      BY <2>1, <2>2 DEF Current, Channel
    <2>4. LogBehindLoop'
      BY <2>1, <2>2 DEF OrderInv, LogBehindLoop
    <2>5. CounterAhead'
      BY <2>1, <2>2, <2>3 DEF OrderInv, CounterAhead
    <2> QED
      BY <2>1, <2>2, <2>4, <2>5
      DEF OrderInv, QueueInOrder, LoopIsFirst, LogBehindQueue, RelayOrder
  <1>9. CASE SetNonce
    <2>1. /\ proc.pc = "set" /\ proc'.pc = "attempt" /\ proc'.item = proc.item
          /\ proc'.nonce = proc.nonce /\ proc.nonce \in Nat
      BY <1>9 DEF SetNonce, TypeOK, Loop
    <2>2. UNCHANGED <<queue, items, log, retired>>
      BY <1>9 DEF SetNonce, conn
    <2>3. Current' = Current /\ Current \in Channels
      BY <2>1, <2>2, AcceptedChannel DEF Current, Channel
    <2>4. /\ nonceStore'[Current] = proc.nonce
          /\ \A c \in Channels \ {Current} : nonceStore'[c] = nonceStore[c]
          /\ nonceStore[Current] \in Nat
      BY <1>9, <2>3 DEF SetNonce, TypeOK
    <2>5. Current \notin retired =>
            /\ proc.nonce = nonceStore[Current] + 1
            /\ \A j \in DOMAIN log[Current] :
                 log[Current][j].nonce \in Nat /\ log[Current][j].nonce <= nonceStore[Current]
      <3>1. \A j \in DOMAIN log[Current] : log[Current][j] \in Entry
        <4>1. log[Current] \in Seq(Entry)
          BY <2>3 DEF TypeOK
        <4> QED
          BY <4>1
      <3>2. \A j \in DOMAIN log[Current] : log[Current][j].nonce \in Nat
        BY <3>1 DEF Entry
      <3> QED
        BY <2>1, <2>3, <3>2 DEF OrderInv, CounterAhead
    <2>6. LogBehindLoop'
      <3>1. ASSUME NEW c \in Channels, NEW j \in DOMAIN log[c]
            PROVE  /\ log[c][j].item < proc.item
                   /\ c = Current /\ c \notin retired => log[c][j].nonce < proc.nonce
        <4>1. log[c][j].item < proc.item
          BY <2>1 DEF OrderInv, LogBehindLoop
        <4> QED
          BY <2>4, <2>5, <4>1
      <3> QED
        BY <2>1, <2>2, <2>3, <3>1 DEF LogBehindLoop
    <2>7. CounterAhead'
      <3>1. ASSUME NEW c \in Channels \ retired, NEW j \in DOMAIN log[c]
            PROVE  log[c][j].nonce <= nonceStore'[c]
        <4>1. CASE c = Current
          BY <2>4, <2>5, <4>1
        <4>2. CASE c # Current
          BY <2>4, <4>2 DEF OrderInv, CounterAhead
        <4> QED
          BY <4>1, <4>2
      <3> QED
        BY <2>1, <2>2, <2>3, <2>4, <3>1 DEF CounterAhead
    <2> QED
      BY <2>1, <2>2, <2>6, <2>7
      DEF OrderInv, QueueInOrder, LoopIsFirst, LogBehindQueue, RelayOrder
  <1>10. CASE StoreFails
    <2>1. /\ proc.pc \in {"get", "set"} /\ Finish("rejected") /\ "rejected" \in Outcomes
          /\ UNCHANGED <<log, retired>>
      BY <1>10, OutcomesUsed DEF StoreFails
    <2>2. \A c \in Channels : \A j \in DOMAIN log'[c] : log'[c][j].item <= proc.item
      BY <2>1, LogUpToLoop DEF OrderInv
    <2>3. /\ QueueInOrder' /\ LoopIsFirst' /\ LogBehindQueue' /\ LogBehindLoop'
          /\ proc'.pc \in {"idle", "get"}
      BY <2>1, <2>2, FinishOrder DEF OrderInv
    <2>4. ASSUME NEW c \in Channels \ retired, NEW j \in DOMAIN log[c]
          PROVE  log[c][j].nonce <= nonceStore'[c]
      <3>1. log[c][j].nonce <= nonceStore[c]
        BY DEF OrderInv, CounterAhead
      <3>2. CASE nonceStore'[c] = nonceStore[c]
        BY <3>1, <3>2
      <3>3. CASE proc.pc = "set" /\ c = Current /\ nonceStore'[c] = proc.nonce
        <4>1. proc.nonce = nonceStore[c] + 1 /\ nonceStore[c] \in Nat
          BY <3>3 DEF OrderInv, CounterAhead, TypeOK
        <4>2. log[c][j] \in Entry
          <5>1. log[c] \in Seq(Entry)
            BY DEF TypeOK
          <5> QED
            BY <5>1
        <4>3. log[c][j].nonce \in Nat
          BY <4>2 DEF Entry
        <4> QED
          BY <3>1, <3>3, <4>1, <4>3
      <3> QED
        BY <1>10, <3>2, <3>3 DEF StoreFails, TypeOK
    <2>5. CounterAhead' /\ RelayOrder'
      BY <2>1, <2>3, <2>4 DEF CounterAhead, OrderInv, RelayOrder
    <2> QED
      BY <2>3, <2>5 DEF OrderInv
  <1>11. CASE AttemptOk
    <2>1. /\ proc.pc = "attempt" /\ Accept /\ Finish("true") /\ "true" \in Outcomes
          /\ nonceStore' = nonceStore /\ retired' = retired
      BY <1>11, OutcomesUsed DEF AttemptOk
    <2>2. /\ RelayOrder'
          /\ \A c \in Channels : \A j \in DOMAIN log'[c] : log'[c][j].item <= proc.item
          /\ \A c \in Channels \ retired : \A j \in DOMAIN log'[c] :
               log'[c][j].nonce <= nonceStore[c]
      BY <2>1, AcceptOrder
    <2>3. /\ QueueInOrder' /\ LoopIsFirst' /\ LogBehindQueue' /\ LogBehindLoop'
          /\ proc'.pc \in {"idle", "get"}
      BY <2>1, <2>2, FinishOrder DEF OrderInv
    <2>4. CounterAhead'
      BY <2>1, <2>2, <2>3 DEF CounterAhead
    <2> QED
      BY <2>2, <2>3, <2>4 DEF OrderInv
  <1>12. CASE AttemptFails
    <2>1. /\ proc.pc = "attempt" /\ (log' = log \/ Accept)
          /\ nonceStore' = nonceStore /\ retired' = retired
      BY <1>12 DEF AttemptFails
    <2>2. /\ RelayOrder'
          /\ \A c \in Channels : \A j \in DOMAIN log'[c] :
               \/ log'[c][j].item < proc.item
                  /\ (c = Current /\ c \notin retired => log'[c][j].nonce < proc.nonce)
               \/ log'[c][j] = [nonce |-> proc.nonce, item |-> proc.item]
          /\ \A c \in Channels : \A j \in DOMAIN log'[c] : log'[c][j].item <= proc.item
          /\ \A c \in Channels \ retired : \A j \in DOMAIN log'[c] :
               log'[c][j].nonce <= nonceStore[c]
      <3>1. CASE Accept
        BY <2>1, <3>1, AcceptOrder
      <3>2. CASE log' = log
        <4>1. \A c \in Channels : \A j \in DOMAIN log[c] : log[c][j].item <= proc.item
          BY <2>1, LogUpToLoop DEF OrderInv
        <4> QED
          BY <2>1, <3>2, <4>1 DEF OrderInv, LogBehindLoop, CounterAhead, RelayOrder
      <3> QED
        BY <2>1, <3>1, <3>2
    <2>3. CASE Finish("rejected")
      <3>1. /\ QueueInOrder' /\ LoopIsFirst' /\ LogBehindQueue' /\ LogBehindLoop'
            /\ proc'.pc \in {"idle", "get"}
        BY <2>1, <2>2, <2>3, FinishOrder, OutcomesUsed DEF OrderInv
      <3>2. CounterAhead'
        BY <2>1, <2>2, <3>1 DEF CounterAhead
      <3> QED
        BY <2>2, <3>1, <3>2 DEF OrderInv
    <2>4. CASE /\ proc.attempt # Attempts - 1
               /\ proc' = [proc EXCEPT !.attempt = @ + 1]
               /\ UNCHANGED <<queue, items>>
      <3>1. proc'.pc = proc.pc /\ proc'.item = proc.item /\ proc'.nonce = proc.nonce
        BY <2>4, NextAttempt DEF TypeOK
      <3>2. Current' = Current
        BY <2>4, <3>1 DEF Current, Channel
      <3>3. LogBehindLoop'
        BY <2>1, <2>2, <3>1, <3>2 DEF LogBehindLoop
      <3>4. CounterAhead'
        BY <2>1, <2>2, <3>1, <3>2 DEF OrderInv, CounterAhead
      <3>5. QueueInOrder' /\ LoopIsFirst' /\ LogBehindQueue'
        BY <2>1, <2>4, <3>1 DEF OrderInv, QueueInOrder, LoopIsFirst, LogBehindQueue
      <3> QED
        BY <2>2, <3>3, <3>4, <3>5 DEF OrderInv
    <2> QED
      BY <1>12, <2>3, <2>4 DEF AttemptFails
  <1>13. CASE Crash
    <2>1. queue' = <<>> /\ proc'.pc = "idle" /\ UNCHANGED <<nonceStore, log, retired>>
      BY <1>13 DEF Crash, Idle
    <2> QED
      BY <2>1 DEF OrderInv, QueueInOrder, LoopIsFirst, LogBehindQueue,
                  LogBehindLoop, CounterAhead, RelayOrder
  <1> QED
    BY <1>1, <1>2, <1>3, <1>4, <1>5, <1>6, <1>7, <1>8, <1>9, <1>10, <1>11, <1>12, <1>13
    DEF Next, Drain

\* Whatever fails, restarts or is cancelled, the relay holds the messages of a
\* live channel in the order they were published, and a nonce is never used
\* for two of them: the counter is persisted before the first attempt
\* (getNextNonce, _process, _processQueue).
THEOREM RelayOrdered == Spec => []RelayOrder
  <1>1. Spec => []OrderInv
    BY TypeCorrect, OrderInit, OrderNext, PTL DEF Spec
  <1>2. OrderInv => RelayOrder
    BY DEF OrderInv
  <1> QED
    BY <1>1, <1>2, PTL

\* Every step gives the receivers of a live channel what they rely on to tell a
\* retry from a new message: a higher nonce, or the same message once more
\* (_process, getNextNonce; _handleIncomingMessage compares the nonces).
THEOREM FeedsReceivers == Spec => FeedsInOrder
  <1> DEFINE Fed ==
        \A c \in Channels \ retired :
          \/ log'[c] = log[c]
          \/ LET e == log'[c][Len(log[c]) + 1]
             IN  /\ log'[c] = Append(log[c], e)
                 /\ \A k \in DOMAIN log[c] : log[c][k].nonce < e.nonce \/ log[c][k] = e
  <1>1. TypeOK /\ OrderInv /\ proc.pc = "attempt" /\ Accept => Fed
    <2> SUFFICES ASSUME TypeOK, OrderInv, proc.pc = "attempt", Accept,
                        NEW c \in Channels \ retired
                 PROVE  \/ log'[c] = log[c]
                        \/ LET e == log'[c][Len(log[c]) + 1]
                           IN  /\ log'[c] = Append(log[c], e)
                               /\ \A k \in DOMAIN log[c] : log[c][k].nonce < e.nonce \/ log[c][k] = e
      OBVIOUS
    <2> DEFINE new == [nonce |-> proc.nonce, item |-> proc.item]
    <2>1. log[c] \in Seq(Entry)
      BY DEF TypeOK
    <2>2. log' = [log EXCEPT ![Current] = Append(@, new)] /\ DOMAIN log = Channels
      BY DEF Accept, TypeOK
    <2>3. CASE c = Current
      <3>1. log'[c] = Append(log[c], new)
        BY <2>2, <2>3
      <3>2. \A k \in DOMAIN log[c] : log[c][k].nonce < new.nonce \/ log[c][k] = new
        BY <2>3 DEF OrderInv, LogBehindLoop
      <3>3. log'[c][Len(log[c]) + 1] = new
        BY <2>1, <3>1
      <3> QED
        BY <3>1, <3>2, <3>3
    <2>4. CASE c # Current
      BY <2>2, <2>4
    <2> QED
      BY <2>3, <2>4
  <1>2. log' = log => Fed
    OBVIOUS
  <1>3. [Next]_vars => log' = log \/ (proc.pc = "attempt" /\ Accept)
    BY DEF Next, Drain, Publish, Clear, Connect, Reconnect, Connected, Subscribed, Disconnect,
           ConnectionLost, GetNonce, SetNonce, StoreFails, AttemptOk, AttemptFails, Crash, vars
  <1>4. TypeOK /\ OrderInv /\ [Next]_vars => [Fed]_vars
    BY <1>1, <1>2, <1>3
  <1>5. Spec => []OrderInv
    BY TypeCorrect, OrderInit, OrderNext, PTL DEF Spec
  <1> QED
    BY <1>4, <1>5, TypeCorrect, PTL DEF Spec, FeedsInOrder

-----------------------------------------------------------------------------
(* A promise that resolves true *)

\* The relay forgets nothing and items keep their channel, so what was sent
\* stays sent.
LEMMA StaysSent ==
  ASSUME TypeOK, NEW i \in Item, Sent(i), Channel(i)' = Channel(i),
         log' = log \/ (proc.pc # "idle" /\ Accept)
  PROVE  Sent(i)'
  <1>1. PICK j \in DOMAIN log[Channel(i)] : log[Channel(i)][j].item = i
    BY DEF Sent
  <1>2. Channel(i) \in Channels
    <2>1. items[i] \in Call
      BY DEF TypeOK, Item
    <2> QED
      BY <2>1 DEF Channel, Call
  <1>3. log[Channel(i)] \in Seq(Entry)
    BY <1>2 DEF TypeOK
  <1>4. CASE log' = log
    BY <1>1, <1>4 DEF Sent
  <1>5. CASE proc.pc # "idle" /\ Accept
    <2>1. \/ log'[Channel(i)] = log[Channel(i)]
          \/ \E e \in Entry : log'[Channel(i)] = Append(log[Channel(i)], e)
      BY <1>2, <1>5, AcceptType
    <2>2. j \in DOMAIN log'[Channel(i)] /\ log'[Channel(i)][j] = log[Channel(i)][j]
      BY <1>1, <1>3, <2>1, Appended
    <2> QED
      BY <1>1, <2>2 DEF Sent
  <1> QED
    BY <1>4, <1>5

\* A step that settles promises, none of them true, and loses nothing.
LEMMA SettledOtherwise ==
  ASSUME TypeOK, TrueMeansAccepted, NEW S, NEW how \in Outcomes \ {"true"},
         items' = items \/ items' = Settle(S, how),
         log' = log \/ (proc.pc # "idle" /\ Accept)
  PROVE  TrueMeansAccepted'
  <1>1. /\ Item' = Item
        /\ \A i \in Item : /\ items'[i].channel = items[i].channel
                           /\ items'[i].outcome = "true" => items[i].outcome = "true"
    BY Settled DEF Item, TypeOK
  <1> SUFFICES ASSUME NEW i \in Item, items'[i].outcome = "true" PROVE Sent(i)'
    BY <1>1 DEF TrueMeansAccepted
  <1>2. Sent(i) /\ Channel(i)' = Channel(i)
    BY <1>1 DEF TrueMeansAccepted, Channel
  <1> QED
    BY <1>2, StaysSent

\* publish() resolves true only when the relay accepted the message, also when
\* a disconnect and a new publish() interleave with the loop.
THEOREM TrueIsAccepted == Spec => []TrueMeansAccepted
  <1>1. Init => TrueMeansAccepted
    BY DEF Init, TrueMeansAccepted, Item
  <1>2. TypeOK /\ TrueMeansAccepted /\ [Next]_vars => TrueMeansAccepted'
    <2> SUFFICES ASSUME TypeOK, TrueMeansAccepted, [Next]_vars PROVE TrueMeansAccepted'
      OBVIOUS
    <2>1. "rejected" \in Outcomes \ {"true"} /\ "false" \in Outcomes \ {"true"}
          /\ "lost" \in Outcomes \ {"true"}
      BY DEF Outcomes
    <2>2. CASE items' = items /\ (log' = log \/ (proc.pc # "idle" /\ Accept))
      BY <2>1, <2>2, SettledOtherwise
    <2>3. ASSUME NEW c \in Channels, Publish(c) PROVE TrueMeansAccepted'
      <3> DEFINE new == [channel |-> c, outcome |-> "pending"]
      <3>1. items \in Seq(Call) /\ new \in Call /\ items' = Append(items, new) /\ log' = log
        BY <2>3, OutcomesUsed DEF Publish, TypeOK, Call
      <3>2. /\ Len(items') = Len(items) + 1 /\ Len(items) \in Nat
            /\ \A i \in 1 .. Len(items) : items'[i] = items[i]
            /\ items'[Len(items) + 1].outcome = "pending"
        BY <3>1, Appended
      <3> SUFFICES ASSUME NEW i \in Item', items'[i].outcome = "true" PROVE Sent(i)'
        BY DEF TrueMeansAccepted
      <3>3. i \in Item /\ items'[i] = items[i]
        BY <3>2 DEF Item
      <3> QED
        BY <3>1, <3>3, StaysSent DEF TrueMeansAccepted, Channel
    <2>4. CASE AttemptOk
      <3>1. /\ proc.pc # "idle" /\ Accept /\ items' = Settle({proc.item}, "true")
            /\ proc.item \in Item
        BY <2>4 DEF AttemptOk, Finish, TypeOK
      <3>2. /\ Item' = Item
            /\ \A i \in Item :
                 /\ items'[i].channel = items[i].channel
                 /\ items'[i].outcome = "true" => i = proc.item \/ items[i].outcome = "true"
        BY SMTT(30), <3>1, Settled, OutcomesUsed DEF Item, TypeOK
      <3> SUFFICES ASSUME NEW i \in Item, items'[i].outcome = "true" PROVE Sent(i)'
        BY <3>2 DEF TrueMeansAccepted
      <3>3. Channel(i)' = Channel(i)
        BY <3>2 DEF Channel
      <3>4. CASE i = proc.item
        <4> DEFINE e == [nonce |-> proc.nonce, item |-> proc.item]
        <4>1. /\ Current \in Channels /\ e \in Entry /\ e.item = i
              /\ log'[Current] = Append(log[Current], e) /\ log[Current] \in Seq(Entry)
          BY <3>1, <3>4, AcceptType DEF TypeOK
        <4> HIDE DEF e
        <4>2. Len(log[Current]) + 1 \in DOMAIN log'[Current]
              /\ log'[Current][Len(log[Current]) + 1] = e
          BY <4>1, Appended
        <4> QED
          BY <3>3, <3>4, <4>1, <4>2 DEF Sent, Current
      <3>5. CASE items[i].outcome = "true"
        BY <3>1, <3>3, <3>5, StaysSent DEF TrueMeansAccepted
      <3> QED
        BY <3>2, <3>4, <3>5
    <2>5. CASE StoreFails \/ AttemptFails
      BY <2>1, <2>2, <2>5, SettledOtherwise DEF StoreFails, AttemptFails, Finish
    <2>6. CASE Disconnect \/ Crash
      BY <2>1, <2>6, SettledOtherwise DEF Disconnect, Crash
    <2> QED
      BY <2>2, <2>3, <2>4, <2>5, <2>6 DEF Next, Drain, Clear, Connect, Reconnect, Connected,
         Subscribed, ConnectionLost, GetNonce, SetNonce, vars, conn
  <1> QED
    BY <1>1, <1>2, TypeCorrect, PTL DEF Spec

-----------------------------------------------------------------------------
(* No promise is forgotten *)

\* Why, while nothing is published after disconnect(): nothing is pushed on an
\* emptied queue, so what the loop shifts is what it works on.
LoopHasHead ==
  /\ closed => queue = <<>>
  /\ proc.pc # "idle" /\ ~ closed => queue # <<>> /\ queue[1] = proc.item

QueueKept == LoopHasHead /\ NothingLeftPending

\* The loop moves, or an idle one may wake; the queue and the promises stay.
LEMMA QueueUntouched ==
  ASSUME TypeOK, QueueKept, UNCHANGED <<queue, items, closed>>,
         \/ proc'.pc # "idle" /\ proc.pc # "idle" /\ proc'.item = proc.item
         \/ proc' = proc
         \/ queue # <<>> /\ proc' = Peek(queue)
  PROVE  QueueKept'
  <1>1. NothingLeftPending'
    BY DEF QueueKept, NothingLeftPending, Item
  <1>2. LoopHasHead'
    BY QueueTail DEF QueueKept, LoopHasHead, TypeOK, Peek
  <1> QED
    BY <1>1, <1>2 DEF QueueKept

LEMMA FinishKeeps ==
  ASSUME TypeOK, QueueKept, proc.pc # "idle", NEW how \in Outcomes \ {"pending"},
         Finish(how), UNCHANGED closed
  PROVE  QueueKept'
  <1>1. /\ items' = Settle({proc.item}, how) /\ Item' = Item
        /\ \A i \in Item : items'[i].outcome = "pending" =>
             items[i].outcome = "pending" /\ i # proc.item
    <2>1. items \in Seq(Call) /\ how \in Outcomes /\ how # "pending"
      BY DEF TypeOK
    <2>2. items' = Settle({proc.item}, how)
      BY DEF Finish
    <2>3. /\ Len(items') = Len(items)
          /\ \A i \in Item : items'[i].outcome =
               IF i \in {proc.item} /\ items[i].outcome = "pending"
               THEN how ELSE items[i].outcome
      BY <2>1, <2>2, Settled
    <2> QED
      BY <2>1, <2>2, <2>3 DEF Item
  <1>2. CASE queue = <<>>
    BY <1>1, <1>2 DEF Finish, QueueKept, LoopHasHead, NothingLeftPending, Idle
  <1>3. CASE queue # <<>>
    <2>1. ~ closed /\ queue[1] = proc.item
      BY <1>3 DEF QueueKept, LoopHasHead
    <2>2. /\ queue \in Seq(Item) /\ queue' = Tail(queue) /\ Len(queue) \in Nat \ {0}
          /\ queue' \in Seq(Item)
          /\ Len(queue') = Len(queue) - 1
          /\ \A k \in 1 .. Len(queue') : queue'[k] = queue[k + 1]
      BY <1>3, QueueTail DEF Finish, TypeOK
    <2>3. LoopHasHead'
      BY <2>1, <2>2, QueueTail DEF Finish, LoopHasHead, Peek, Idle
    <2>4. NothingLeftPending'
      <3> SUFFICES ASSUME NEW i \in Item, items'[i].outcome = "pending"
                   PROVE  \E k \in DOMAIN queue' : queue'[k] = i
        BY <1>1 DEF NothingLeftPending
      <3>1. PICK k \in DOMAIN queue : queue[k] = i
        BY <1>1 DEF QueueKept, NothingLeftPending
      <3>2. k \in 1 .. Len(queue) /\ k # 1
        <4>1. DOMAIN queue = 1 .. Len(queue)
          BY <2>2
        <4>2. i # proc.item
          BY <1>1
        <4> QED
          BY <2>1, <3>1, <4>1, <4>2
      <3>3. k - 1 \in DOMAIN queue' /\ queue'[k - 1] = queue[k]
        BY <2>2, <3>2
      <3> QED
        BY <3>1, <3>3
    <2> QED
      BY <2>3, <2>4 DEF QueueKept
  <1> QED
    BY <1>2, <1>3

\* disconnect() and the death of the process settle whatever is pending.
LEMMA AllSettled ==
  ASSUME TypeOK, NEW S, NEW how \in Outcomes \ {"pending"},
         items' = Settle(S, how), queue' = <<>>, closed' \/ proc' = Idle,
         \A i \in Item : items[i].outcome = "pending" => i \in S
  PROVE  QueueKept'
  <1>1. /\ Item' = Item
        /\ \A i \in Item : items'[i].outcome # "pending"
    <2>1. items \in Seq(Call) /\ how \in Outcomes /\ how # "pending"
      BY DEF TypeOK
    <2>2. /\ Len(items') = Len(items)
          /\ \A i \in Item : items'[i].outcome =
               IF i \in S /\ items[i].outcome = "pending" THEN how ELSE items[i].outcome
      BY <2>1, Settled
    <2> QED
      BY <2>1, <2>2 DEF Item
  <1> QED
    BY <1>1 DEF QueueKept, LoopHasHead, NothingLeftPending, Idle

\* A step after which nothing was published too late, and before it neither.
LEMMA KeptNext ==
  ASSUME TypeOK, QueueKept, [Next]_vars, ~ reused, ~ reused'
  PROVE  QueueKept'
  <1>0. {"false", "lost", "true", "rejected"} \subseteq Outcomes \ {"pending"}
    BY DEF Outcomes
  <1>1. CASE UNCHANGED vars
    BY <1>1, QueueUntouched DEF vars
  <1>2. ASSUME NEW c \in Channels, Publish(c) PROVE QueueKept'
    <2> DEFINE new == [channel |-> c, outcome |-> "pending"]
               id  == Len(items) + 1
    <2>1. /\ ~ closed /\ ~ closed'
          /\ items' = Append(items, new) /\ queue' = Append(queue, id)
      BY <1>2 DEF Publish, TypeOK
    <2>2. /\ items \in Seq(Call) /\ new \in Call /\ Len(items) \in Nat
          /\ queue \in Seq(Nat) /\ id \in Nat
      BY OutcomesUsed, SeqWidens DEF TypeOK, Call, Item
    <2> HIDE DEF new, id
    <2>3. /\ Len(items') = Len(items) + 1
          /\ \A i \in 1 .. Len(items) : items'[i] = items[i]
      BY <2>1, <2>2, Appended
    <2>4. /\ queue' # <<>> /\ queue' \in Seq(Nat)
          /\ DOMAIN queue' = 1 .. Len(queue) + 1 /\ Len(queue) \in Nat
          /\ DOMAIN queue = 1 .. Len(queue)
          /\ \A k \in 1 .. Len(queue) : queue'[k] = queue[k]
          /\ queue'[Len(queue) + 1] = id
      <3>1. Append(queue, id) \in Seq(Nat) /\ Append(queue, id) # <<>>
        BY <2>2, Appended
      <3> QED
        BY <2>1, <2>2, <3>1, Appended, SMTT(30)
    <2>5. LoopHasHead'
      <3>1. CASE proc' = proc
        <4> SUFFICES ASSUME proc.pc # "idle" PROVE queue'[1] = proc.item
          BY <2>1, <2>4, <3>1 DEF LoopHasHead
        <4>1. queue # <<>> /\ queue[1] = proc.item
          BY <2>1 DEF QueueKept, LoopHasHead
        <4>2. 1 \in 1 .. Len(queue)
          BY <2>2, <4>1
        <4> QED
          BY <2>4, <4>1, <4>2
      <3>2. CASE proc' = Peek(queue')
        <4>1. Head(queue') = queue'[1]
          BY <2>4
        <4> QED
          BY <2>1, <2>4, <3>2, <4>1 DEF LoopHasHead, Peek
      <3> QED
        BY <1>2, <3>1, <3>2 DEF Publish, ProcessQueue
    <2>6. NothingLeftPending'
      <3> SUFFICES ASSUME NEW i \in 1 .. Len(items) + 1, items'[i].outcome = "pending"
                   PROVE  \E k \in DOMAIN queue' : queue'[k] = i
        BY <2>3 DEF NothingLeftPending, Item
      <3>1. CASE i = Len(items) + 1
        BY <2>4, <3>1 DEF id
      <3>2. CASE i \in 1 .. Len(items)
        <4>1. PICK k \in DOMAIN queue : queue[k] = i
          BY <2>3, <3>2 DEF QueueKept, NothingLeftPending, Item
        <4> QED
          BY <2>4, <4>1
      <3> QED
        BY <2>2, <3>1, <3>2
    <2> QED
      BY <2>5, <2>6 DEF QueueKept
  <1>3. ASSUME NEW c \in Channels, Clear(c) PROVE QueueKept'
    BY <1>3, QueueUntouched DEF Clear, conn
  <1>4. CASE Connect \/ Reconnect \/ Connected \/ Subscribed
    BY <1>4, QueueUntouched DEF Connect, Reconnect, Connected, Subscribed, ProcessQueue, conn
  <1>5. ASSUME NEW to \in {"connecting", "disconnected"}, ConnectionLost(to)
        PROVE  QueueKept'
    BY <1>5, QueueUntouched DEF ConnectionLost
  <1>6. CASE Disconnect
    <2>1. \A i \in Item : items[i].outcome = "pending" => i \in {queue[k] : k \in DOMAIN queue}
      BY DEF QueueKept, NothingLeftPending
    <2> QED
      BY <1>0, <1>6, <2>1, AllSettled DEF Disconnect
  <1>7. CASE Crash
    BY <1>0, <1>7, AllSettled DEF Crash
  <1>8. CASE GetNonce \/ SetNonce
    <2>1. proc.pc # "idle" /\ proc'.pc # "idle" /\ proc'.item = proc.item
      BY <1>8 DEF GetNonce, SetNonce, TypeOK, Loop
    <2> QED
      BY <1>8, <2>1, QueueUntouched DEF GetNonce, SetNonce, conn
  <1>9. CASE StoreFails \/ AttemptOk
    BY <1>0, <1>9, FinishKeeps DEF StoreFails, AttemptOk, conn
  <1>10. CASE AttemptFails
    <2>1. CASE Finish("rejected")
      BY <1>0, <1>10, <2>1, FinishKeeps DEF AttemptFails, conn
    <2>2. CASE proc' = [proc EXCEPT !.attempt = @ + 1] /\ UNCHANGED <<queue, items>>
      <3>1. proc.pc # "idle" /\ proc'.pc # "idle" /\ proc'.item = proc.item
        BY <1>10, <2>2 DEF AttemptFails, TypeOK, Loop
      <3> QED
        BY <1>10, <2>2, <3>1, QueueUntouched DEF AttemptFails, conn
    <2> QED
      BY <1>10, <2>1, <2>2 DEF AttemptFails
  <1> QED
    BY <1>1, <1>2, <1>3, <1>4, <1>5, <1>6, <1>7, <1>8, <1>9, <1>10 DEF Next, Drain

\* While the owner of a transport does not publish on it after disconnect(), no
\* promise of publish() is lost sight of: it belongs to a queued item until it
\* settles (publish, _processQueue, disconnect).  Without the condition this
\* fails.
THEOREM NothingForgotten == Spec => []PendingIsQueued
  <1> DEFINE Kept == ~ reused => QueueKept
  <1>1. Init => Kept
    BY DEF Init, QueueKept, LoopHasHead, NothingLeftPending, Item, Idle
  <1>2. TypeOK /\ Kept /\ [Next]_vars => Kept'
    <2> SUFFICES ASSUME TypeOK, Kept, [Next]_vars, ~ reused' PROVE QueueKept'
      OBVIOUS
    <2>1. CASE ~ reused
      BY <2>1, KeptNext
    <2>2. CASE reused
      <3>1. Crash
        BY <2>2 DEF Next, Drain, Publish, Clear, Connect, Reconnect, Connected, Subscribed,
             Disconnect, ConnectionLost, GetNonce, SetNonce, StoreFails, AttemptOk,
             AttemptFails, vars, conn
      <3> QED
        BY <3>1, AllSettled DEF Crash, Outcomes
    <2> QED
      BY <2>1, <2>2
  <1>3. Kept => PendingIsQueued
    BY DEF QueueKept, PendingIsQueued
  <1> HIDE DEF Kept
  <1> QED
    BY <1>1, <1>2, <1>3, TypeCorrect, PTL DEF Spec
=============================================================================
