------------------------------- MODULE Outbox -------------------------------
(***************************************************************************)
(* The sending side of one WebSocketTransport: the in-memory queue of      *)
(* publish() calls, the serial loop that drains it, the persisted          *)
(* per-channel nonce counter, the bounded retry of a publication, and the  *)
(* connection events that start, starve or empty the queue.                *)
(*                                                                         *)
(* A step is the code between two awaits.  Everything that runs in the     *)
(* process (queue, promises, loop) dies with it; the nonce counter is in   *)
(* the key-value store and survives.                                       *)
(***************************************************************************)
EXTENDS Naturals, Sequences

CONSTANTS
  Channels,       \* relay channels the transport publishes on
  Attempts,       \* MAX_RETRY_ATTEMPTS
  MaxItems,       \* bound: publish() calls in a behaviour
  MaxCrashes      \* bound: process restarts in a behaviour

ASSUME AttemptsAssumption == Attempts \in Nat \ {0}
ASSUME BoundsAssumption   == MaxItems \in Nat /\ MaxCrashes \in Nat

VARIABLES
  state,       \* the transport's view of the connection
  queue,       \* ids of the queued items, head first
  items,       \* every publish() call so far: its channel, its promise
  proc,        \* the drain loop; idle iff isProcessingQueue is false
  nonceStore,  \* persisted counter of each channel, 0 when the key is absent
  log,         \* what the relay accepted on each channel, oldest first
  retired,     \* channels whose storage was cleared: their session is over
  closed,      \* disconnect() was called on this transport
  reused,      \* history: publish() was called on it after that
  crashes      \* restarts so far

vars == <<state, queue, items, proc, nonceStore, log, retired, closed, reused, crashes>>
conn == <<state, closed, reused, crashes>>

States   == {"disconnected", "connecting", "connected"}
Outcomes == {"pending", "true", "false", "rejected", "lost"}
Item     == 1 .. Len(items)
Call     == [channel : Channels, outcome : Outcomes]
Loop     == [pc : {"idle", "get", "set", "attempt"}, item : Nat,
             nonce : Nat, attempt : 0 .. Attempts - 1]
Entry    == [nonce : Nat, item : Item]

Idle       == [pc |-> "idle", item |-> 0, nonce |-> 0, attempt |-> 0]
Peek(q)    == [pc |-> "get", item |-> Head(q), nonce |-> 0, attempt |-> 0]
Channel(i) == items[i].channel
Current    == Channel(proc.item)
Sent(i)    == \E k \in DOMAIN log[Channel(i)] : log[Channel(i)][k].item = i

\* A promise settles once: resolving or rejecting it again does nothing.
Settle(S, how) ==
  [i \in Item |-> IF i \in S /\ items[i].outcome = "pending"
                  THEN [items[i] EXCEPT !.outcome = how] ELSE items[i]]

Init ==
  /\ state = "disconnected"
  /\ queue = <<>>
  /\ items = <<>>
  /\ proc = Idle
  /\ nonceStore = [c \in Channels |-> 0]
  /\ log = [c \in Channels |-> <<>>]
  /\ retired = {}
  /\ closed = FALSE
  /\ reused = FALSE
  /\ crashes = 0

-----------------------------------------------------------------------------
(* The queue and the connection *)

\* _processQueue() up to its first await, called with queue q in state st.
ProcessQueue(q, st) ==
  proc' = IF proc.pc = "idle" /\ st = "connected" /\ q # <<>>
          THEN Peek(q) ELSE proc

Publish(c) ==
  /\ Len(items) < MaxItems
  /\ c \notin retired
  /\ items' = Append(items, [channel |-> c, outcome |-> "pending"])
  /\ queue' = Append(queue, Len(items) + 1)
  /\ ProcessQueue(queue', state)
  /\ reused' = (reused \/ closed)
  /\ UNCHANGED <<state, closed, crashes, nonceStore, log, retired>>

\* connect(): nothing unless disconnected; the promise waits for Connected.
Connect ==
  /\ state = "disconnected"
  /\ state' = "connecting"
  /\ UNCHANGED <<queue, items, proc, nonceStore, log, retired, closed, reused, crashes>>

\* reconnect(): drops the connection and dials again; the queue is kept.
Reconnect ==
  /\ state # "connecting"
  /\ state' = "connecting"
  /\ UNCHANGED <<queue, items, proc, nonceStore, log, retired, closed, reused, crashes>>

\* Mutation: the listener of "connected" does not drain the queue.
ConnectedOnly ==
  /\ state = "connecting"
  /\ state' = "connected"
  /\ UNCHANGED <<queue, items, proc, nonceStore, log, retired, closed, reused, crashes>>

Connected ==
  /\ state = "connecting"
  /\ state' = "connected"
  /\ ProcessQueue(queue, "connected")
  /\ UNCHANGED <<queue, items, nonceStore, log, retired, closed, reused, crashes>>

\* The client library lost the connection: it redials, or gives up.
ConnectionLost(to) ==
  /\ state # to
  /\ state # "disconnected"
  /\ state' = to
  /\ UNCHANGED <<queue, items, proc, nonceStore, log, retired, closed, reused, crashes>>

\* A channel's subscription came up: the listener also drains the queue.
Subscribed ==
  /\ state = "connected"
  /\ ProcessQueue(queue, state)
  /\ UNCHANGED <<conn, queue, items, nonceStore, log, retired>>

\* Mutation: disconnect() empties the array and resolves nothing.
DisconnectSilently ==
  /\ queue' = <<>>
  /\ state' = "disconnected"
  /\ closed' = TRUE
  /\ UNCHANGED <<items, proc, nonceStore, log, retired, reused, crashes>>

\* disconnect(): every queued promise resolves false, the array is emptied,
\* the connection is dropped.  The loop is not told.
Disconnect ==
  /\ items' = Settle({queue[k] : k \in DOMAIN queue}, "false")
  /\ queue' = <<>>
  /\ state' = "disconnected"
  /\ closed' = TRUE
  /\ UNCHANGED <<proc, nonceStore, log, retired, reused, crashes>>

\* clear(channel): its counter is deleted; the channel is not used again.
Clear(c) ==
  /\ c \notin retired
  /\ \A i \in Item : Channel(i) = c => items[i].outcome # "pending"
  /\ nonceStore' = [nonceStore EXCEPT ![c] = 0]
  /\ retired' = retired \union {c}
  /\ UNCHANGED <<conn, queue, items, proc, log>>

-----------------------------------------------------------------------------
(* The drain loop *)

\* Mutation: the loop is left after one item.
FinishAndLeave(how) ==
  /\ items' = Settle({proc.item}, how)
  /\ queue' = IF queue = <<>> THEN <<>> ELSE Tail(queue)
  /\ proc' = Idle

\* The loop is done with its item: shift() drops whatever is at the head now,
\* the item's promise settles, and the next head is taken.
Finish(how) ==
  /\ items' = Settle({proc.item}, how)
  /\ queue' = IF queue = <<>> THEN <<>> ELSE Tail(queue)
  /\ proc' = IF queue' = <<>> THEN Idle ELSE Peek(queue')

GetNonce ==
  /\ proc.pc = "get"
  /\ proc' = [proc EXCEPT !.pc = "set", !.nonce = nonceStore[Current] + 1]
  /\ UNCHANGED <<conn, queue, items, nonceStore, log, retired>>

SetNonce ==
  /\ proc.pc = "set"
  /\ nonceStore' = [nonceStore EXCEPT ![Current] = proc.nonce]
  /\ proc' = [proc EXCEPT !.pc = "attempt"]
  /\ UNCHANGED <<conn, queue, items, log, retired>>

\* The store rejects the get, or the set after or before it took effect.
StoreFails ==
  /\ proc.pc \in {"get", "set"}
  /\ \/ UNCHANGED nonceStore
     \/ /\ proc.pc = "set"
        /\ nonceStore' = [nonceStore EXCEPT ![Current] = proc.nonce]
  /\ Finish("rejected")
  /\ UNCHANGED <<conn, log, retired>>

\* The relay accepts the publication in flight.
Accept ==
  log' = [log EXCEPT ![Current] =
            Append(@, [nonce |-> proc.nonce, item |-> proc.item])]

\* The connection is the transport's own: on a shared one whose hub is gone, publish()
\* would return without sending.
AttemptOk ==
  /\ proc.pc = "attempt"
  /\ state = "connected"
  /\ Accept
  /\ Finish("true")
  /\ UNCHANGED <<conn, nonceStore, retired>>

\* Mutations: each attempt takes a nonce of its own; the last failure is
\* swallowed.
AttemptFailsAnew ==
  /\ proc.pc = "attempt"
  /\ \/ UNCHANGED log
     \/ state = "connected" /\ Accept
  /\ IF proc.attempt = Attempts - 1
     THEN Finish("rejected")
     ELSE /\ proc' = [proc EXCEPT !.attempt = @ + 1, !.pc = "get"]
          /\ UNCHANGED <<queue, items>>
  /\ UNCHANGED <<conn, nonceStore, retired>>

AttemptFailsQuietly ==
  /\ proc.pc = "attempt"
  /\ UNCHANGED log
  /\ IF proc.attempt = Attempts - 1
     THEN Finish("true")
     ELSE /\ proc' = [proc EXCEPT !.attempt = @ + 1]
          /\ UNCHANGED <<queue, items>>
  /\ UNCHANGED <<conn, nonceStore, retired>>

\* An attempt fails: the relay never saw it, or it did and the reply was lost.
AttemptFails ==
  /\ proc.pc = "attempt"
  /\ \/ UNCHANGED log
     \/ state = "connected" /\ Accept
  /\ IF proc.attempt = Attempts - 1
     THEN Finish("rejected")
     ELSE /\ proc' = [proc EXCEPT !.attempt = @ + 1]
          /\ UNCHANGED <<queue, items>>
  /\ UNCHANGED <<conn, nonceStore, retired>>

\* The process dies and starts again with a new transport on the same store.
Crash ==
  /\ crashes < MaxCrashes
  /\ crashes' = crashes + 1
  /\ state' = "disconnected"
  /\ queue' = <<>>
  /\ items' = Settle(Item, "lost")
  /\ proc' = Idle
  /\ closed' = FALSE
  /\ reused' = FALSE
  /\ UNCHANGED <<nonceStore, log, retired>>

Drain == GetNonce \/ SetNonce \/ StoreFails \/ AttemptOk \/ AttemptFails

Next ==
  \/ \E c \in Channels : Publish(c) \/ Clear(c)
  \/ Connect \/ Reconnect \/ Connected \/ Subscribed \/ Disconnect
  \/ \E to \in {"connecting", "disconnected"} : ConnectionLost(to)
  \/ Drain
  \/ Crash

Spec == Init /\ [][Next]_vars

\* Promises of the store, of the client library and of retry() settle, so a
\* loop that is running goes on.  Nobody promises a connection.
FairSpec == Spec /\ WF_vars(Drain)

-----------------------------------------------------------------------------
TypeOK ==
  /\ state \in States
  /\ items \in Seq(Call)
  /\ queue \in Seq(Item)
  /\ proc \in Loop
  /\ proc.pc # "idle" => proc.item \in Item
  /\ nonceStore \in [Channels -> Nat]
  /\ log \in [Channels -> Seq(Entry)]
  /\ retired \subseteq Channels
  /\ closed \in BOOLEAN
  /\ reused \in BOOLEAN
  /\ crashes \in 0 .. MaxCrashes

\* What the relay holds of a channel is in the order of the publish() calls,
\* with strictly increasing nonces from item to item: an entry repeats only
\* as a retry, next to itself and under the same nonce.  A receiver that
\* drops nonces it has seen drops retries and nothing else (_process,
\* getNextNonce, across failures and restarts).
RelayOrder ==
  \A c \in Channels \ retired : \A j, k \in DOMAIN log[c] :
    j < k => LET a == log[c][j] b == log[c][k]
             IN  \/ a = b
                 \/ a.item < b.item /\ a.nonce < b.nonce

\* What the receiving side may assume of a publication (Inbox!Publish): its
\* nonce is no lower than those of its sender before it, and an equal one is
\* the retry of the same message.
FeedsInOrder ==
  [][\A c \in Channels \ retired :
       \/ log'[c] = log[c]
       \/ LET e == log'[c][Len(log[c]) + 1]
          IN  /\ log'[c] = Append(log[c], e)
              /\ \A k \in DOMAIN log[c] : log[c][k].nonce < e.nonce \/ log[c][k] = e]_vars

\* What makes RelayOrder inductive: the queue and the relay's log are two
\* halves of one sequence of publish() calls, cut at the item in the loop, and
\* the counter in the store is ahead of every nonce on the relay.
QueueInOrder ==
  \A j, k \in DOMAIN queue : j < k => queue[j] < queue[k]

LoopIsFirst ==
  proc.pc # "idle" => \A k \in DOMAIN queue : proc.item <= queue[k]

LogBehindQueue ==
  proc.pc = "idle" =>
    \A c \in Channels : \A j \in DOMAIN log[c] : \A k \in DOMAIN queue :
      log[c][j].item < queue[k]

LogBehindLoop ==
  proc.pc # "idle" =>
    \A c \in Channels : \A j \in DOMAIN log[c] :
      \/ /\ log[c][j].item < proc.item
         /\ proc.pc = "attempt" /\ c = Current /\ c \notin retired =>
              log[c][j].nonce < proc.nonce
      \/ proc.pc = "attempt" /\ log[c][j] = [nonce |-> proc.nonce, item |-> proc.item]

CounterAhead ==
  /\ \A c \in Channels \ retired : \A j \in DOMAIN log[c] :
       log[c][j].nonce <= nonceStore[c]
  /\ proc.pc \in {"set", "attempt"} /\ Current \notin retired =>
       proc.nonce = IF proc.pc = "set" THEN nonceStore[Current] + 1
                                       ELSE nonceStore[Current]

OrderInv ==
  /\ QueueInOrder
  /\ LoopIsFirst
  /\ LogBehindQueue
  /\ LogBehindLoop
  /\ CounterAhead
  /\ RelayOrder

\* No lost wake-up: while connected, a non-empty queue has a running loop
\* (publish, the connected listener and _processQueue's early return).
NoStalledQueue ==
  state = "connected" /\ queue # <<>> => proc.pc # "idle"

\* publish() resolves true only for a message the relay accepted.
TrueMeansAccepted ==
  \A i \in Item : items[i].outcome = "true" => Sent(i)

\* "Returns a promise that resolves when the message is published" (publish): a
\* promise that has not settled belongs to an item that is still queued.
NothingLeftPending ==
  \A i \in Item : items[i].outcome = "pending" =>
    \E k \in DOMAIN queue : queue[k] = i

\* The loop settles what it shifts, as long as nobody publishes on a transport
\* after its disconnect() (_processQueue, disconnect).
PendingIsQueued == ~ reused => NothingLeftPending

\* Every publish() made before or while connected gets its answer, through
\* retries, store failures, lost connections and disconnect().
PublishSettles ==
  \A i \in 1 .. MaxItems :
    (i \in Item /\ state = "connected") ~>
      (reused \/ (i \in Item /\ items[i].outcome # "pending"))
=============================================================================
