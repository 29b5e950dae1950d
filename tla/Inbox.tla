------------------------------- MODULE Inbox -------------------------------
(***************************************************************************)
(* The receiving side of one WebSocketTransport on one channel: live       *)
(* publications, the history fetched at each "subscribed", recovery after  *)
(* a lost connection, and the persisted map of the latest nonce of every   *)
(* sender that removes duplicates.                                         *)
(*                                                                         *)
(* The feed is what the relay accepted from the other clients; the         *)
(* channel's own messages come back too and are dropped before any await.  *)
(* What Outbox proves of it is all that is assumed: per sender, nonces do  *)
(* not go down, and an equal one is the retry of the same message.         *)
(*                                                                         *)
(* _handleIncomingMessage() of a live publication is awaited by nobody; a  *)
(* history fetch handles its messages one after the other.  Each is a lane *)
(* of its own, and a step is the code between two awaits of a lane.        *)
(***************************************************************************)
EXTENDS Naturals, Sequences, FiniteSets

CONSTANTS
  Senders,     \* client ids of the others
  Lanes,       \* bound: handlers and history fetches in progress at once
  MaxFeed,     \* bound: publications the relay accepts
  MaxNonce,    \* bound: nonces
  MaxCrashes   \* bound: process restarts

ASSUME BoundsAssumption == MaxFeed \in Nat /\ MaxNonce \in Nat /\ MaxCrashes \in Nat

VARIABLES
  feed,     \* publications the relay accepted, oldest first
  kept,     \* how many of them the relay has forgotten (history_size, history_ttl)
  link,     \* the subscription: none, up, lost, or over once clear() was called
  pos,      \* how many of them were passed to this subscription, or skipped
  latest,   \* persisted "latest-nonces": the highest nonce of each sender
  lane,     \* handlers and fetches in progress
  emitted,  \* history: "message" events, over all lives of the process
  crashes,  \* restarts so far
  overlap,  \* history: two lanes were in progress at once
  hurt      \* history: the store, a fetch or the process failed in mid-handling

vars == <<feed, kept, link, pos, latest, lane, emitted, crashes, overlap, hurt>>

Message == [from : Senders, nonce : Nat]

\* pc: fetch, history() is awaited; get, set: getLatestNonces, setLatestNonces;
\* emit: the continuation that emits.  k .. last: publications to handle.
Free == [pc |-> "free", k |-> 0, last |-> 0, seen |-> [s \in Senders |-> 0]]

Init ==
  /\ feed = <<>>
  /\ kept = 0
  /\ link = "none"
  /\ pos = 0
  /\ latest = [s \in Senders |-> 0]
  /\ lane = [l \in Lanes |-> Free]
  /\ emitted = <<>>
  /\ crashes = 0
  /\ overlap = FALSE
  /\ hurt = FALSE

Busy(l) == lane[l].pc # "free"
Head1(l) == feed[lane[l].k]

-----------------------------------------------------------------------------
(* The relay *)

\* The last message of s once more, or a newer one; a failed publication may
\* have used up nonces in between.
Publish(s) ==
  /\ Len(feed) < MaxFeed
  /\ \E n \in 1 .. MaxNonce :
       /\ \A k \in DOMAIN feed : feed[k].from = s => feed[k].nonce <= n
       /\ feed' = Append(feed, [from |-> s, nonce |-> n])
  /\ UNCHANGED <<kept, link, pos, latest, lane, emitted, crashes, overlap, hurt>>

\* The oldest publication leaves the history.
Forget ==
  /\ kept < Len(feed)
  /\ kept' = kept + 1
  /\ UNCHANGED <<feed, link, pos, latest, lane, emitted, crashes, overlap, hurt>>

-----------------------------------------------------------------------------
(* The subscription *)

\* A lane starts; overlap remembers that another one was in progress.
Start(l, what) ==
  /\ ~ Busy(l)
  /\ lane' = [lane EXCEPT ![l] = what]
  /\ overlap' = (overlap \/ \E m \in Lanes : Busy(m))

Fetch    == [Free EXCEPT !.pc = "fetch"]
Handle(k) == [Free EXCEPT !.pc = "get", !.k = k, !.last = k]

\* subscribe(): a new subscription starts at the top of the channel, and its
\* "subscribed" listener fetches the history.
Subscribe(l) ==
  /\ link = "none"
  /\ link' = "up"
  /\ pos' = Len(feed)
  /\ Start(l, Fetch)
  /\ UNCHANGED <<feed, kept, latest, emitted, crashes, hurt>>

Lose ==
  /\ link = "up"
  /\ link' = "lost"
  /\ UNCHANGED <<feed, kept, pos, latest, lane, emitted, crashes, overlap, hurt>>

\* The client library subscribes again: "subscribed" once more, then the
\* publications missed, or none if the relay has forgotten one of them.
Resubscribe(l) ==
  /\ link = "lost"
  /\ link' = "up"
  /\ pos' = IF kept <= pos THEN pos ELSE Len(feed)
  /\ Start(l, Fetch)
  /\ UNCHANGED <<feed, kept, latest, emitted, crashes, hurt>>

\* The "publication" listener.
Deliver(l) ==
  /\ link = "up"
  /\ pos < Len(feed)
  /\ pos' = pos + 1
  /\ Start(l, Handle(pos'))
  /\ UNCHANGED <<feed, kept, link, latest, emitted, crashes, hurt>>

\* disconnect(): no more publications; what is in progress goes on.
Leave ==
  /\ link \in {"up", "lost"}
  /\ link' = "none"
  /\ pos' = 0
  /\ UNCHANGED <<feed, kept, latest, lane, emitted, crashes, overlap, hurt>>

\* clear(): the nonces are deleted; the channel is not subscribed to again.
Clear ==
  /\ link # "over"
  /\ link' = "over"
  /\ pos' = 0
  /\ latest' = [s \in Senders |-> 0]
  /\ UNCHANGED <<feed, kept, lane, emitted, crashes, overlap, hurt>>

-----------------------------------------------------------------------------
(* A lane *)

\* Done with publication k: the next one of the fetch, if any.
Next1(l) ==
  lane' = [lane EXCEPT ![l] = IF @.k < @.last
                                THEN [Free EXCEPT !.pc = "get", !.k = lane[l].k + 1, !.last = lane[l].last]
                                ELSE Free]

\* Mutation: the fetch starts at the newest publication.
FetchedNewest(l) ==
  /\ lane[l].pc = "fetch"
  /\ link = "up"
  /\ lane' = [lane EXCEPT ![l] =
                IF kept = Len(feed) THEN Free
                ELSE [Free EXCEPT !.pc = "get", !.k = Len(feed), !.last = Len(feed)]]
  /\ UNCHANGED <<feed, kept, link, pos, latest, emitted, crashes, overlap, hurt>>

\* history() answers with what the relay still has.
Fetched(l) ==
  /\ lane[l].pc = "fetch"
  /\ link = "up"
  /\ lane' = [lane EXCEPT ![l] =
                IF kept = Len(feed) THEN Free
                ELSE [Free EXCEPT !.pc = "get", !.k = kept + 1, !.last = Len(feed)]]
  /\ UNCHANGED <<feed, kept, link, pos, latest, emitted, crashes, overlap, hurt>>

\* ... or rejects: code 11 is ignored, anything else reported; it is not tried again.
FetchFails(l) ==
  /\ lane[l].pc = "fetch"
  /\ lane' = [lane EXCEPT ![l] = Free]
  /\ hurt' = (hurt \/ link = "up")
  /\ UNCHANGED <<feed, kept, link, pos, latest, emitted, crashes, overlap>>

\* Mutations: a duplicate ends the fetch; a nonce that was seen passes too.
ReadOrStop(l) ==
  /\ lane[l].pc = "get"
  /\ lane' = [lane EXCEPT ![l] = IF Head1(l).nonce > latest[Head1(l).from]
                                 THEN [@ EXCEPT !.pc = "set", !.seen = latest] ELSE Free]
  /\ UNCHANGED <<feed, kept, link, pos, latest, emitted, crashes, overlap, hurt>>

ReadAtLeast(l) ==
  /\ lane[l].pc = "get"
  /\ IF Head1(l).nonce >= latest[Head1(l).from]
     THEN lane' = [lane EXCEPT ![l].pc = "set", ![l].seen = latest]
     ELSE Next1(l)
  /\ UNCHANGED <<feed, kept, link, pos, latest, emitted, crashes, overlap, hurt>>

\* getLatestNonces: a nonce that is not higher is a duplicate.
Read(l) ==
  /\ lane[l].pc = "get"
  /\ IF Head1(l).nonce > latest[Head1(l).from]
     THEN lane' = [lane EXCEPT ![l].pc = "set", ![l].seen = latest]
     ELSE Next1(l)
  /\ UNCHANGED <<feed, kept, link, pos, latest, emitted, crashes, overlap, hurt>>

\* setLatestNonces writes the whole map as it was read, with one entry changed.
Written(l) == [lane[l].seen EXCEPT ![Head1(l).from] = Head1(l).nonce]

Write(l) ==
  /\ lane[l].pc = "set"
  /\ latest' = Written(l)
  /\ lane' = [lane EXCEPT ![l].pc = "emit", ![l].seen = Free.seen]
  /\ UNCHANGED <<feed, kept, link, pos, emitted, crashes, overlap, hurt>>

Emit(l) ==
  /\ lane[l].pc = "emit"
  /\ emitted' = Append(emitted, Head1(l))
  /\ Next1(l)
  /\ UNCHANGED <<feed, kept, link, pos, latest, crashes, overlap, hurt>>

\* The store rejects the get, or the set before or after it took effect: the
\* message is reported as one that could not be parsed, and the next is handled.
StoreFails(l) ==
  /\ lane[l].pc \in {"get", "set"}
  /\ \/ UNCHANGED latest
     \/ lane[l].pc = "set" /\ latest' = Written(l)
  /\ Next1(l)
  /\ hurt' = TRUE
  /\ UNCHANGED <<feed, kept, link, pos, emitted, crashes, overlap>>

\* The process dies; the nonces stay.
Crash ==
  /\ crashes < MaxCrashes
  /\ crashes' = crashes + 1
  /\ link' = IF link = "over" THEN "over" ELSE "none"
  /\ pos' = 0
  /\ lane' = [l \in Lanes |-> Free]
  /\ hurt' = (hurt \/ \E l \in Lanes : lane[l].pc = "emit")
  /\ UNCHANGED <<feed, kept, latest, emitted, overlap>>

Step(l) == Fetched(l) \/ FetchFails(l) \/ Read(l) \/ Write(l) \/ Emit(l) \/ StoreFails(l)

Next ==
  \/ \E s \in Senders : Publish(s)
  \/ Forget \/ Lose \/ Leave \/ Clear \/ Crash
  \/ \E l \in Lanes : Subscribe(l) \/ Resubscribe(l) \/ Deliver(l) \/ Step(l)

Spec == Init /\ [][Next]_vars

\* Calls of the store and of the client library settle, and publications of an
\* open subscription arrive.
FairSpec ==
  /\ Spec
  /\ \A l \in Lanes : WF_vars(Step(l))
  /\ WF_vars(\E l \in Lanes : Deliver(l))

-----------------------------------------------------------------------------
Lane == [pc : {"free", "fetch", "get", "set", "emit"}, k : Nat, last : Nat,
         seen : [Senders -> Nat]]

TypeOK ==
  /\ feed \in Seq(Message)
  /\ kept \in 0 .. Len(feed)
  /\ link \in {"none", "up", "lost", "over"}
  /\ pos \in 0 .. Len(feed)
  /\ latest \in [Senders -> Nat]
  /\ lane \in [Lanes -> Lane]
  /\ \A l \in Lanes : lane[l].pc \in {"get", "set", "emit"} =>
       lane[l].k \in 1 .. lane[l].last /\ lane[l].last <= Len(feed)
  /\ emitted \in Seq(Message)
  /\ crashes \in 0 .. MaxCrashes
  /\ overlap \in BOOLEAN
  /\ hurt \in BOOLEAN

\* While no two lanes overlap and the nonces are not deleted:
Calm == ~ overlap /\ link # "over"

\* ... every message is emitted at most once, each sender's in the order it was
\* published, through retries, history, recovery and restarts
\* (_handleIncomingMessage; "delivery guarantees, and deduplication").
OnceInOrder ==
  Calm => \A i, j \in DOMAIN emitted :
    i < j /\ emitted[i].from = emitted[j].from => emitted[i].nonce < emitted[j].nonce

\* Message e has been emitted, or is about to be.
Out(e) ==
  \/ \E i \in DOMAIN emitted : emitted[i] = e
  \/ \E l \in Lanes : lane[l].pc = "emit" /\ Head1(l) = e

\* "to ensure no data is missed on first subscribe" (_fetchHistory): a message
\* the relay still has is not passed over as a duplicate when it never came out.
NothingMissed ==
  \A k \in kept + 1 .. Len(feed) : feed[k].nonce <= latest[feed[k].from] => Out(feed[k])

\* ... whatever overlaps, when nothing fails.
NoDataMissed == ~ hurt /\ link # "over" => NothingMissed

\* It holds while no two lanes overlap and nothing fails in mid-handling.
NothingLost == Calm /\ ~ hurt => NothingMissed

\* What the relay has of an open subscription comes out in the end.
ArrivesInTheEnd ==
  \A k \in 1 .. MaxFeed :
    (k \in DOMAIN feed /\ link = "up") ~>
      \/ overlap \/ hurt \/ link # "up"
      \/ k \in DOMAIN feed /\ (k <= kept \/ \E i \in DOMAIN emitted : emitted[i] = feed[k])
=============================================================================
