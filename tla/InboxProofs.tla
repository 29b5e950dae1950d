---------------------------- MODULE InboxProofs ----------------------------
(***************************************************************************)
(* Proofs about Inbox, for every set of senders, feed and number of lanes: *)
(* types, that messages come out at most once and in order, and that none  *)
(* the relay still has is passed over.                                     *)
(***************************************************************************)
EXTENDS Inbox, TLAPS

Handling(l) == lane[l].pc \in {"get", "set", "emit"}

-----------------------------------------------------------------------------
(* Lanes *)

LEMMA Records ==
  /\ Free \in Lane /\ Free.pc = "free"
  /\ Fetch \in Lane /\ Fetch.pc = "fetch"
  /\ \A k \in Nat : /\ Handle(k) \in Lane /\ Handle(k).pc = "get"
                    /\ Handle(k).k = k /\ Handle(k).last = k
  /\ \A k, n \in Nat :
       LET r == [Free EXCEPT !.pc = "get", !.k = k, !.last = n]
       IN  r \in Lane /\ r.pc = "get" /\ r.k = k /\ r.last = n
  BY DEF Free, Fetch, Handle, Lane

\* A lane is updated alone.
LEMMA OneLane ==
  ASSUME TypeOK, NEW l \in Lanes, NEW r \in Lane, lane' = [lane EXCEPT ![l] = r]
  PROVE  /\ lane' \in [Lanes -> Lane]
         /\ lane'[l] = r
         /\ \A m \in Lanes \ {l} : lane'[m] = lane[m]
  BY DEF TypeOK

\* The lane goes on with the next publication of its fetch, or is done.
LEMMA Onward ==
  ASSUME TypeOK, NEW l \in Lanes, Handling(l), Next1(l)
  PROVE  /\ lane' \in [Lanes -> Lane]
         /\ \A m \in Lanes \ {l} : lane'[m] = lane[m]
         /\ \/ lane'[l].pc = "free" /\ lane[l].k = lane[l].last
            \/ /\ lane'[l].pc = "get" /\ lane'[l].last = lane[l].last
               /\ lane'[l].k = lane[l].k + 1 /\ lane[l].k < lane[l].last
  <1>1. lane[l] \in Lane /\ lane[l].k \in 1 .. lane[l].last
    BY DEF TypeOK, Handling
  <1>2. lane[l].k \in Nat /\ lane[l].last \in Nat
    BY <1>1 DEF Lane
  <1>3. CASE lane[l].k < lane[l].last
    <2> DEFINE r == [Free EXCEPT !.pc = "get", !.k = lane[l].k + 1, !.last = lane[l].last]
    <2>1. r \in Lane /\ r.pc = "get" /\ r.k = lane[l].k + 1 /\ r.last = lane[l].last
      <3>1. lane[l].k + 1 \in Nat
        BY <1>2
      <3> QED
        BY <1>2, <3>1 DEF Free, Lane
    <2>2. lane' = [lane EXCEPT ![l] = r]
      BY <1>3 DEF Next1, TypeOK
    <2> HIDE DEF r
    <2> QED
      BY <1>3, <2>1, <2>2, OneLane
  <1>4. CASE ~ (lane[l].k < lane[l].last)
    <2>1. lane' = [lane EXCEPT ![l] = Free]
      BY <1>4 DEF Next1, TypeOK
    <2>2. lane[l].k = lane[l].last
      BY <1>1, <1>2, <1>4
    <2> QED
      BY <2>1, <2>2, OneLane, Records
  <1> QED
    BY <1>3, <1>4

LEMMA Reading ==
  ASSUME TypeOK, NEW l \in Lanes, lane[l].pc = "get",
         lane' = [lane EXCEPT ![l].pc = "set", ![l].seen = latest]
  PROVE  /\ lane' \in [Lanes -> Lane]
         /\ \A m \in Lanes \ {l} : lane'[m] = lane[m]
         /\ lane'[l].pc = "set" /\ lane'[l].seen = latest
         /\ lane'[l].k = lane[l].k /\ lane'[l].last = lane[l].last
  <1> DEFINE r == [lane[l] EXCEPT !.pc = "set", !.seen = latest]
  <1>1. /\ r \in Lane /\ r.pc = "set" /\ r.seen = latest
        /\ r.k = lane[l].k /\ r.last = lane[l].last
    BY DEF TypeOK, Lane
  <1>2. lane' = [lane EXCEPT ![l] = r]
    BY DEF TypeOK
  <1> HIDE DEF r
  <1> QED
    BY <1>1, <1>2, OneLane

LEMMA Writing ==
  ASSUME TypeOK, NEW l \in Lanes, lane[l].pc = "set", Write(l)
  PROVE  /\ lane' \in [Lanes -> Lane]
         /\ \A m \in Lanes \ {l} : lane'[m] = lane[m]
         /\ lane'[l].pc = "emit"
         /\ lane'[l].k = lane[l].k /\ lane'[l].last = lane[l].last
  <1> DEFINE r == [lane[l] EXCEPT !.pc = "emit", !.seen = Free.seen]
  <1>1. Free.seen \in [Senders -> Nat]
    BY DEF Free
  <1>2. /\ r \in Lane /\ r.pc = "emit"
        /\ r.k = lane[l].k /\ r.last = lane[l].last
    BY <1>1 DEF TypeOK, Lane
  <1>3. lane' = [lane EXCEPT ![l] = r]
    BY DEF TypeOK, Write
  <1> HIDE DEF r
  <1> QED
    BY <1>2, <1>3, OneLane

\* The publication a lane is at.
LEMMA AtHead ==
  ASSUME TypeOK, NEW l \in Lanes, Handling(l)
  PROVE  /\ lane[l] \in Lane
         /\ lane[l].k \in DOMAIN feed /\ lane[l].k \in Nat /\ lane[l].last \in Nat
         /\ Head1(l) \in Message /\ Head1(l).from \in Senders /\ Head1(l).nonce \in Nat
  <1>1. lane[l] \in Lane /\ lane[l].k \in 1 .. lane[l].last /\ lane[l].last <= Len(feed)
    BY DEF TypeOK, Handling
  <1>2. lane[l].k \in DOMAIN feed /\ lane[l].k \in Nat /\ lane[l].last \in Nat
    BY <1>1 DEF Lane, TypeOK
  <1>3. Head1(l) \in Message
    BY <1>2 DEF Head1, TypeOK
  <1> QED
    BY <1>1, <1>2, <1>3 DEF Message

LEMMA WrittenType ==
  ASSUME TypeOK, NEW l \in Lanes, lane[l].pc = "set"
  PROVE  /\ Written(l) \in [Senders -> Nat]
         /\ Written(l)[Head1(l).from] = Head1(l).nonce
         /\ \A s \in Senders \ {Head1(l).from} : Written(l)[s] = lane[l].seen[s]
  <1>1. Handling(l)
    BY DEF Handling
  <1>2. lane[l].seen \in [Senders -> Nat]
    BY DEF TypeOK, Lane
  <1> QED
    BY <1>1, <1>2, AtHead DEF Written

-----------------------------------------------------------------------------
(* Types *)

\* Where a lane may be.
Spans(r, n) == r.pc \in {"get", "set", "emit"} => r.k \in 1 .. r.last /\ r.last <= n

LEMMA AllSpan == TypeOK => \A m \in Lanes : Spans(lane[m], Len(feed))
  BY DEF TypeOK, Spans

\* What is left to show when lanes have changed.
LEMMA Typed ==
  ASSUME feed' \in Seq(Message), kept' \in 0 .. Len(feed'),
         link' \in {"none", "up", "lost", "over"}, pos' \in 0 .. Len(feed'),
         latest' \in [Senders -> Nat], lane' \in [Lanes -> Lane],
         \A m \in Lanes : Spans(lane'[m], Len(feed')),
         emitted' \in Seq(Message), crashes' \in 0 .. MaxCrashes,
         overlap' \in BOOLEAN, hurt' \in BOOLEAN
  PROVE  TypeOK'
  BY DEF TypeOK, Spans

LEMMA FeedGrows ==
  ASSUME TypeOK, NEW s \in Senders, Publish(s)
  PROVE  /\ feed' \in Seq(Message) /\ Len(feed') = Len(feed) + 1
         /\ \A k \in DOMAIN feed : feed'[k] = feed[k]
         /\ DOMAIN feed' = DOMAIN feed \union {Len(feed) + 1}
         /\ feed'[Len(feed) + 1].from = s
         /\ \A k \in DOMAIN feed : feed[k].from = s => feed[k].nonce <= feed'[Len(feed) + 1].nonce
  <1>1. feed \in Seq(Message)
    BY DEF TypeOK
  <1>2. PICK n \in 1 .. MaxNonce :
          /\ \A k \in DOMAIN feed : feed[k].from = s => feed[k].nonce <= n
          /\ feed' = Append(feed, [from |-> s, nonce |-> n])
    BY DEF Publish
  <1>3. n \in Nat
    BY <1>2, BoundsAssumption
  <1>4. [from |-> s, nonce |-> n] \in Message
    BY <1>3 DEF Message
  <1> QED
    BY <1>1, <1>2, <1>4

\* A lane that starts.
LEMMA Starting ==
  ASSUME TypeOK, NEW l \in Lanes, NEW r \in Lane, Start(l, r)
  PROVE  /\ lane' \in [Lanes -> Lane]
         /\ lane[l].pc = "free" /\ lane'[l] = r
         /\ \A m \in Lanes \ {l} : lane'[m] = lane[m]
         /\ overlap' \in BOOLEAN
         /\ ~ overlap' => ~ overlap /\ \A m \in Lanes : lane[m].pc = "free"
  BY OneLane DEF Start, Busy, TypeOK

LEMMA TypeInit == Init => TypeOK
  <1> SUFFICES ASSUME Init PROVE TypeOK
    OBVIOUS
  <1>1. lane \in [Lanes -> Lane] /\ \A l \in Lanes : lane[l].pc = "free"
    BY Records DEF Init
  <1>2. feed \in Seq(Message) /\ emitted \in Seq(Message) /\ Len(feed) = 0
    BY DEF Init
  <1>3. kept \in 0 .. Len(feed) /\ pos \in 0 .. Len(feed) /\ crashes \in 0 .. MaxCrashes
    BY <1>2, BoundsAssumption DEF Init
  <1> QED
    BY <1>1, <1>2, <1>3 DEF Init, TypeOK

LEMMA TypeNext == TypeOK /\ [Next]_vars => TypeOK'
  <1> SUFFICES ASSUME TypeOK, [Next]_vars PROVE TypeOK'
    OBVIOUS
  <1>1. ASSUME NEW s \in Senders, Publish(s) PROVE TypeOK'
    <2>1. Len(feed) \in Nat /\ Len(feed') \in Nat
      BY FeedGrows, <1>1 DEF TypeOK
    <2>2. \A l \in Lanes : Handling(l) => lane[l].last \in Nat
      BY AtHead
    <2>3. UNCHANGED <<kept, link, pos, latest, lane, emitted, crashes, overlap, hurt>>
      BY <1>1 DEF Publish
    <2>4. \A m \in Lanes : Spans(lane'[m], Len(feed'))
      BY <1>1, <2>1, <2>2, <2>3, AllSpan, FeedGrows DEF Spans, Handling
    <2>5. kept \in 0 .. Len(feed') /\ pos \in 0 .. Len(feed') /\ feed' \in Seq(Message)
      BY <1>1, <2>1, FeedGrows DEF TypeOK
    <2> QED
      BY <2>3, <2>4, <2>5, Typed DEF TypeOK
  <1>2. CASE Forget \/ Lose \/ Leave
    BY <1>2 DEF TypeOK, Forget, Lose, Leave
  <1>3. CASE Clear
    BY <1>3 DEF TypeOK, Clear
  <1>4. CASE Crash
    <2>1. lane' \in [Lanes -> Lane] /\ \A l \in Lanes : lane'[l].pc = "free"
      BY <1>4, Records DEF Crash
    <2> QED
      BY <1>4, <2>1, BoundsAssumption DEF TypeOK, Crash
  <1>5. ASSUME NEW l \in Lanes, Subscribe(l) \/ Resubscribe(l) PROVE TypeOK'
    <2>1. Start(l, Fetch) /\ link' = "up" /\ pos' \in 0 .. Len(feed)
      BY <1>5 DEF Subscribe, Resubscribe, TypeOK
    <2>2. UNCHANGED <<feed, kept, latest, emitted, crashes, hurt>>
      BY <1>5 DEF Subscribe, Resubscribe
    <2> QED
      <3>1. /\ lane' \in [Lanes -> Lane] /\ lane'[l] = Fetch /\ overlap' \in BOOLEAN
            /\ \A m \in Lanes \ {l} : lane'[m] = lane[m]
        BY ZenonT(40), <2>1, Records, Starting
      <3>2. \A m \in Lanes : Spans(lane'[m], Len(feed'))
        BY ZenonT(40), <2>2, <3>1, AllSpan, Records DEF Spans
      <3> QED
        BY <2>1, <2>2, <3>1, <3>2, Typed DEF TypeOK
  <1>6. ASSUME NEW l \in Lanes, Deliver(l) PROVE TypeOK'
    <2>1. Start(l, Handle(pos + 1)) /\ pos' = pos + 1 /\ pos + 1 \in 1 .. Len(feed) /\ pos + 1 \in Nat
      BY <1>6 DEF Deliver, TypeOK
    <2>2. UNCHANGED <<feed, kept, link, latest, emitted, crashes, hurt>>
      BY <1>6 DEF Deliver
    <2>3. Handle(pos + 1) \in Lane /\ Handle(pos + 1).k = pos + 1 /\ Handle(pos + 1).last = pos + 1
      BY <2>1, Records
    <2> QED
      <3>1. /\ lane' \in [Lanes -> Lane] /\ lane'[l] = Handle(pos + 1) /\ overlap' \in BOOLEAN
            /\ \A m \in Lanes \ {l} : lane'[m] = lane[m]
        BY <2>1, <2>3, Starting
      <3>2. Spans(Handle(pos + 1), Len(feed))
        BY <2>1, <2>3 DEF Spans
      <3>3. \A m \in Lanes : Spans(lane'[m], Len(feed'))
        BY <2>2, <3>1, <3>2, AllSpan
      <3> QED
        BY <2>1, <2>2, <3>1, <3>3, Typed DEF TypeOK
  <1>7. ASSUME NEW l \in Lanes, Step(l) PROVE TypeOK'
    <2>8. ASSUME NEW r \in Lane, lane' = [lane EXCEPT ![l] = r], Spans(r, Len(feed)),
                 UNCHANGED <<feed, kept, link, pos, latest, emitted, crashes, overlap>>,
                 hurt' \in BOOLEAN
          PROVE  TypeOK'
      <3>1. /\ lane' \in [Lanes -> Lane] /\ lane'[l] = r
            /\ \A m \in Lanes \ {l} : lane'[m] = lane[m]
        BY <2>8, OneLane
      <3>2. \A m \in Lanes : Spans(lane'[m], Len(feed'))
        BY <2>8, <3>1, AllSpan
      <3> QED
        BY <2>8, <3>1, <3>2, Typed DEF TypeOK
    <2>1. CASE Fetched(l)
      <3>1. kept + 1 \in Nat /\ Len(feed) \in Nat /\ kept <= Len(feed)
        BY DEF TypeOK
      <3> DEFINE r == [Free EXCEPT !.pc = "get", !.k = kept + 1, !.last = Len(feed)]
      <3>2. r \in Lane /\ r.k = kept + 1 /\ r.last = Len(feed)
        BY <3>1 DEF Free, Lane
      <3>3. lane' = [lane EXCEPT ![l] = IF kept = Len(feed) THEN Free ELSE r]
        BY <2>1 DEF Fetched
      <3> HIDE DEF r
      <3>4. CASE kept = Len(feed)
        BY <2>1, <2>8, <3>3, <3>4, Records DEF Fetched, Spans, TypeOK
      <3>5. CASE kept # Len(feed)
        <4>1. kept + 1 \in 1 .. Len(feed)
          BY <3>1, <3>5 DEF TypeOK
        <4>2. Spans(r, Len(feed))
          BY <3>1, <3>2, <4>1 DEF Spans
        <4> QED
          BY <2>1, <2>8, <3>2, <3>3, <3>5, <4>2 DEF Fetched, TypeOK
      <3> QED
        BY <3>4, <3>5
    <2>2. CASE FetchFails(l)
      BY <2>2, <2>8, Records DEF FetchFails, Spans, TypeOK
    <2>3. ASSUME Handling(l), Next1(l), UNCHANGED <<feed, kept, link, pos, crashes, overlap>>,
                 latest' \in [Senders -> Nat], emitted' \in Seq(Message), hurt' \in BOOLEAN
          PROVE  TypeOK'
      <3>1. lane[l].k \in 1 .. lane[l].last /\ lane[l].last <= Len(feed) /\ lane[l].last \in Nat
        BY <2>3, AtHead DEF TypeOK, Handling
      <3>2. Spans(lane'[l], Len(feed))
        BY <2>3, <3>1, Onward, AtHead DEF Spans
      <3>3. \A m \in Lanes : Spans(lane'[m], Len(feed'))
        BY <2>3, <3>2, AllSpan, Onward
      <3> QED
        BY <2>3, <3>3, Onward, Typed DEF TypeOK
    <2>4. CASE Read(l)
      <3>1. CASE Next1(l)
        BY <2>3, <2>4, <3>1 DEF Read, TypeOK, Handling
      <3>2. CASE lane' = [lane EXCEPT ![l].pc = "set", ![l].seen = latest]
        BY <2>4, <3>2, Reading DEF Read, TypeOK
      <3> QED
        BY <2>4, <3>1, <3>2 DEF Read
    <2>5. CASE Write(l)
      <3>1. lane[l].pc = "set"
        BY <2>5 DEF Write
      <3> QED
        BY <2>5, <3>1, Writing, WrittenType DEF Write, TypeOK
    <2>6. CASE Emit(l)
      <3>1. Handling(l)
        BY <2>6 DEF Emit, Handling
      <3> QED
        BY <2>3, <2>6, <3>1, AtHead DEF Emit, TypeOK
    <2>7. CASE StoreFails(l)
      <3>1. Handling(l)
        BY <2>7 DEF StoreFails, Handling
      <3>2. latest' \in [Senders -> Nat]
        BY <2>7, WrittenType DEF StoreFails, TypeOK
      <3> QED
        BY <2>3, <2>7, <3>1, <3>2 DEF StoreFails, TypeOK
    <2> QED
      BY <1>7, <2>1, <2>2, <2>4, <2>5, <2>6, <2>7 DEF Step
  <1>8. CASE UNCHANGED vars
    BY <1>8 DEF TypeOK, vars
  <1> QED
    BY <1>1, <1>2, <1>3, <1>4, <1>5, <1>6, <1>7, <1>8 DEF Next

\* Every state is well typed.
THEOREM TypeCorrect == Spec => []TypeOK
  BY TypeInit, TypeNext, PTL DEF Spec

-----------------------------------------------------------------------------
(* At most once, in order *)

\* Without overlap one lane at most is at work.
OneBusy == \A l, m \in Lanes : lane[l].pc # "free" /\ lane[m].pc # "free" => l = m

\* What has come out is noted in the store.
Noted == \A i \in DOMAIN emitted : emitted[i].nonce <= latest[emitted[i].from]

\* What a lane read is still in the store when it writes, and its message is newer
\* than all that has come out of that sender.
InHand(l) ==
  /\ lane[l].pc = "set" => lane[l].seen = latest /\ Head1(l).nonce > latest[Head1(l).from]
  /\ lane[l].pc = "emit" =>
       /\ Head1(l).nonce = latest[Head1(l).from]
       /\ \A i \in DOMAIN emitted :
            emitted[i].from = Head1(l).from => emitted[i].nonce < Head1(l).nonce

Ordered ==
  \A i, j \in DOMAIN emitted :
    i < j /\ emitted[i].from = emitted[j].from => emitted[i].nonce < emitted[j].nonce

CalmInv == Calm => OneBusy /\ Noted /\ Ordered /\ \A l \in Lanes : InHand(l)

\* The publication of a lane stays where it is.
LEMMA HeadStays ==
  ASSUME TypeOK, [Next]_vars, NEW l \in Lanes, Handling(l), Handling(l)', lane'[l].k = lane[l].k
  PROVE  Head1(l)' = Head1(l)
  <1>1. lane[l].k \in DOMAIN feed
    BY AtHead
  <1>2. feed' = feed \/ \E s \in Senders : Publish(s)
    BY DEF Next, Step, vars, Forget, Lose, Leave, Clear, Crash, Subscribe, Resubscribe, Deliver,
           Fetched, FetchFails, Read, Write, Emit, StoreFails
  <1>3. feed'[lane[l].k] = feed[lane[l].k]
    BY <1>1, <1>2, FeedGrows
  <1> QED
    BY <1>3 DEF Head1

\* What matters of a lane that keeps its state.
LEMMA InHandStays ==
  ASSUME TypeOK, [Next]_vars, NEW l \in Lanes, InHand(l), lane'[l] = lane[l],
         UNCHANGED <<latest, emitted>>
  PROVE  InHand(l)'
  <1>1. CASE Handling(l)
    <2>1. Head1(l)' = Head1(l)
      BY <1>1, HeadStays DEF Handling
    <2> QED
      BY <2>1 DEF InHand
  <1>2. CASE ~ Handling(l)
    BY <1>2 DEF InHand, Handling
  <1> QED
    BY <1>1, <1>2

LEMMA CalmInit == Init => CalmInv
  <1> SUFFICES ASSUME Init PROVE CalmInv
    OBVIOUS
  <1>1. \A l \in Lanes : lane[l].pc = "free"
    BY Records DEF Init
  <1>2. DOMAIN emitted = {}
    BY DEF Init
  <1> QED
    BY <1>1, <1>2 DEF CalmInv, OneBusy, Noted, Ordered, InHand

\* A step that starts no message and ends none.
LEMMA CalmQuiet ==
  ASSUME TypeOK, CalmInv, Calm, [Next]_vars, UNCHANGED <<latest, emitted>>,
         OneBusy',
         \A m \in Lanes : lane'[m] = lane[m] \/ lane'[m].pc \in {"free", "fetch", "get"}
  PROVE  CalmInv'
  <1>1. \A m \in Lanes : InHand(m)'
    <2> SUFFICES ASSUME NEW m \in Lanes PROVE InHand(m)'
      OBVIOUS
    <2>1. CASE lane'[m] = lane[m]
      BY <2>1, InHandStays DEF CalmInv
    <2>2. CASE lane'[m].pc \in {"free", "fetch", "get"}
      BY <2>2 DEF InHand
    <2> QED
      BY <2>1, <2>2
  <1>2. Noted' /\ Ordered'
    BY DEF CalmInv, Noted, Ordered
  <1> QED
    BY <1>1, <1>2 DEF CalmInv

LEMMA CalmNext == TypeOK /\ CalmInv /\ [Next]_vars => CalmInv'
  <1> SUFFICES ASSUME TypeOK, CalmInv, [Next]_vars, Calm' PROVE CalmInv'
    BY DEF CalmInv
  <1>1. ASSUME NEW s \in Senders, Publish(s) PROVE CalmInv'
    BY <1>1, CalmQuiet DEF Publish, Calm, CalmInv, OneBusy
  <1>2. CASE Forget \/ Lose \/ Leave \/ UNCHANGED vars
    BY <1>2, CalmQuiet DEF Forget, Lose, Leave, vars, Calm, CalmInv, OneBusy
  <1>3. CASE Clear
    BY <1>3 DEF Clear, Calm
  <1>4. CASE Crash
    <2>1. Calm /\ \A l \in Lanes : lane'[l].pc = "free"
      BY <1>4, Records DEF Crash, Calm
    <2> QED
      BY <1>4, <2>1, CalmQuiet DEF Crash, OneBusy
  <1>5. ASSUME NEW l \in Lanes, NEW r \in Lane, Start(l, r), r.pc \in {"fetch", "get"},
               link # "over", UNCHANGED <<latest, emitted>>
        PROVE  CalmInv'
    <2>1. Calm
      BY <1>5, Starting DEF Calm
    <2>2. /\ \A m \in Lanes : lane[m].pc = "free"
          /\ \A m \in Lanes \ {l} : lane'[m] = lane[m]
          /\ lane'[l] = r
      BY <1>5, Starting DEF Calm
    <2> QED
      BY <1>5, <2>1, <2>2, CalmQuiet DEF OneBusy
  <1>6. ASSUME NEW l \in Lanes, Subscribe(l) \/ Resubscribe(l) \/ Deliver(l) PROVE CalmInv'
    <2>1. CASE Subscribe(l) \/ Resubscribe(l)
      BY <1>5, <2>1, Records DEF Subscribe, Resubscribe
    <2>2. CASE Deliver(l)
      <3>1. pos' \in Nat
        BY <2>2 DEF Deliver, TypeOK
      <3> QED
        BY <1>5, <2>2, <3>1, Records DEF Deliver
    <2> QED
      BY <1>6, <2>1, <2>2
  <1>7. ASSUME NEW l \in Lanes, Step(l) PROVE CalmInv'
    <2>0. Calm /\ OneBusy /\ Noted /\ Ordered /\ InHand(l) /\ lane[l].pc # "free"
      BY <1>7 DEF Calm, CalmInv, Step, Fetched, FetchFails, Read, Write, Emit, StoreFails
    <2>1. ASSUME NEW m \in Lanes, m # l PROVE lane[m].pc = "free"
      BY <2>0, <2>1 DEF OneBusy
    <2>2. CASE Fetched(l) \/ FetchFails(l)
      <3>1. PICK r \in Lane : lane' = [lane EXCEPT ![l] = r] /\ r.pc \in {"free", "get"}
        <4> DEFINE r == [Free EXCEPT !.pc = "get", !.k = kept + 1, !.last = Len(feed)]
        <4>1. r \in Lane /\ r.pc = "get"
          <5>1. kept + 1 \in Nat /\ Len(feed) \in Nat
            BY DEF TypeOK
          <5> QED
            BY <5>1 DEF Free, Lane
        <4>2. CASE Fetched(l)
          <5>1. lane' = [lane EXCEPT ![l] = IF kept = Len(feed) THEN Free ELSE r]
            BY <4>2 DEF Fetched
          <5> HIDE DEF r
          <5> QED
            BY <4>1, <5>1, Records
        <4>3. CASE FetchFails(l)
          BY <4>3, Records DEF FetchFails
        <4> QED
          BY <2>2, <4>2, <4>3
      <3>2. lane'[l] = r /\ \A m \in Lanes \ {l} : lane'[m] = lane[m]
        BY <3>1, OneLane
      <3> QED
        BY <2>0, <2>1, <2>2, <3>1, <3>2, CalmQuiet DEF Fetched, FetchFails, OneBusy
    <2>3. ASSUME Handling(l), Next1(l), UNCHANGED emitted, UNCHANGED latest PROVE CalmInv'
      BY <2>0, <2>1, <2>3, Onward, CalmQuiet DEF OneBusy
    <2>4. CASE Read(l)
      <3>1. CASE Next1(l)
        BY <2>3, <2>4, <3>1 DEF Read, Handling
      <3>2. CASE /\ Head1(l).nonce > latest[Head1(l).from]
                 /\ lane' = [lane EXCEPT ![l].pc = "set", ![l].seen = latest]
        <4>1. /\ \A m \in Lanes \ {l} : lane'[m] = lane[m]
              /\ lane'[l].pc = "set" /\ lane'[l].seen = latest /\ lane'[l].k = lane[l].k
          BY <2>4, <3>2, Reading DEF Read
        <4>2. Head1(l)' = Head1(l)
          BY <2>4, <4>1, HeadStays DEF Read, Handling
        <4>3. InHand(l)'
          BY <2>4, <3>2, <4>1, <4>2 DEF InHand, Read
        <4>4. \A m \in Lanes \ {l} : InHand(m)'
          BY <2>1, <4>1 DEF InHand
        <4> QED
          BY <2>0, <2>1, <2>4, <4>1, <4>3, <4>4 DEF CalmInv, OneBusy, Noted, Ordered, Read
      <3> QED
        BY <2>4, <3>1, <3>2 DEF Read
    <2>5. CASE lane[l].pc = "set" /\ latest' = Written(l) /\ UNCHANGED <<emitted>>
               /\ (Write(l) \/ StoreFails(l))
      <3>1. Handling(l) /\ Head1(l) \in Message /\ Head1(l).from \in Senders
            /\ Head1(l).nonce \in Nat
        BY <2>5, AtHead DEF Handling
      <3>2. /\ latest'[Head1(l).from] = Head1(l).nonce
            /\ latest[Head1(l).from] < Head1(l).nonce
            /\ \A s \in Senders \ {Head1(l).from} : latest'[s] = latest[s]
        BY <2>0, <2>5, WrittenType DEF InHand
      <3>3. \A s \in Senders : latest[s] \in Nat
        BY DEF TypeOK
      <3>4. \A i \in DOMAIN emitted : emitted[i].from \in Senders /\ emitted[i].nonce \in Nat
        <4>1. \A i \in DOMAIN emitted : emitted[i] \in Message
          BY DEF TypeOK
        <4> QED
          BY <4>1 DEF Message
      <3>5. Noted'
        BY <2>0, <2>5, <3>1, <3>2, <3>3, <3>4 DEF Noted
      <3>6. Ordered'
        BY <2>0, <2>5 DEF Ordered
      <3>7. CASE Write(l)
        <4>1. /\ \A m \in Lanes \ {l} : lane'[m] = lane[m]
              /\ lane'[l].pc = "emit" /\ lane'[l].k = lane[l].k
          BY <2>5, <3>7, Writing
        <4>2. Head1(l)' = Head1(l)
          BY <3>1, <4>1, HeadStays DEF Handling
        <4>3. InHand(l)'
          BY <2>0, <2>5, <3>1, <3>2, <3>3, <3>4, <4>1, <4>2 DEF InHand, Noted
        <4>4. \A m \in Lanes \ {l} : InHand(m)'
          BY <2>1, <4>1 DEF InHand
        <4> QED
          BY <2>0, <2>1, <3>5, <3>6, <4>1, <4>3, <4>4 DEF CalmInv, OneBusy
      <3>8. CASE StoreFails(l)
        <4>1. /\ \A m \in Lanes \ {l} : lane'[m] = lane[m]
              /\ lane'[l].pc \in {"free", "get"}
          BY <3>1, <3>8, Onward DEF StoreFails
        <4>2. \A m \in Lanes : InHand(m)'
          BY <2>1, <4>1 DEF InHand
        <4> QED
          BY <2>0, <2>1, <3>5, <3>6, <4>1, <4>2 DEF CalmInv, OneBusy
      <3> QED
        BY <2>5, <3>7, <3>8
    <2>6. CASE Emit(l)
      <3>1. Handling(l) /\ Head1(l) \in Message /\ lane[l].pc = "emit"
        BY <2>6, AtHead DEF Handling, Emit
      <3>2. /\ \A m \in Lanes \ {l} : lane'[m] = lane[m]
            /\ lane'[l].pc \in {"free", "get"}
        BY <2>6, <3>1, Onward DEF Emit
      <3>3. \A m \in Lanes : InHand(m)'
        BY <2>1, <3>2 DEF InHand
      <3>4. /\ emitted' = Append(emitted, Head1(l)) /\ latest' = latest
            /\ emitted \in Seq(Message)
        BY <2>6 DEF Emit, TypeOK
      <3>5. Noted'
        <4> SUFFICES ASSUME NEW i \in DOMAIN emitted'
                     PROVE  emitted'[i].nonce <= latest[emitted'[i].from]
          BY <3>4 DEF Noted
        <4>1. CASE i \in DOMAIN emitted
          BY <2>0, <3>4, <4>1 DEF Noted
        <4>2. CASE i = Len(emitted) + 1
          <5>1. emitted'[i] = Head1(l) /\ Head1(l).nonce \in Nat
            BY <3>1, <3>4, <4>2 DEF Message
          <5> QED
            BY <2>0, <3>1, <5>1 DEF InHand
        <4> QED
          BY <3>4, <4>1, <4>2
      <3>6. Ordered'
        <4> SUFFICES ASSUME NEW i \in DOMAIN emitted', NEW j \in DOMAIN emitted', i < j,
                            emitted'[i].from = emitted'[j].from
                     PROVE  emitted'[i].nonce < emitted'[j].nonce
          BY DEF Ordered
        <4>1. i \in DOMAIN emitted /\ emitted'[i] = emitted[i]
          BY <3>4
        <4>2. CASE j \in DOMAIN emitted
          BY <2>0, <3>4, <4>1, <4>2 DEF Ordered
        <4>3. CASE j = Len(emitted) + 1
          <5>1. emitted'[j] = Head1(l)
            BY <3>4, <4>3
          <5> QED
            BY <2>0, <3>1, <4>1, <5>1 DEF InHand
        <4> QED
          BY <3>4, <4>2, <4>3
      <3> QED
        BY <2>0, <2>1, <3>2, <3>3, <3>5, <3>6 DEF CalmInv, OneBusy
    <2>7. CASE StoreFails(l) /\ UNCHANGED latest
      BY <2>3, <2>7 DEF StoreFails, Handling
    <2> QED
      BY <1>7, <2>2, <2>4, <2>5, <2>6, <2>7 DEF Step, Write, StoreFails
  <1> QED
    BY <1>1, <1>2, <1>3, <1>4, <1>6, <1>7 DEF Next

\* At most once, in order, while no two lanes overlap.
THEOREM DeliversOnce == Spec => []OnceInOrder
  <1>1. Init => TypeOK /\ CalmInv
    BY TypeInit, CalmInit
  <1>2. TypeOK /\ CalmInv /\ [Next]_vars => TypeOK' /\ CalmInv'
    BY TypeNext, CalmNext
  <1>3. TypeOK /\ CalmInv => OnceInOrder
    BY DEF CalmInv, OnceInOrder, Ordered
  <1> QED
    BY <1>1, <1>2, <1>3, PTL DEF Spec

-----------------------------------------------------------------------------
(* Nothing is passed over *)

\* The relay holds the messages of a sender in order, and what came out is there.
Rising ==
  \A i, j \in DOMAIN feed :
    i < j /\ feed[i].from = feed[j].from => feed[i].nonce <= feed[j].nonce
FromFeed == \A i \in DOMAIN emitted : \E k \in DOMAIN feed : emitted[i] = feed[k]
FeedInv  == Rising /\ FromFeed

\* Of the first n publications, those the relay still has are noted in the store.
Passed(n) == \A j \in DOMAIN feed : kept < j /\ j <= n => feed[j].nonce <= latest[feed[j].from]

\* What the store notes as the latest is out.
LatestOut == \A s \in Senders : latest[s] > 0 => Out([from |-> s, nonce |-> latest[s]])

\* Whoever handles a publication has the earlier ones behind it, and when no lane
\* is at work those passed to an open subscription have been dealt with.
Progress ==
  /\ \A l \in Lanes : Handling(l) =>
       Passed(lane[l].k - 1) /\ (link = "up" => pos <= lane[l].last)
  /\ link = "up" /\ (\A l \in Lanes : lane[l].pc = "free") => Passed(pos)

Missed == \A k \in DOMAIN feed : kept < k /\ feed[k].nonce <= latest[feed[k].from] => Out(feed[k])

LossInv == Calm /\ ~ hurt => Missed /\ LatestOut /\ Progress

LEMMA FeedEntry ==
  ASSUME TypeOK, NEW k \in DOMAIN feed
  PROVE  /\ feed[k] \in Message /\ feed[k].from \in Senders /\ feed[k].nonce \in Nat
         /\ k \in Nat /\ latest[feed[k].from] \in Nat
         /\ feed[k] = [from |-> feed[k].from, nonce |-> feed[k].nonce]
  <1>1. feed[k] \in Message /\ k \in Nat
    BY DEF TypeOK
  <1> QED
    BY <1>1 DEF Message, TypeOK

LEMMA FeedInvNext == TypeOK /\ FeedInv /\ [Next]_vars => FeedInv'
  <1> SUFFICES ASSUME TypeOK, FeedInv, [Next]_vars PROVE FeedInv'
    OBVIOUS
  <1>1. ASSUME NEW s \in Senders, Publish(s) PROVE FeedInv'
    <2>1. Rising'
      <3> SUFFICES ASSUME NEW i \in DOMAIN feed', NEW j \in DOMAIN feed', i < j,
                          feed'[i].from = feed'[j].from
                   PROVE  feed'[i].nonce <= feed'[j].nonce
        BY DEF Rising
      <3>1. DOMAIN feed = 1 .. Len(feed) /\ Len(feed) \in Nat
        BY DEF TypeOK
      <3>2. i \in DOMAIN feed /\ feed'[i] = feed[i]
        BY <1>1, <3>1, FeedGrows
      <3> QED
        BY <1>1, <3>1, <3>2, FeedGrows DEF FeedInv, Rising
    <2>2. emitted' = emitted
      BY <1>1 DEF Publish
    <2> QED
      BY <1>1, <2>1, <2>2, FeedGrows DEF FeedInv, FromFeed
  <1>2. ASSUME NEW l \in Lanes, Emit(l) PROVE FeedInv'
    <2>1. lane[l].k \in DOMAIN feed /\ emitted \in Seq(Message) /\ Head1(l) \in Message
      BY <1>2, AtHead DEF Emit, Handling, TypeOK
    <2>2. feed' = feed /\ emitted' = Append(emitted, feed[lane[l].k])
      BY <1>2 DEF Emit, Head1
    <2> QED
      BY <2>1, <2>2 DEF FeedInv, Rising, FromFeed, Head1
  <1>3. CASE UNCHANGED <<feed, emitted>>
    BY <1>3 DEF FeedInv, Rising, FromFeed
  <1> QED
    BY <1>1, <1>2, <1>3 DEF Next, Step, vars, Forget, Lose, Leave, Clear, Crash, Subscribe,
       Resubscribe, Deliver, Fetched, FetchFails, Read, Write, StoreFails

\* What is out stays out, as long as nothing that was about to be emitted stops.
LEMMA OutStays ==
  ASSUME TypeOK, [Next]_vars, UNCHANGED emitted,
         \A l \in Lanes : lane[l].pc = "emit" => lane'[l] = lane[l],
         NEW e, Out(e)
  PROVE  Out(e)'
  <1>1. ASSUME NEW l \in Lanes, lane[l].pc = "emit" PROVE lane'[l].pc = "emit" /\ Head1(l)' = Head1(l)
    BY <1>1, HeadStays DEF Handling
  <1> QED
    BY <1>1 DEF Out

\* What has been passed stays passed when the store only notes more.
LEMMA PassedStays ==
  ASSUME TypeOK, TypeOK', NEW n \in Nat, n <= Len(feed), Passed(n),
         \/ feed' = feed
         \/ \E s \in Senders : Publish(s),
         kept <= kept',
         \A s \in Senders : latest[s] <= latest'[s]
  PROVE  Passed(n)'
  <1> SUFFICES ASSUME NEW j \in DOMAIN feed', kept' < j, j <= n
               PROVE  feed'[j].nonce <= latest'[feed'[j].from]
    BY DEF Passed
  <1>1. Len(feed) \in Nat /\ DOMAIN feed = 1 .. Len(feed) /\ j \in Nat /\ 0 < j
        /\ kept \in Nat /\ kept' \in Nat
    BY DEF TypeOK
  <1>2. j \in DOMAIN feed /\ feed'[j] = feed[j] /\ kept < j
    BY <1>1, FeedGrows
  <1>3. feed[j].nonce <= latest[feed[j].from] /\ feed[j].nonce \in Nat /\ feed[j].from \in Senders
    BY <1>2, FeedEntry DEF Passed
  <1>4. latest[feed[j].from] \in Nat /\ latest'[feed[j].from] \in Nat
    BY <1>3 DEF TypeOK
  <1> QED
    BY <1>2, <1>3, <1>4

\* A step that writes and emits nothing loses nothing.
LEMMA LossQuiet ==
  ASSUME TypeOK, TypeOK', [Next]_vars, Missed, LatestOut,
         UNCHANGED <<feed, latest, emitted>>, kept <= kept',
         \A l \in Lanes : lane[l].pc = "emit" => lane'[l] = lane[l]
  PROVE  Missed' /\ LatestOut'
  <1>1. ASSUME NEW k \in DOMAIN feed', kept' < k, feed'[k].nonce <= latest'[feed'[k].from]
        PROVE  Out(feed[k])'
    <2>1. kept < k
      BY <1>1 DEF TypeOK
    <2>2. Out(feed[k])
      BY <1>1, <2>1 DEF Missed
    <2> QED
      BY <2>2, OutStays
  <1>2. ASSUME NEW s \in Senders, latest'[s] > 0
        PROVE  Out([from |-> s, nonce |-> latest[s]])'
    BY <1>2, OutStays DEF LatestOut
  <1> QED
    BY <1>1, <1>2 DEF Missed, LatestOut
LEMMA LossInit == Init => FeedInv /\ LossInv
  <1> SUFFICES ASSUME Init PROVE FeedInv /\ LossInv
    OBVIOUS
  <1>1. DOMAIN feed = {} /\ DOMAIN emitted = {} /\ \A s \in Senders : latest[s] = 0
    BY DEF Init
  <1>2. \A l \in Lanes : ~ Handling(l)
    BY Records DEF Init, Handling
  <1> QED
    BY <1>1, <1>2 DEF FeedInv, Rising, FromFeed, LossInv, Missed, LatestOut, Progress, Init, Passed

LEMMA LossPublish ==
  ASSUME TypeOK, TypeOK', FeedInv, Calm, CalmInv, ~ hurt, LossInv, [Next]_vars,
         NEW s \in Senders, Publish(s)
  PROVE  LossInv'
  <1> DEFINE top == Len(feed) + 1
  <1>1. UNCHANGED <<kept, link, pos, latest, lane, emitted, overlap, hurt>>
    BY DEF Publish
  <1>2. Len(feed) \in Nat /\ DOMAIN feed = 1 .. Len(feed) /\ DOMAIN feed' = 1 .. top
    BY FeedGrows DEF TypeOK
  <1>3. Missed /\ LatestOut /\ Progress
    BY DEF LossInv
  <1>4. LatestOut'
    <2> SUFFICES ASSUME NEW z \in Senders, latest[z] > 0
                 PROVE  Out([from |-> z, nonce |-> latest[z]])'
      BY <1>1 DEF LatestOut
    <2> QED
      BY <1>1, <1>3, OutStays DEF LatestOut
  <1>5. Missed'
    <2> SUFFICES ASSUME NEW k \in DOMAIN feed', kept < k, NEW x, x = feed'[k],
                        x.nonce <= latest[x.from]
                 PROVE  Out(x)'
      BY <1>1 DEF Missed
    <2>1. CASE k \in DOMAIN feed
      <3>1. Out(x)
        BY <1>3, <2>1, FeedGrows DEF Missed
      <3> QED
        BY <1>1, <3>1, OutStays
    <2>2. CASE k = top
      <3>1. x.from = s /\ x \in Message
        BY <1>2, <2>2, FeedGrows
      <3>2. PICK n \in 1 .. MaxNonce : x = [from |-> s, nonce |-> n]
        BY <2>2 DEF Publish, TypeOK
      <3>3. n \in Nat /\ n > 0 /\ latest[s] \in Nat /\ n <= latest[s]
        BY <3>1, <3>2, BoundsAssumption DEF TypeOK
      <3> DEFINE e == [from |-> s, nonce |-> latest[s]]
      <3>4. Out(e)
        BY <1>3, <3>3 DEF LatestOut
      <3>5. \E j \in DOMAIN feed : feed[j] = e
        <4>1. ASSUME NEW l \in Lanes, lane[l].pc = "emit", Head1(l) = e
              PROVE  \E j \in DOMAIN feed : feed[j] = e
          BY <4>1, AtHead DEF Handling, Head1
        <4> QED
          BY <3>4, <4>1 DEF Out, FeedInv, FromFeed
      <3>6. latest[s] <= n
        BY <2>2, <3>2, <3>5, FeedGrows
      <3>7. Out(x)
        BY <3>2, <3>3, <3>4, <3>6
      <3> QED
        BY <1>1, <3>7, OutStays
    <2> QED
      BY <1>2, <2>1, <2>2
  <1>6. \A n \in Nat : n <= Len(feed) /\ Passed(n) => Passed(n)'
    <2>1. \A z \in Senders : latest[z] <= latest'[z]
      BY <1>1 DEF TypeOK
    <2>2. kept <= kept'
      BY <1>1 DEF TypeOK
    <2> QED
      BY <2>1, <2>2, PassedStays
  <1>7. Progress'
    <2>1. ASSUME NEW l \in Lanes, Handling(l)
          PROVE  Passed(lane[l].k - 1)' /\ (link = "up" => pos <= lane[l].last)
      <3>1. lane[l].k - 1 \in Nat /\ lane[l].k - 1 <= Len(feed)
        BY <1>2, <2>1, AtHead
      <3>2. Passed(lane[l].k - 1)
        BY <1>3, <2>1 DEF Progress
      <3> QED
        BY <1>1, <1>3, <1>6, <2>1, <3>1, <3>2 DEF Progress
    <2>2. pos \in Nat /\ pos <= Len(feed)
      BY <1>2 DEF TypeOK
    <2> QED
      BY <1>1, <1>3, <1>6, <2>1, <2>2 DEF Progress, Handling
  <1> QED
    BY <1>4, <1>5, <1>7 DEF LossInv

\* The lane at work, and no other one, goes on.
LEMMA LossOnward ==
  ASSUME TypeOK, TypeOK', OneBusy, Progress, NEW l \in Lanes, Handling(l), Next1(l),
         UNCHANGED <<feed, kept, link, pos, latest>>,
         Head1(l).nonce <= latest[Head1(l).from]
  PROVE  Progress'
  <1>1. /\ lane[l].k \in Nat /\ lane[l].last \in Nat /\ lane[l].k \in DOMAIN feed
        /\ Head1(l) = feed[lane[l].k]
    BY AtHead DEF Head1
  <1>2. Passed(lane[l].k)
    <2>1. Passed(lane[l].k - 1)
      BY DEF Progress
    <2>2. \A j \in DOMAIN feed : j <= lane[l].k => j <= lane[l].k - 1 \/ j = lane[l].k
      BY <1>1 DEF TypeOK
    <2> QED
      BY <1>1, <2>1, <2>2 DEF Passed
  <1>3. ASSUME NEW m \in Lanes, m # l PROVE lane'[m].pc = "free"
    BY <1>3, Onward DEF OneBusy, Handling
  <1>4. CASE lane'[l].pc = "free" /\ lane[l].k = lane[l].last
    <2>1. \A m \in Lanes : ~ Handling(m)'
      BY <1>3, <1>4 DEF Handling
    <2>2. link = "up" => Passed(pos)
      <3>1. link = "up" => pos <= lane[l].k /\ pos \in Nat
        BY <1>4 DEF Progress, TypeOK
      <3>2. DOMAIN feed \subseteq Nat
        BY DEF TypeOK
      <3> QED
        BY <1>1, <1>2, <3>1, <3>2 DEF Passed
    <2> QED
      BY <2>1, <2>2 DEF Progress, Passed
  <1>5. CASE lane'[l].pc = "get" /\ lane'[l].last = lane[l].last /\ lane'[l].k = lane[l].k + 1
    <2>1. lane'[l].k - 1 = lane[l].k
      BY <1>1, <1>5
    <2>2. link = "up" => pos <= lane[l].last
      BY DEF Progress
    <2> QED
      BY <1>2, <1>3, <1>5, <2>1, <2>2 DEF Progress, Handling, Passed
  <1> QED
    BY <1>4, <1>5, Onward
LEMMA LossWrite ==
  ASSUME TypeOK, TypeOK', FeedInv, Calm, CalmInv, ~ hurt, LossInv, [Next]_vars,
         NEW l \in Lanes, Write(l)
  PROVE  LossInv'
  <1>1. /\ UNCHANGED <<feed, kept, link, pos, emitted, overlap, hurt>>
        /\ lane[l].pc = "set" /\ Handling(l) /\ latest' = Written(l)
    BY DEF Write, Handling
  <1> DEFINE h == Head1(l)
             k == lane[l].k
  <1>2. /\ h = feed[k] /\ k \in DOMAIN feed /\ k \in Nat /\ lane[l].last \in Nat
        /\ h \in Message /\ h.from \in Senders /\ h.nonce \in Nat
    BY <1>1, AtHead DEF Head1
  <1>3. /\ latest'[h.from] = h.nonce /\ latest[h.from] < h.nonce
        /\ \A s \in Senders \ {h.from} : latest'[s] = latest[s]
    BY <1>1, WrittenType DEF CalmInv, InHand
  <1>4. /\ \A m \in Lanes \ {l} : lane'[m] = lane[m] /\ lane[m].pc = "free"
        /\ lane'[l].pc = "emit" /\ lane'[l].k = k /\ lane'[l].last = lane[l].last
    BY <1>1, Writing DEF CalmInv, OneBusy
  <1>5. Head1(l)' = h
    BY <1>1, <1>4, HeadStays DEF Handling
  <1>6. \A s \in Senders : latest[s] \in Nat /\ latest'[s] \in Nat /\ latest[s] <= latest'[s]
    <2>1. \A s \in Senders : latest[s] \in Nat /\ latest'[s] \in Nat
      BY DEF TypeOK
    <2> HIDE DEF h
    <2> QED
      BY <1>2, <1>3, <2>1
  <1>7. Missed /\ LatestOut /\ Progress
    BY DEF LossInv
  <1>8. ASSUME NEW e, Out(e) PROVE Out(e)'
    BY <1>1, <1>4, <1>8, OutStays
  <1>9. ASSUME NEW e, e = h PROVE Out(e)'
    BY <1>4, <1>5, <1>9 DEF Out
  <1> HIDE DEF h, k
  <1>10. Missed'
    <2> SUFFICES ASSUME NEW j \in DOMAIN feed, kept < j, NEW e, e = feed[j],
                        e.nonce <= latest'[e.from]
                 PROVE  Out(e)'
      BY <1>1 DEF Missed
    <2>1. e \in Message /\ e.from \in Senders /\ e.nonce \in Nat /\ j \in Nat
          /\ e = [from |-> e.from, nonce |-> e.nonce]
      BY FeedEntry
    <2>2. CASE e.from # h.from \/ e.nonce <= latest[e.from]
      <3>1. e.nonce <= latest[e.from]
        BY <1>3, <2>1, <2>2
      <3>2. Out(e)
        BY <1>7, <3>1 DEF Missed
      <3> QED
        BY <1>8, <3>2
    <2>3. CASE e.from = h.from /\ ~ (e.nonce <= latest[e.from])
      <3>1. ~ (j < k)
        <4>1. Passed(k - 1)
          BY <1>1, <1>7 DEF Progress, k
        <4> QED
          BY <1>2, <2>1, <2>3, <4>1 DEF Passed
      <3>2. h.nonce <= e.nonce
        BY <1>2, <2>1, <2>3, <3>1 DEF FeedInv, Rising
      <3>3. e.nonce = h.nonce
        BY <1>2, <1>3, <2>1, <2>3, <3>2
      <3>4. h = [from |-> h.from, nonce |-> h.nonce]
        BY <1>2 DEF Message
      <3>5. e = h
        BY <2>1, <2>3, <3>3, <3>4
      <3> QED
        BY <1>9, <3>5
    <2> QED
      BY <2>2, <2>3
  <1>11. LatestOut'
    <2> SUFFICES ASSUME NEW s \in Senders, latest'[s] > 0, NEW e,
                        e = [from |-> s, nonce |-> latest'[s]]
                 PROVE  Out(e)'
      BY DEF LatestOut
    <2>1. CASE s = h.from
      <3>1. h = [from |-> h.from, nonce |-> h.nonce]
        BY <1>2 DEF Message
      <3> QED
        BY <1>3, <1>9, <2>1, <3>1
    <2>2. CASE s # h.from
      BY <1>3, <1>7, <1>8, <2>2 DEF LatestOut
    <2> QED
      BY <2>1, <2>2
  <1>12. Progress'
    <2>1. k - 1 \in Nat /\ k - 1 <= Len(feed)
      BY SMTT(30), <1>2 DEF TypeOK
    <2>2. Passed(k - 1)
      BY <1>1, <1>7 DEF Progress, k
    <2>3. kept <= kept'
      BY <1>1 DEF TypeOK
    <2>4. ASSUME NEW n \in Nat, n = k - 1 PROVE Passed(n)'
      BY <1>1, <1>6, <2>1, <2>2, <2>3, <2>4, PassedStays
    <2>5. link = "up" => pos <= lane[l].last
      BY <1>1, <1>7 DEF Progress
    <2> QED
      BY <1>1, <1>4, <2>1, <2>4, <2>5 DEF Progress, Handling
  <1> QED
    BY <1>10, <1>11, <1>12 DEF LossInv

LEMMA LossEmit ==
  ASSUME TypeOK, TypeOK', Calm, CalmInv, ~ hurt, LossInv, [Next]_vars,
         NEW l \in Lanes, Emit(l)
  PROVE  LossInv'
  <1>1. /\ UNCHANGED <<feed, kept, link, pos, latest, overlap, hurt>>
        /\ lane[l].pc = "emit" /\ Handling(l) /\ Next1(l)
        /\ emitted' = Append(emitted, Head1(l)) /\ emitted \in Seq(Message)
    BY DEF Emit, Handling, TypeOK
  <1>2. Missed /\ LatestOut /\ Progress /\ OneBusy
    BY DEF LossInv, CalmInv
  <1>3. Head1(l) \in Message /\ Head1(l).nonce \in Nat
        /\ Head1(l).nonce = latest[Head1(l).from]
    BY <1>1, AtHead DEF CalmInv, InHand
  <1>4. ASSUME NEW e, Out(e) PROVE Out(e)'
    <2>1. CASE \E i \in DOMAIN emitted : emitted[i] = e
      BY <1>1, <2>1 DEF Out
    <2>2. CASE \E m \in Lanes : lane[m].pc = "emit" /\ Head1(m) = e
      <3>1. Head1(l) = e
        BY <1>1, <1>2, <2>2 DEF OneBusy
      <3> QED
        BY <1>1, <3>1 DEF Out
    <2> QED
      BY <1>4, <2>1, <2>2 DEF Out
  <1>5. Missed'
    BY <1>1, <1>2, <1>4 DEF Missed
  <1>6. LatestOut'
    BY <1>1, <1>2, <1>4 DEF LatestOut
  <1>7. Progress'
    BY <1>1, <1>2, <1>3, LossOnward
  <1> QED
    BY <1>5, <1>6, <1>7 DEF LossInv
LEMMA LossNext ==
  TypeOK /\ TypeOK' /\ FeedInv /\ CalmInv /\ CalmInv' /\ LossInv /\ [Next]_vars => LossInv'
  <1> SUFFICES ASSUME TypeOK, TypeOK', FeedInv, CalmInv, CalmInv', LossInv, [Next]_vars,
                      Calm', ~ hurt'
               PROVE  LossInv'
    BY DEF LossInv
  <1>1. ASSUME NEW s \in Senders, Publish(s) PROVE LossInv'
    BY <1>1, LossPublish DEF Publish, Calm
  <1>2. ASSUME UNCHANGED <<feed, pos, latest, lane, emitted, overlap, hurt>>,
               kept <= kept', link' = link \/ (link' # "up" /\ link # "over")
        PROVE  LossInv'
    <2>1. Missed /\ LatestOut /\ Progress
      BY <1>2 DEF LossInv, Calm
    <2>2. Missed' /\ LatestOut'
      BY <1>2, <2>1, LossQuiet
    <2>3. \A n \in Nat : n <= Len(feed) /\ Passed(n) => Passed(n)'
      BY <1>2, PassedStays DEF TypeOK
    <2>4. pos \in Nat /\ pos <= Len(feed)
      BY DEF TypeOK
    <2>5. ASSUME NEW l \in Lanes, Handling(l) PROVE Passed(lane[l].k - 1)'
      <3>1. lane[l].k - 1 \in Nat /\ lane[l].k - 1 <= Len(feed)
        BY SMTT(30), <2>5, AtHead DEF TypeOK
      <3> QED
        BY <1>2, <2>1, <2>3, <2>5, <3>1 DEF Progress
    <2>6. link' = "up" => link = "up"
      BY <1>2
    <2> QED
      BY <1>2, <2>1, <2>2, <2>3, <2>4, <2>5, <2>6 DEF LossInv, Progress, Handling
  <1>3. CASE UNCHANGED vars
    BY <1>2, <1>3 DEF vars, TypeOK
  <1>4. CASE Forget \/ Lose
    BY <1>2, <1>4 DEF Forget, Lose, TypeOK
  <1>5. CASE Leave
    <2>1. Missed /\ LatestOut /\ Progress
      BY <1>5 DEF LossInv, Calm, Leave
    <2>2. Missed' /\ LatestOut'
      BY <1>5, <2>1, LossQuiet DEF Leave, TypeOK
    <2> QED
      BY <1>5, <2>1, <2>2 DEF LossInv, Progress, Handling, Passed, Leave
  <1>6. CASE Clear
    BY <1>6 DEF Clear, Calm
  <1>7. CASE Crash
    <2>1. /\ \A l \in Lanes : lane[l].pc # "emit"
          /\ \A l \in Lanes : lane'[l].pc = "free"
          /\ link' # "up" /\ ~ hurt /\ UNCHANGED <<feed, kept, latest, emitted, overlap>>
      BY <1>7, Records DEF Crash
    <2>2. Calm
      BY <1>7, <2>1 DEF Calm, Crash
    <2>3. Missed' /\ LatestOut'
      BY <2>1, <2>2, LossQuiet DEF LossInv, TypeOK
    <2> QED
      BY <2>1, <2>3 DEF LossInv, Progress, Handling
  <1>8. ASSUME NEW l \in Lanes, NEW r \in Lane, Start(l, r), link # "over",
               UNCHANGED <<feed, kept, latest, emitted, hurt>>
        PROVE  /\ Missed' /\ LatestOut' /\ (link = "up" => Passed(pos)) /\ lane'[l] = r
               /\ \A m \in Lanes \ {l} : lane'[m].pc = "free"
    <2>1. /\ Calm /\ \A m \in Lanes : lane[m].pc = "free"
          /\ lane'[l] = r /\ \A m \in Lanes \ {l} : lane'[m] = lane[m]
      BY <1>8, Starting DEF Calm
    <2>2. Missed /\ LatestOut /\ Progress
      BY <1>8, <2>1 DEF LossInv
    <2>3. Missed' /\ LatestOut'
      BY <1>8, <2>1, <2>2, LossQuiet DEF TypeOK
    <2> QED
      BY <1>8, <2>1, <2>2, <2>3 DEF Progress
  <1>9. ASSUME NEW l \in Lanes, Subscribe(l) \/ Resubscribe(l) PROVE LossInv'
    <2>1. Start(l, Fetch) /\ link # "over" /\ UNCHANGED <<feed, kept, latest, emitted, hurt>>
      BY <1>9 DEF Subscribe, Resubscribe
    <2>2. Fetch \in Lane /\ Fetch.pc = "fetch"
      BY Records
    <2>3. /\ Missed' /\ LatestOut' /\ lane'[l].pc = "fetch"
          /\ \A m \in Lanes \ {l} : lane'[m].pc = "free"
      BY <1>8, <2>1, <2>2
    <2>4. \A m \in Lanes : ~ (lane'[m].pc \in {"get", "set", "emit"})
      BY <2>3
    <2> QED
      BY <2>3, <2>4 DEF LossInv, Progress, Handling
  <1>10. ASSUME NEW l \in Lanes, Deliver(l) PROVE LossInv'
    <2>1. /\ Start(l, Handle(pos + 1)) /\ link = "up" /\ pos' = pos + 1 /\ pos \in Nat
          /\ UNCHANGED <<feed, kept, link, latest, emitted, hurt>>
      BY <1>10 DEF Deliver, TypeOK
    <2>2. /\ Handle(pos + 1) \in Lane /\ Handle(pos + 1).pc = "get"
          /\ Handle(pos + 1).k = pos + 1 /\ Handle(pos + 1).last = pos + 1
      <3>1. pos + 1 \in Nat
        BY <2>1
      <3> QED
        BY <3>1, Records
    <2>3. /\ Missed' /\ LatestOut' /\ Passed(pos) /\ lane'[l] = Handle(pos + 1)
          /\ \A m \in Lanes \ {l} : lane'[m].pc = "free"
      BY <1>8, <2>1, <2>2
    <2>4. lane'[l].k - 1 = pos /\ pos' <= lane'[l].last
      BY <2>1, <2>2, <2>3
    <2> QED
      BY <2>1, <2>2, <2>3, <2>4 DEF LossInv, Progress, Handling, Passed
  <1>11. ASSUME NEW l \in Lanes, Step(l) PROVE LossInv'
    <2>1. ~ hurt /\ Calm /\ OneBusy /\ Missed /\ LatestOut /\ Progress /\ InHand(l)
      <3>1. UNCHANGED <<link, overlap>> /\ (hurt => hurt')
        <4>1. CASE Fetched(l) \/ Read(l)
          BY <4>1 DEF Fetched, Read
        <4>2. CASE FetchFails(l)
          BY <4>2 DEF FetchFails
        <4>3. CASE Write(l) \/ Emit(l)
          BY <4>3 DEF Write, Emit
        <4>4. CASE StoreFails(l)
          BY <4>4 DEF StoreFails
        <4> QED
          BY <1>11, <4>1, <4>2, <4>3, <4>4 DEF Step
      <3>2. ~ hurt /\ Calm
        BY <3>1 DEF Calm
      <3> QED
        BY <3>2 DEF LossInv, CalmInv
    <2>2. CASE Fetched(l)
      <3> DEFINE r == [Free EXCEPT !.pc = "get", !.k = kept + 1, !.last = Len(feed)]
      <3>1. kept \in Nat /\ Len(feed) \in Nat /\ DOMAIN feed = 1 .. Len(feed) /\ pos <= Len(feed)
            /\ kept <= Len(feed)
        BY DEF TypeOK
      <3>2. r \in Lane /\ r.pc = "get" /\ r.k = kept + 1 /\ r.last = Len(feed)
        <4>1. kept + 1 \in Nat
          BY <3>1
        <4> QED
          BY <3>1, <4>1 DEF Free, Lane
      <3>3. /\ lane' = [lane EXCEPT ![l] = IF kept = Len(feed) THEN Free ELSE r]
            /\ UNCHANGED <<feed, kept, link, pos, latest, emitted, overlap, hurt>>
            /\ lane[l].pc = "fetch"
        BY <2>2 DEF Fetched
      <3> HIDE DEF r
      <3>4. /\ lane'[l] = IF kept = Len(feed) THEN Free ELSE r
            /\ \A m \in Lanes \ {l} : lane'[m] = lane[m] /\ lane[m].pc = "free"
        BY <2>1, <3>2, <3>3, Records, OneLane DEF OneBusy
      <3>5. Missed' /\ LatestOut'
        <4>1. \A m \in Lanes : lane[m].pc # "emit"
          BY <3>3, <3>4
        <4>2. kept <= kept' /\ \A m \in Lanes : lane[m].pc = "emit" => lane'[m] = lane[m]
          <5>1. kept' = kept
            BY <3>3
          <5> QED
            BY <3>1, <4>1, <5>1
        <4>3. UNCHANGED <<feed, latest, emitted>>
          BY <3>3
        <4> QED
          BY <2>1, <4>2, <4>3, LossQuiet
      <3>6. \A n \in Nat : n <= kept => Passed(n)
        BY <3>1 DEF Passed
      <3>7. CASE kept = Len(feed)
        <4>1. \A m \in Lanes : ~ Handling(m)'
          BY <3>4, <3>7, Records DEF Handling
        <4>2. Passed(pos)
          BY <3>1, <3>7 DEF Passed
        <4> QED
          BY <3>3, <3>5, <4>1, <4>2 DEF LossInv, Progress, Passed
      <3>8. CASE kept # Len(feed)
        <4>1. lane'[l].k - 1 = kept /\ lane'[l].last = Len(feed) /\ lane'[l].pc = "get"
          BY <3>1, <3>2, <3>4, <3>8
        <4>2. \A m \in Lanes \ {l} : lane'[m].pc = "free"
          BY <3>4
        <4>3. ASSUME NEW n \in Nat, n = kept PROVE Passed(n)'
          BY <3>3, <3>6, <4>3 DEF Passed
        <4>4. pos' <= lane'[l].last
          BY <3>1, <3>3, <4>1
        <4>5. ASSUME NEW m \in Lanes, Handling(m)' PROVE Passed(lane[m].k - 1)' /\ (link' = "up" => pos' <= lane'[m].last)
          <5>1. m = l
            BY <4>2, <4>5 DEF Handling
          <5> QED
            BY <3>1, <4>1, <4>3, <4>4, <5>1
        <4>6. ~ \A m \in Lanes : lane'[m].pc = "free"
          BY <4>1
        <4> QED
          BY <3>5, <4>5, <4>6 DEF LossInv, Progress
      <3> QED
        BY <3>7, <3>8
    <2>3. CASE FetchFails(l)
      <3>1. /\ lane' = [lane EXCEPT ![l] = Free] /\ lane[l].pc = "fetch" /\ link # "up"
            /\ UNCHANGED <<feed, kept, link, pos, latest, emitted, overlap>>
        BY <2>1, <2>3 DEF FetchFails
      <3>2. \A m \in Lanes : lane'[m].pc = "free"
        BY <2>1, <3>1, Records, OneLane DEF OneBusy
      <3>3. Missed' /\ LatestOut'
        BY <2>1, <3>1, LossQuiet DEF TypeOK, OneBusy
      <3> QED
        BY <3>1, <3>2, <3>3 DEF LossInv, Progress, Handling
    <2>4. CASE Read(l)
      <3>1. /\ lane[l].pc = "get" /\ Handling(l)
            /\ UNCHANGED <<feed, kept, link, pos, latest, emitted, overlap, hurt>>
        BY <2>4 DEF Read, Handling
      <3>2. Missed' /\ LatestOut'
        <4>1. \A m \in Lanes : lane[m].pc # "emit"
          BY <2>1, <3>1 DEF OneBusy
        <4> QED
          BY <2>1, <3>1, <4>1, LossQuiet DEF TypeOK
      <3>3. CASE Next1(l) /\ ~ (Head1(l).nonce > latest[Head1(l).from])
        <4>1. Head1(l).nonce <= latest[Head1(l).from]
          BY <3>1, <3>3, AtHead DEF TypeOK
        <4> QED
          BY <2>1, <3>1, <3>2, <3>3, <4>1, LossOnward DEF LossInv
      <3>4. CASE lane' = [lane EXCEPT ![l].pc = "set", ![l].seen = latest]
        <4>1. /\ \A m \in Lanes \ {l} : lane'[m] = lane[m] /\ lane[m].pc = "free"
              /\ lane'[l].pc = "set" /\ lane'[l].k = lane[l].k /\ lane'[l].last = lane[l].last
          BY <2>1, <3>1, <3>4, Reading DEF OneBusy
        <4> QED
          BY <2>1, <3>1, <3>2, <4>1 DEF LossInv, Progress, Handling, Passed
      <3> QED
        BY <2>4, <3>3, <3>4 DEF Read
    <2>5. CASE Write(l)
      BY <2>1, <2>5, LossWrite
    <2>6. CASE Emit(l)
      BY <2>1, <2>6, LossEmit
    <2>7. CASE StoreFails(l)
      BY <2>7 DEF StoreFails
    <2> QED
      BY <1>11, <2>2, <2>3, <2>4, <2>5, <2>6, <2>7 DEF Step
  <1> QED
    BY <1>1, <1>3, <1>4, <1>5, <1>6, <1>7, <1>9, <1>10, <1>11 DEF Next

\* Nothing the relay still has is passed over, while no two lanes overlap and
\* nothing fails in mid-handling.
THEOREM LosesNothing == Spec => []NothingLost
  <1> DEFINE Inv == TypeOK /\ CalmInv /\ FeedInv /\ LossInv
  <1>1. Init => Inv
    BY TypeInit, CalmInit, LossInit
  <1>2. Inv /\ [Next]_vars => Inv'
    BY TypeNext, CalmNext, FeedInvNext, LossNext
  <1>3. Inv => NothingLost
    <2> SUFFICES ASSUME Inv, Calm, ~ hurt, NEW k \in kept + 1 .. Len(feed),
                        feed[k].nonce <= latest[feed[k].from]
                 PROVE  Out(feed[k])
      BY DEF NothingLost, NothingMissed
    <2>1. k \in DOMAIN feed /\ kept < k
      BY DEF TypeOK
    <2> QED
      BY <2>1 DEF LossInv, Missed
  <1> QED
    BY <1>1, <1>2, <1>3, PTL DEF Spec
=============================================================================
