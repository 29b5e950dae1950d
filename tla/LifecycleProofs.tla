-------------------------- MODULE LifecycleProofs --------------------------
(***************************************************************************)
(* Proofs about Lifecycle, for every set of sessions and any number of     *)
(* calls in progress.                                                      *)
(***************************************************************************)
EXTENDS Lifecycle, TLAPS

Call == [op : Ops, pc : Pcs, of : Sessions \union {NoSession}]

\* The step of a call belongs to what was called, and all but an idle one have
\* a session.
Matched(k) ==
  /\ k.op = "resume" <=> k.pc \in {"get", "dial", "dialed", "join", "joined"}
  /\ k.op = "reconnect" <=> k.pc \in {"redial", "rejoin", "redialed", "redialFailed"}
  /\ k.pc # "idle" => k.of \in Sessions

CallsOK == call \in [Calls -> Call] /\ \A c \in Calls : Matched(call[c])

-----------------------------------------------------------------------------
(* Calls *)

\* One call is updated alone.
LEMMA OneCall ==
  ASSUME CallsOK, NEW c \in Calls, NEW r \in Call, Matched(r),
         call' = [call EXCEPT ![c] = r]
  PROVE  /\ CallsOK'
         /\ call'[c] = r
         /\ \A d \in Calls \ {c} : call'[d] = call[d]
  BY DEF CallsOK

\* One call goes on, in the same operation.
LEMMA Going ==
  ASSUME CallsOK, NEW c \in Calls, NEW p \in Pcs, call[c].pc # "idle",
         Matched([call[c] EXCEPT !.pc = p]), call' = Goes(c, p)
  PROVE  /\ CallsOK'
         /\ call'[c].pc = p /\ call'[c].op = call[c].op /\ call'[c].of = call[c].of
         /\ \A d \in Calls \ {c} : call'[d] = call[d]
  <1> DEFINE r == [call[c] EXCEPT !.pc = p]
  <1>1. /\ r \in Call
        /\ r.pc = p /\ r.op = call[c].op /\ r.of = call[c].of
    BY DEF CallsOK, Call
  <1>2. call' = [call EXCEPT ![c] = r]
    BY DEF Goes, CallsOK
  <1>3. Matched(r)
    OBVIOUS
  <1> HIDE DEF r
  <1> QED
    BY <1>1, <1>2, <1>3, OneCall

LEMMA IdleCall == Idle \in Call /\ Matched(Idle) /\ Idle.pc = "idle" /\ Idle.op = "none"
  BY NoSessionAssumption DEF Idle, Call, Matched, Ops, Pcs

LEMMA Finishing ==
  ASSUME CallsOK, NEW c \in Calls, call' = Done(c)
  PROVE  /\ CallsOK'
         /\ call'[c] = Idle
         /\ \A d \in Calls \ {c} : call'[d] = call[d]
  BY IdleCall, OneCall DEF Done

\* A call begins.
LEMMA Beginning ==
  ASSUME CallsOK, NEW c \in Calls, NEW o \in Ops, NEW p \in Pcs, NEW s \in Sessions,
         Matched([op |-> o, pc |-> p, of |-> s]),
         call' = [call EXCEPT ![c] = [op |-> o, pc |-> p, of |-> s]]
  PROVE  /\ CallsOK'
         /\ call'[c].op = o /\ call'[c].pc = p /\ call'[c].of = s
         /\ \A d \in Calls \ {c} : call'[d] = call[d]
  <1> DEFINE r == [op |-> o, pc |-> p, of |-> s]
  <1>1. r \in Call /\ r.op = o /\ r.pc = p /\ r.of = s
    BY DEF Call
  <1>2. Matched(r) /\ call' = [call EXCEPT ![c] = r]
    OBVIOUS
  <1> HIDE DEF r
  <1> QED
    BY <1>1, <1>2, OneCall

\* Calls that wait for an event have their answer, and go on in the same operation.
Woken(k, l, from, to) == k.pc = from /\ l.pc = to /\ l.op = k.op /\ l.of = k.of

LEMMA Waking ==
  ASSUME CallsOK, NEW c \in Calls, NEW from, NEW to,
         <<from, to>> \in {<<"dial", "dialed">>, <<"join", "joined">>, <<"redial", "redialed">>,
                           <<"rejoin", "redialed">>, <<"redial", "redialFailed">>},
         call[c].pc = from
  PROVE  /\ [call[c] EXCEPT !.pc = to] \in Call
         /\ Matched([call[c] EXCEPT !.pc = to])
         /\ Woken(call[c], [call[c] EXCEPT !.pc = to], from, to)
  BY DEF CallsOK, Call, Matched, Woken, Pcs, Answered

LEMMA ConnectedWakes ==
  ASSUME CallsOK, Connected
  PROVE  /\ CallsOK'
         /\ \A c \in Calls : \/ Woken(call[c], call'[c], "dial", "dialed")
                             \/ Woken(call[c], call'[c], "redial", "redialed")
                             \/ Woken(call[c], call'[c], "rejoin", "redialed")
                             \/ call'[c] = call[c] /\ call[c].pc \notin {"dial", "redial", "rejoin"}
  <1> DEFINE new(c) == CASE call[c].pc = "dial"                 -> [call[c] EXCEPT !.pc = "dialed"]
                         [] call[c].pc \in {"redial", "rejoin"} -> [call[c] EXCEPT !.pc = "redialed"]
                         [] OTHER                               -> call[c]
  <1>1. call' = [c \in Calls |-> new(c)]
    BY DEF Connected, Become
  <1>2. ASSUME NEW c \in Calls
        PROVE  /\ new(c) \in Call /\ Matched(new(c))
               /\ \/ Woken(call[c], new(c), "dial", "dialed")
                  \/ Woken(call[c], new(c), "redial", "redialed")
                  \/ Woken(call[c], new(c), "rejoin", "redialed")
                  \/ new(c) = call[c] /\ call[c].pc \notin {"dial", "redial", "rejoin"}
    <2>1. CASE call[c].pc \in {"dial", "redial", "rejoin"}
      BY <2>1, Waking
    <2>2. CASE call[c].pc \notin {"dial", "redial", "rejoin"}
      BY <2>2 DEF CallsOK
    <2> QED
      BY <2>1, <2>2
  <1> HIDE DEF new
  <1> QED
    BY <1>1, <1>2 DEF CallsOK

LEMMA DialFailsWakes ==
  ASSUME CallsOK, DialFails
  PROVE  /\ CallsOK'
         /\ \A c \in Calls : \/ Woken(call[c], call'[c], "redial", "redialFailed")
                             \/ call'[c] = call[c]
  <1> DEFINE new(c) == IF call[c].pc = "redial" THEN [call[c] EXCEPT !.pc = "redialFailed"] ELSE call[c]
  <1>1. call' = [c \in Calls |-> new(c)]
    BY DEF DialFails, Become
  <1>2. ASSUME NEW c \in Calls
        PROVE  /\ new(c) \in Call /\ Matched(new(c))
               /\ Woken(call[c], new(c), "redial", "redialFailed") \/ new(c) = call[c]
    BY Waking DEF CallsOK
  <1> HIDE DEF new
  <1> QED
    BY <1>1, <1>2 DEF CallsOK

LEMMA SubscribedWakes ==
  ASSUME CallsOK, NEW s \in Sessions, Subscribed(s)
  PROVE  /\ CallsOK'
         /\ \A c \in Calls : \/ Woken(call[c], call'[c], "join", "joined")
                             \/ call'[c] = call[c]
  <1> DEFINE new(c) == IF call[c].pc = "join" /\ call[c].of = s
                       THEN [call[c] EXCEPT !.pc = "joined"] ELSE call[c]
  <1>1. call' = [c \in Calls |-> new(c)]
    BY DEF Subscribed, Become
  <1>2. ASSUME NEW c \in Calls
        PROVE  /\ new(c) \in Call /\ Matched(new(c))
               /\ Woken(call[c], new(c), "join", "joined") \/ new(c) = call[c]
    BY Waking DEF CallsOK
  <1> HIDE DEF new
  <1> QED
    BY <1>1, <1>2 DEF CallsOK

\* A call that waits for a subscription that is removed never returns.
Dropped(k, l) == k.pc = "join" /\ l = Idle

LEMMA EndShape ==
  ASSUME CallsOK, NEW c \in Calls, NEW o \in {"disconnect", "send", "receive"},
         session \in Sessions, End(c, o)
  PROVE  /\ CallsOK'
         /\ call'[c].pc = "clear" /\ call'[c].op = o /\ call'[c].of = session
         /\ \A d \in Calls \ {c} : call'[d] = call[d] \/ Dropped(call[d], call'[d])
  <1> DEFINE r == [op |-> o, pc |-> "clear", of |-> session]
             new(d) == CASE d = c -> r
                         [] d # c /\ call[d].pc = "join" /\ link # "down" -> Idle
                         [] OTHER -> call[d]
  <1>1. call' = [d \in Calls |-> new(d)]
    BY DEF End, Become
  <1>2. r \in Call /\ Matched(r) /\ r.pc = "clear" /\ r.op = o /\ r.of = session
    BY DEF Call, Ops, Pcs, Matched
  <1>3. new(c) = r
    OBVIOUS
  <1>4. ASSUME NEW d \in Calls \ {c}
        PROVE  new(d) \in Call /\ Matched(new(d)) /\ (new(d) = call[d] \/ Dropped(call[d], new(d)))
    <2>1. new(d) = IF call[d].pc = "join" /\ link # "down" THEN Idle ELSE call[d]
      OBVIOUS
    <2> HIDE DEF new
    <2> QED
      BY <2>1, IdleCall DEF CallsOK, Dropped
  <1> HIDE DEF new, r
  <1> QED
    BY <1>1, <1>2, <1>3, <1>4 DEF CallsOK

LEMMA ClearedShape ==
  ASSUME CallsOK, NEW c \in Calls, Cleared(c)
  PROVE  /\ CallsOK'
         /\ call'[c].pc = "delete" /\ call'[c].op = call[c].op /\ call'[c].of = call[c].of
         /\ \A d \in Calls \ {c} : call'[d] = call[d] \/ Dropped(call[d], call'[d])
  <1> DEFINE r == [call[c] EXCEPT !.pc = "delete"]
             new(d) == CASE d = c -> r
                         [] d # c /\ call[d].pc = "join" /\ call[d].of = call[c].of -> Idle
                         [] OTHER -> call[d]
  <1>1. call' = [d \in Calls |-> new(d)]
    BY DEF Cleared, Become
  <1>2. r \in Call /\ Matched(r) /\ r.pc = "delete" /\ r.op = call[c].op /\ r.of = call[c].of
    BY DEF CallsOK, Call, Pcs, Matched, Cleared
  <1>3. new(c) = r
    OBVIOUS
  <1>4. ASSUME NEW d \in Calls \ {c}
        PROVE  new(d) \in Call /\ Matched(new(d)) /\ (new(d) = call[d] \/ Dropped(call[d], new(d)))
    <2>1. new(d) = IF call[d].pc = "join" /\ call[d].of = call[c].of THEN Idle ELSE call[d]
      OBVIOUS
    <2> HIDE DEF new
    <2> QED
      BY <2>1, IdleCall DEF CallsOK, Dropped
  <1> HIDE DEF new, r
  <1> QED
    BY <1>1, <1>2, <1>3, <1>4 DEF CallsOK

-----------------------------------------------------------------------------
(* Types *)

LEMMA Become1 == ASSUME NEW f, Become(f) PROVE call' = f
  BY DEF Become

\* What one action does to the calls.
LEMMA CallsStep ==
  ASSUME TypeOK, CallsOK, [Next]_vars
  PROVE  CallsOK'
  <1>1. ASSUME NEW c \in Calls, NEW s \in Sessions, Resume(c, s) PROVE CallsOK'
    BY <1>1, Beginning DEF Resume, Become, Ops, Pcs, Matched
  <1>2. ASSUME NEW c \in Calls, NEW s \in Sessions, Receive(c, s) PROVE CallsOK'
    <2>1. CASE End(c, "receive")
      <3>1. session \in Sessions
        BY <1>2 DEF Receive, TypeOK
      <3> QED
        BY <2>1, <3>1, EndShape
    <2>2. CASE Become([call EXCEPT ![c] = [op |-> "receive", pc |-> "open", of |-> s]])
      BY <2>2, Beginning DEF Become, Ops, Pcs, Matched
    <2> QED
      BY <1>2, <2>1, <2>2 DEF Receive
  <1>3. ASSUME NEW c \in Calls, Reconnect(c) PROVE CallsOK'
    <2> DEFINE p == IF link = "dialing" THEN "rejoin" ELSE "redial"
    <2>1. session \in Sessions /\ p \in {"rejoin", "redial"} /\ p \in Pcs
      BY <1>3 DEF Reconnect, TypeOK, Pcs
    <2>2. call' = [call EXCEPT ![c] = [op |-> "reconnect", pc |-> p, of |-> session]]
      BY <1>3 DEF Reconnect, Become
    <2> HIDE DEF p
    <2>3. Matched([op |-> "reconnect", pc |-> p, of |-> session])
      BY <2>1 DEF Matched
    <2> QED
      BY <2>1, <2>2, <2>3, Beginning DEF Ops
  <1>4. ASSUME NEW c \in Calls, Disconnect(c) PROVE CallsOK'
    <2>1. session \in Sessions
      BY <1>4 DEF Disconnect, TypeOK
    <2> QED
      BY <1>4, <2>1, EndShape DEF Disconnect
  <1>5. ASSUME NEW c \in Calls, Send(c) PROVE CallsOK'
    <2>1. session \in Sessions
      BY <1>5 DEF Send, TypeOK
    <2> QED
      BY <1>5, <2>1, EndShape DEF Send
  <1>6. ASSUME NEW c \in Calls, Found(c) PROVE CallsOK'
    <2> DEFINE p == IF link = "down" THEN "dial" ELSE "dialed"
    <2>1. p \in Pcs /\ call[c].pc = "get" /\ call' = Goes(c, p) /\ p \in {"dial", "dialed"}
      BY <1>6 DEF Found, Become, Pcs, Answered
    <2> HIDE DEF p
    <2>2. Matched([call[c] EXCEPT !.pc = p])
      BY <2>1 DEF CallsOK, Call, Matched
    <2> QED
      BY <2>1, <2>2, Going
  <1>7. ASSUME NEW c \in Calls, Join(c) PROVE CallsOK'
    <2> DEFINE p == IF call[c].of \in live THEN "joined" ELSE "join"
    <2>1. p \in Pcs /\ call[c].pc = "dialed" /\ call' = Goes(c, p) /\ p \in {"join", "joined"}
      BY <1>7 DEF Join, Become, Pcs, Answered
    <2> HIDE DEF p
    <2>2. Matched([call[c] EXCEPT !.pc = p])
      BY <2>1 DEF CallsOK, Call, Matched
    <2> QED
      BY <2>1, <2>2, Going
  <1>8. ASSUME NEW c \in Calls,
               NotFound(c) \/ Resumed(c) \/ Reconnected(c) \/ ReconnectFails(c)
                 \/ Deleted(c) \/ EndFails(c) \/ Handle(c)
        PROVE  CallsOK'
    <2>1. call' = Done(c)
      BY <1>8 DEF NotFound, Resumed, Reconnected, ReconnectFails, Deleted, EndFails, Handle, Become
    <2> QED
      BY <2>1, Finishing
  <1>9. ASSUME NEW c \in Calls, Cleared(c) PROVE CallsOK'
    BY <1>9, ClearedShape
  <1>10. CASE Connected
    BY <1>10, ConnectedWakes
  <1>11. CASE DialFails
    BY <1>11, DialFailsWakes
  <1>12. CASE Lose
    BY <1>12 DEF Lose, CallsOK
  <1>13. ASSUME NEW s \in Sessions, Subscribed(s) PROVE CallsOK'
    BY <1>13, SubscribedWakes
  <1>14. ASSUME NEW s \in Sessions, Expire(s) PROVE CallsOK'
    BY <1>14 DEF Expire, CallsOK
  <1>15. CASE UNCHANGED vars
    BY <1>15 DEF vars, CallsOK
  <1> QED
    BY <1>1, <1>2, <1>3, <1>4, <1>5, <1>6, <1>7, <1>8, <1>9, <1>10, <1>11, <1>12, <1>13, <1>14,
       <1>15 DEF Next, Continue

\* TypeOK but for the calls.
ValuesOK ==
  /\ state \in {"DISCONNECTED", "CONNECTING", "CONNECTED"}
  /\ session \in Sessions \union {NoSession}
  /\ stored \subseteq Sessions /\ expired \subseteq Sessions /\ ended \subseteq Sessions
  /\ link \in {"down", "dialing", "up"}
  /\ live \subseteq subs /\ subs \subseteq Sessions
  /\ crossed \in BOOLEAN /\ failed \in BOOLEAN /\ redialed \in BOOLEAN /\ dropped \in BOOLEAN

LEMMA Typed == TypeOK <=> ValuesOK /\ call \in [Calls -> Call]
                          /\ \A c \in Calls : call[c].pc # "idle" => call[c].of \in Sessions
  BY DEF TypeOK, ValuesOK, Call

LEMMA CrossedType == ASSUME TypeOK, NEW f, Become(f) PROVE crossed' \in BOOLEAN
  BY DEF Become, TypeOK

LEMMA ValuesStep ==
  ASSUME TypeOK, [Next]_vars
  PROVE  ValuesOK'
  <1> USE DEF ValuesOK, TypeOK, histories
  <1>1. ASSUME NEW c \in Calls, NEW s \in Sessions, Resume(c, s) PROVE ValuesOK'
    BY <1>1, CrossedType DEF Resume
  <1>2. ASSUME NEW c \in Calls, NEW o, End(c, o), UNCHANGED <<stored, expired, histories>>
        PROVE  ValuesOK'
    BY <1>2, CrossedType DEF End
  <1>3. ASSUME NEW c \in Calls, NEW s \in Sessions, Receive(c, s) PROVE ValuesOK'
    <2>1. CASE End(c, "receive")
      BY <1>2, <1>3, <2>1 DEF Receive
    <2>2. CASE /\ Become([call EXCEPT ![c] = [op |-> "receive", pc |-> "open", of |-> s]])
               /\ UNCHANGED <<state, session, link, subs, live>>
      BY <1>3, <2>2, CrossedType DEF Receive
    <2> QED
      BY <1>3, <2>1, <2>2 DEF Receive
  <1>4. ASSUME NEW c \in Calls, Reconnect(c) PROVE ValuesOK'
    BY <1>4, CrossedType DEF Reconnect
  <1>5. ASSUME NEW c \in Calls, Disconnect(c) \/ Send(c) PROVE ValuesOK'
    BY <1>2, <1>5 DEF Disconnect, Send
  <1>6. ASSUME NEW c \in Calls, Found(c) \/ NotFound(c) PROVE ValuesOK'
    BY <1>6, CrossedType DEF Found, NotFound
  <1>7. ASSUME NEW c \in Calls, Join(c) \/ Resumed(c) PROVE ValuesOK'
    BY <1>7, CrossedType DEF Join, Resumed
  <1>8. ASSUME NEW c \in Calls, Reconnected(c) \/ ReconnectFails(c) PROVE ValuesOK'
    BY <1>8, CrossedType DEF Reconnected, ReconnectFails
  <1>9. ASSUME NEW c \in Calls, Cleared(c) PROVE ValuesOK'
    BY <1>9, CrossedType DEF Cleared
  <1>10. ASSUME NEW c \in Calls, Deleted(c) \/ EndFails(c) PROVE ValuesOK'
    <2>1. Ending(call[c]) /\ call[c].of \in Sessions
      BY <1>10 DEF Deleted, EndFails, Ending
    <2> QED
      BY <1>10, <2>1, CrossedType DEF Deleted, EndFails
  <1>11. ASSUME NEW c \in Calls, Handle(c) PROVE ValuesOK'
    BY <1>11, CrossedType DEF Handle
  <1>12. CASE Connected \/ DialFails
    BY <1>12, CrossedType DEF Connected, DialFails
  <1>13. CASE Lose
    BY <1>13 DEF Lose
  <1>14. ASSUME NEW s \in Sessions, Subscribed(s) PROVE ValuesOK'
    BY <1>14, CrossedType DEF Subscribed
  <1>15. ASSUME NEW s \in Sessions, Expire(s) PROVE ValuesOK'
    BY <1>15 DEF Expire
  <1>16. CASE UNCHANGED vars
    BY <1>16 DEF vars
  <1> QED
    BY <1>1, <1>3, <1>4, <1>5, <1>6, <1>7, <1>8, <1>9, <1>10, <1>11, <1>12, <1>13, <1>14, <1>15,
       <1>16 DEF Next, Continue

TInv == TypeOK /\ CallsOK

LEMMA TypeStart == Init => TInv
  <1> SUFFICES ASSUME Init PROVE TInv
    OBVIOUS
  <1>1. CallsOK
    BY IdleCall DEF Init, CallsOK
  <1>2. ValuesOK
    BY DEF Init, ValuesOK
  <1> QED
    BY <1>1, <1>2, Typed DEF TInv, CallsOK, Matched

LEMMA TypeStep == TInv /\ [Next]_vars => TInv'
  <1> SUFFICES ASSUME TInv, [Next]_vars PROVE TInv'
    OBVIOUS
  <1>1. CallsOK' /\ ValuesOK'
    BY CallsStep, ValuesStep DEF TInv
  <1>2. TypeOK'
    BY <1>1 DEF TypeOK, ValuesOK, CallsOK, Matched, Call
  <1> QED
    BY <1>1, <1>2 DEF TInv

\* Every variable stays in its range, and every call in progress belongs to a
\* session.
THEOREM TypeCorrect == Spec => []TypeOK
  <1>1. Spec => []TInv
    BY TypeStart, TypeStep, PTL DEF Spec
  <1> QED
    BY <1>1, PTL DEF TInv

-----------------------------------------------------------------------------
(* What holds while no disconnect() has overlapped *)

Usable == state = "CONNECTED" => session # NoSession /\ session \in subs

Owned ==
  /\ state = "CONNECTING" <=> \E c \in Calls : Opening(call[c])
  /\ \A c, d \in Calls : Opening(call[c]) /\ Opening(call[d]) => c = d

\* The session of the client is subscribed to, or about to be.
Listening == session # NoSession =>
               session \in subs \/ \E c \in Calls : call[c].pc \in {"dial", "dialed"}

Gone == \A s \in ended : s \notin stored /\ s \notin subs /\ s # session

Apart == \A c, d \in Calls : ~ (Ending(call[c]) /\ Opening(call[d]))

\* What the steps of one call rely on.
Placed(k) ==
  /\ k.pc \in {"dial", "dialed", "join", "joined"} => session = k.of
  /\ k.pc \in {"join", "joined"} => k.of \in subs
  /\ k.op = "reconnect" => session # NoSession
  /\ Ending(k) => session = NoSession
  /\ k.pc = "delete" => k.of \notin subs

Sound == Usable /\ Owned /\ Listening /\ Gone /\ Apart /\ \A c \in Calls : Placed(call[c])

Before == TypeOK /\ CallsOK /\ Sound

LEMMA ApartAfter ==
  ASSUME NEW f, Become(f), ~ crossed'
  PROVE  ~ crossed /\ Apart'
  BY DEF Become, Apart

\* Openers and enders by where they are.
LEMMA Kinds ==
  ASSUME CallsOK
  PROVE  \A c \in Calls :
           /\ Opening(call[c]) <=> call[c].pc \in {"get", "dial", "dialed", "join", "joined",
                                                   "redial", "rejoin", "redialed", "redialFailed"}
           /\ call[c].op = "reconnect" <=> call[c].pc \in {"redial", "rejoin", "redialed", "redialFailed"}
           /\ Ending(call[c]) <=> call[c].pc \in {"clear", "delete"}
           /\ call[c].pc # "idle" => call[c].of \in Sessions
  BY DEF CallsOK, Matched, Opening, Ending

LEMMA KindsAfter ==
  ASSUME CallsOK'
  PROVE  \A c \in Calls :
           /\ Opening(call'[c]) <=> call'[c].pc \in {"get", "dial", "dialed", "join", "joined",
                                                     "redial", "rejoin", "redialed", "redialFailed"}
           /\ call'[c].op = "reconnect" <=> call'[c].pc \in {"redial", "rejoin", "redialed", "redialFailed"}
           /\ Ending(call'[c]) <=> call'[c].pc \in {"clear", "delete"}
           /\ call'[c].pc # "idle" => call'[c].of \in Sessions
  BY DEF CallsOK, Matched, Opening, Ending

LEMMA ResumeSound ==
  ASSUME Before, NEW c \in Calls, NEW s \in Sessions, Resume(c, s), ~ crossed'
  PROVE  Sound'
  <1> USE DEF Before, Sound, histories
  <1>1. /\ CallsOK' /\ call'[c].pc = "get"
        /\ \A d \in Calls \ {c} : call'[d] = call[d]
    BY Beginning DEF Resume, Become, Ops, Pcs, Matched
  <1>2. Apart'
    BY ApartAfter DEF Resume
  <1>3. Usable' /\ Gone'
    BY DEF Resume, Usable, Gone
  <1>4. Owned'
    BY <1>1, Kinds, KindsAfter DEF Resume, Owned
  <1>5. Listening'
    BY <1>1 DEF Resume, Listening
  <1>6. \A d \in Calls : Placed(call[d])'
    BY <1>1, Kinds, KindsAfter DEF Resume, Placed
  <1> QED
    BY <1>2, <1>3, <1>4, <1>5, <1>6

LEMMA NotFoundSound ==
  ASSUME Before, NEW c \in Calls, NotFound(c), ~ crossed'
  PROVE  Sound'
  <1> USE DEF Before, Sound, histories
  <1>1. /\ CallsOK' /\ call'[c] = Idle
        /\ \A d \in Calls \ {c} : call'[d] = call[d]
    BY Finishing DEF NotFound, Become
  <1>2. Apart'
    BY ApartAfter DEF NotFound
  <1>3. Usable'
    BY DEF NotFound, Usable
  <1>4. Gone'
    <2>1. NoSession \notin ended
      BY NoSessionAssumption DEF TypeOK
    <2> QED
      BY <2>1 DEF NotFound, Gone
  <1>5. Owned'
    BY <1>1, Kinds, KindsAfter, IdleCall DEF NotFound, Owned
  <1>6. Listening'
    BY DEF NotFound, Listening
  <1>7. \A d \in Calls : Placed(call[d])'
    BY <1>1, Kinds, KindsAfter, IdleCall DEF NotFound, Placed, Owned
  <1> QED
    BY <1>2, <1>3, <1>4, <1>5, <1>6, <1>7

LEMMA FoundSound ==
  ASSUME Before, NEW c \in Calls, Found(c), ~ crossed'
  PROVE  Sound'
  <1> USE DEF Before, Sound, histories
  <1>1. /\ CallsOK' /\ call'[c].pc \in {"dial", "dialed"} /\ call'[c].of = call[c].of
        /\ \A d \in Calls \ {c} : call'[d] = call[d]
    <2> DEFINE p == IF link = "down" THEN "dial" ELSE "dialed"
    <2>1. p \in Pcs /\ call[c].pc = "get" /\ call' = Goes(c, p) /\ p \in {"dial", "dialed"}
      BY DEF Found, Become, Pcs, Answered
    <2> HIDE DEF p
    <2>2. Matched([call[c] EXCEPT !.pc = p])
      BY <2>1 DEF CallsOK, Call, Matched
    <2> QED
      BY <2>1, <2>2, Going
  <1>2. Apart'
    BY ApartAfter DEF Found
  <1>3. Usable'
    BY Kinds DEF Found, Usable, Owned
  <1>4. Gone'
    BY DEF Found, Gone
  <1>5. Owned'
    BY <1>1, Kinds, KindsAfter DEF Found, Owned
  <1>6. Listening'
    BY <1>1 DEF Listening
  <1>7. \A d \in Calls : Placed(call[d])'
    <2>1. session' = call[c].of /\ call[c].of # NoSession /\ Opening(call[c]) /\ UNCHANGED subs
      BY Kinds, NoSessionAssumption DEF Found
    <2>2. \A d \in Calls \ {c} : ~ Opening(call[d]) /\ ~ Ending(call[d])
      BY <2>1 DEF Owned, Apart
    <2> QED
      BY <1>1, <2>1, <2>2, Kinds, KindsAfter DEF Placed
  <1> QED
    BY <1>2, <1>3, <1>4, <1>5, <1>6, <1>7

LEMMA JoinSound ==
  ASSUME Before, NEW c \in Calls, Join(c), ~ crossed'
  PROVE  Sound'
  <1> USE DEF Before, Sound, histories
  <1>1. /\ CallsOK' /\ call'[c].pc \in {"join", "joined"} /\ call'[c].of = call[c].of
        /\ \A d \in Calls \ {c} : call'[d] = call[d]
    <2> DEFINE p == IF call[c].of \in live THEN "joined" ELSE "join"
    <2>1. p \in Pcs /\ call[c].pc = "dialed" /\ call' = Goes(c, p) /\ p \in {"join", "joined"}
      BY DEF Join, Become, Pcs, Answered
    <2> HIDE DEF p
    <2>2. Matched([call[c] EXCEPT !.pc = p])
      BY <2>1 DEF CallsOK, Call, Matched
    <2> QED
      BY <2>1, <2>2, Going
  <1>2. Apart'
    BY ApartAfter DEF Join
  <1>3. call[c].pc = "dialed" /\ call[c].of = session /\ UNCHANGED session /\ subs' = subs \union {session}
    BY DEF Join, Placed
  <1>4. Usable'
    BY <1>3 DEF Join, Usable
  <1>5. Gone'
    BY <1>3 DEF Join, Gone
  <1>6. Owned'
    BY <1>1, Kinds, KindsAfter DEF Join, Owned
  <1>7. Listening'
    BY <1>3 DEF Listening
  <1>8. \A d \in Calls : Placed(call[d])'
    <2>1. \A d \in Calls \ {c} : ~ Opening(call[d]) /\ ~ Ending(call[d])
      BY <1>3, Kinds DEF Owned, Apart
    <2> QED
      BY <1>1, <1>3, <2>1, Kinds, KindsAfter DEF Placed
  <1> QED
    BY <1>2, <1>4, <1>5, <1>6, <1>7, <1>8

\* resume() and reconnect() succeed.
LEMMA OpenedSound ==
  ASSUME Before, NEW c \in Calls, Resumed(c) \/ Reconnected(c), ~ crossed'
  PROVE  Sound'
  <1> USE DEF Before, Sound, histories
  <1>1. /\ CallsOK' /\ call'[c] = Idle
        /\ \A d \in Calls \ {c} : call'[d] = call[d]
    BY Finishing DEF Resumed, Reconnected, Become
  <1>2. Apart'
    BY ApartAfter DEF Resumed, Reconnected
  <1>3. /\ call[c].pc \in {"joined", "redialed"} /\ UNCHANGED <<session, subs, ended, stored>>
        /\ state' = "CONNECTED"
    BY DEF Resumed, Reconnected
  <1>4. \A d \in Calls \ {c} : ~ Opening(call[d])
    BY <1>3, Kinds DEF Owned
  <1>5. session # NoSession
    BY <1>3, Kinds, NoSessionAssumption DEF Placed
  <1>6. session \in subs
    <2>1. \A d \in Calls : call[d].pc \notin {"dial", "dialed"}
      BY <1>3, <1>4, Kinds
    <2> QED
      BY <1>5, <2>1 DEF Listening
  <1>7. Usable' /\ Gone' /\ Listening'
    BY <1>3, <1>5, <1>6 DEF Usable, Gone, Listening
  <1>8. Owned'
    BY <1>1, <1>3, <1>4, Kinds, KindsAfter, IdleCall DEF Owned
  <1>9. \A d \in Calls : Placed(call[d])'
    BY <1>1, <1>3, Kinds, KindsAfter, IdleCall DEF Placed
  <1> QED
    BY <1>2, <1>7, <1>8, <1>9

LEMMA ReconnectSound ==
  ASSUME Before, NEW c \in Calls, Reconnect(c), ~ crossed'
  PROVE  Sound'
  <1> USE DEF Before, Sound, histories
  <1>1. /\ CallsOK' /\ call'[c].pc \in {"rejoin", "redial"}
        /\ \A d \in Calls \ {c} : call'[d] = call[d]
    <2> DEFINE p == IF link = "dialing" THEN "rejoin" ELSE "redial"
    <2>1. session \in Sessions /\ p \in {"rejoin", "redial"} /\ p \in Pcs
      BY DEF Reconnect, TypeOK, Pcs
    <2>2. call' = [call EXCEPT ![c] = [op |-> "reconnect", pc |-> p, of |-> session]]
      BY DEF Reconnect, Become
    <2> HIDE DEF p
    <2>3. Matched([op |-> "reconnect", pc |-> p, of |-> session])
      BY <2>1 DEF Matched
    <2> QED
      BY <2>1, <2>2, <2>3, Beginning DEF Ops
  <1>2. Apart'
    BY ApartAfter DEF Reconnect
  <1>3. Usable' /\ Gone'
    BY DEF Reconnect, Usable, Gone
  <1>4. Owned'
    BY <1>1, Kinds, KindsAfter DEF Reconnect, Owned
  <1>5. Listening'
    BY <1>1, Kinds DEF Reconnect, Listening, Owned
  <1>6. \A d \in Calls : Placed(call[d])'
    BY <1>1, Kinds, KindsAfter DEF Reconnect, Placed
  <1> QED
    BY <1>2, <1>3, <1>4, <1>5, <1>6

LEMMA ReconnectFailsSound ==
  ASSUME Before, NEW c \in Calls, ReconnectFails(c), ~ crossed'
  PROVE  Sound'
  <1> USE DEF Before, Sound, histories
  <1>1. /\ CallsOK' /\ call'[c] = Idle
        /\ \A d \in Calls \ {c} : call'[d] = call[d]
    BY Finishing DEF ReconnectFails, Become
  <1>2. Apart'
    BY ApartAfter DEF ReconnectFails
  <1>3. Usable' /\ Gone'
    BY DEF ReconnectFails, Usable, Gone
  <1>4. Owned'
    BY <1>1, Kinds, KindsAfter, IdleCall DEF ReconnectFails, Owned
  <1>5. Listening'
    BY <1>1, Kinds DEF ReconnectFails, Listening
  <1>6. \A d \in Calls : Placed(call[d])'
    BY <1>1, Kinds, KindsAfter, IdleCall DEF ReconnectFails, Placed
  <1> QED
    BY <1>2, <1>3, <1>4, <1>5, <1>6

LEMMA EndSound ==
  ASSUME Before, NEW c \in Calls, NEW o \in {"disconnect", "send", "receive"},
         call[c].pc = "idle", session \in Sessions, End(c, o),
         UNCHANGED <<stored, ended>>, ~ crossed'
  PROVE  Sound'
  <1> USE DEF Before, Sound
  <1>1. /\ CallsOK' /\ call'[c].pc = "clear"
        /\ \A d \in Calls \ {c} : call'[d] = call[d] \/ Dropped(call[d], call'[d])
    BY EndShape
  <1>2. Apart'
    BY ApartAfter DEF End
  <1>3. state' = "DISCONNECTED" /\ session' = NoSession /\ subs' \subseteq subs
    BY DEF End
  <1>4. Usable' /\ Listening'
    BY <1>3 DEF Usable, Listening
  <1>5. Gone'
    <2>1. NoSession \notin ended
      BY NoSessionAssumption DEF TypeOK
    <2> QED
      BY <1>3, <2>1 DEF Gone
  <1>6. \A d \in Calls : ~ Opening(call'[d])
    BY <1>1, <1>2 DEF Apart, Ending
  <1>7. Owned'
    BY <1>3, <1>6 DEF Owned
  <1>8. \A d \in Calls : Placed(call[d])'
    <2>1. \A d \in Calls : call'[d].pc \notin {"dial", "dialed", "join", "joined"}
                           /\ call'[d].op # "reconnect"
      BY <1>1, <1>6, KindsAfter DEF Opening
    <2>2. \A d \in Calls : call'[d].pc # "delete" \/ call'[d] = call[d]
      BY <1>1, IdleCall DEF Dropped
    <2> QED
      BY <1>3, <2>1, <2>2 DEF Placed
  <1> QED
    BY <1>2, <1>4, <1>5, <1>7, <1>8

LEMMA ClearedSound ==
  ASSUME Before, NEW c \in Calls, Cleared(c), ~ crossed'
  PROVE  Sound'
  <1> USE DEF Before, Sound, histories
  <1>1. /\ CallsOK' /\ call'[c].pc = "delete" /\ call'[c].of = call[c].of
        /\ \A d \in Calls \ {c} : call'[d] = call[d] \/ Dropped(call[d], call'[d])
    BY ClearedShape
  <1>2. Apart'
    BY ApartAfter DEF Cleared
  <1>3. /\ session = NoSession /\ subs' = subs \ {call[c].of}
        /\ UNCHANGED <<state, session, ended, stored>>
    BY Kinds DEF Cleared, Placed
  <1>4. Usable' /\ Listening' /\ Gone'
    BY <1>3 DEF Usable, Listening, Gone
  <1>5. \A d \in Calls : ~ Opening(call[d]) /\ ~ Opening(call'[d])
    BY <1>1, <1>2, Kinds, KindsAfter DEF Cleared, Apart
  <1>6. Owned'
    BY <1>3, <1>5 DEF Owned
  <1>7. \A d \in Calls : Placed(call[d])'
    BY <1>1, <1>3, <1>5, Kinds, KindsAfter, IdleCall DEF Placed, Dropped
  <1> QED
    BY <1>2, <1>4, <1>6, <1>7

\* disconnect() ends, or rejects, or a message is handled.
LEMMA DoneSound ==
  ASSUME Before, NEW c \in Calls, Deleted(c) \/ EndFails(c) \/ Handle(c), ~ crossed'
  PROVE  Sound'
  <1> USE DEF Before, Sound
  <1>1. /\ CallsOK' /\ call'[c] = Idle
        /\ \A d \in Calls \ {c} : call'[d] = call[d]
    BY Finishing DEF Deleted, EndFails, Handle, Become
  <1>2. Apart'
    BY ApartAfter DEF Deleted, EndFails, Handle
  <1>3. UNCHANGED <<state, session, subs>> /\ ~ Opening(call[c])
    BY Kinds DEF Deleted, EndFails, Handle, Ending
  <1>4. Usable'
    BY <1>3 DEF Usable
  <1>5. Gone'
    <2>1. CASE Deleted(c)
      <3>1. call[c].of \notin subs /\ session = NoSession /\ call[c].of # NoSession
        BY <2>1, Kinds, NoSessionAssumption DEF Deleted, Placed
      <3> QED
        BY <1>3, <2>1, <3>1 DEF Deleted, Gone
    <2>2. CASE EndFails(c) \/ Handle(c)
      BY <1>3, <2>2 DEF EndFails, Handle, Gone
    <2> QED
      BY <2>1, <2>2
  <1>6. Owned'
    BY <1>1, <1>3, Kinds, KindsAfter, IdleCall DEF Owned
  <1>7. Listening'
    BY <1>1, <1>3, Kinds DEF Listening
  <1>8. \A d \in Calls : Placed(call[d])'
    BY <1>1, <1>3, Kinds, KindsAfter, IdleCall DEF Placed
  <1> QED
    BY <1>2, <1>4, <1>5, <1>6, <1>7, <1>8

\* A message is being decrypted.
LEMMA OpenSound ==
  ASSUME Before, NEW c \in Calls, NEW s \in Sessions, call[c].pc = "idle", ~ crossed',
         Become([call EXCEPT ![c] = [op |-> "receive", pc |-> "open", of |-> s]]),
         UNCHANGED <<state, session, stored, subs, ended>>
  PROVE  Sound'
  <1> USE DEF Before, Sound
  <1>1. /\ CallsOK' /\ call'[c].pc = "open"
        /\ \A d \in Calls \ {c} : call'[d] = call[d]
    BY Beginning DEF Become, Ops, Pcs, Matched
  <1>2. Apart'
    BY ApartAfter
  <1>3. Usable' /\ Gone'
    BY DEF Usable, Gone
  <1>4. Owned'
    BY <1>1, Kinds, KindsAfter DEF Owned
  <1>5. Listening'
    BY <1>1 DEF Listening
  <1>6. \A d \in Calls : Placed(call[d])'
    BY <1>1, Kinds, KindsAfter DEF Placed
  <1> QED
    BY <1>2, <1>3, <1>4, <1>5, <1>6

LEMMA WakeSound ==
  ASSUME Before, ~ crossed', Apart', CallsOK', UNCHANGED <<state, session, stored, subs, ended>>,
         \A c \in Calls : \/ Woken(call[c], call'[c], "dial", "dialed")
                          \/ Woken(call[c], call'[c], "join", "joined")
                          \/ Woken(call[c], call'[c], "redial", "redialed")
                          \/ Woken(call[c], call'[c], "rejoin", "redialed")
                          \/ Woken(call[c], call'[c], "redial", "redialFailed")
                          \/ call'[c] = call[c]
  PROVE  Sound'
  <1> USE DEF Before, Sound
  <1>1. Usable' /\ Gone'
    BY DEF Usable, Gone
  <1>2. \A c \in Calls : /\ Opening(call'[c]) <=> Opening(call[c])
                         /\ call[c].pc \in {"dial", "dialed"} => call'[c].pc \in {"dial", "dialed"}
    BY DEF Woken, Opening
  <1>3. Owned'
    BY <1>2 DEF Owned
  <1>4. Listening'
    BY <1>2 DEF Listening
  <1>5. \A c \in Calls : Placed(call[c])'
    BY DEF Placed, Woken, Ending
  <1> QED
    BY <1>1, <1>3, <1>4, <1>5

LEMMA IdleSound ==
  ASSUME Before, UNCHANGED <<state, session, stored, subs, ended, call>>
  PROVE  Sound'
  <1> USE DEF Before, Sound
  <1>1. Usable' /\ Owned' /\ Listening' /\ Gone' /\ Apart'
    BY DEF Usable, Owned, Listening, Gone, Apart
  <1>2. \A c \in Calls : Placed(call[c])'
    BY DEF Placed
  <1> QED
    BY <1>1, <1>2

-----------------------------------------------------------------------------
LEMMA SoundStep ==
  ASSUME Before, [Next]_vars, ~ crossed, ~ crossed'
  PROVE  Sound'
  <1> USE DEF Before
  <1>1. ASSUME NEW c \in Calls, NEW s \in Sessions, Resume(c, s) PROVE Sound'
    BY <1>1, ResumeSound
  <1>2. ASSUME NEW c \in Calls, NEW s \in Sessions, Receive(c, s) PROVE Sound'
    <2>1. session \in Sessions /\ call[c].pc = "idle" /\ UNCHANGED <<stored, ended>>
      BY <1>2 DEF Receive, TypeOK, histories
    <2>2. CASE End(c, "receive")
      BY <2>1, <2>2, EndSound
    <2>3. CASE /\ Become([call EXCEPT ![c] = [op |-> "receive", pc |-> "open", of |-> s]])
               /\ UNCHANGED <<state, session, link, subs, live>>
      BY <2>1, <2>3, OpenSound
    <2> QED
      BY <1>2, <2>2, <2>3 DEF Receive
  <1>3. ASSUME NEW c \in Calls, Reconnect(c) PROVE Sound'
    BY <1>3, ReconnectSound
  <1>4. ASSUME NEW c \in Calls, Disconnect(c) PROVE Sound'
    BY <1>4, EndSound DEF Disconnect, TypeOK, histories
  <1>5. ASSUME NEW c \in Calls, Send(c) PROVE Sound'
    BY <1>5, EndSound DEF Send, TypeOK, histories
  <1>6. ASSUME NEW c \in Calls, Continue(c) PROVE Sound'
    BY <1>6, FoundSound, NotFoundSound, JoinSound, OpenedSound, ReconnectFailsSound, ClearedSound,
       DoneSound DEF Continue
  <1>7. CASE Connected
    <2>1. Apart'
      BY <1>7, ApartAfter DEF Connected
    <2>2. UNCHANGED <<state, session, stored, subs, ended>>
      BY <1>7 DEF Connected, histories
    <2> QED
      BY <1>7, <2>1, <2>2, ConnectedWakes, WakeSound
  <1>8. CASE DialFails
    <2>1. Apart'
      BY <1>8, ApartAfter DEF DialFails
    <2>2. UNCHANGED <<state, session, stored, subs, ended>>
      BY <1>8 DEF DialFails, histories
    <2> QED
      BY <1>8, <2>1, <2>2, DialFailsWakes, WakeSound
  <1>9. ASSUME NEW s \in Sessions, Subscribed(s) PROVE Sound'
    <2>1. Apart'
      BY <1>9, ApartAfter DEF Subscribed
    <2>2. UNCHANGED <<state, session, stored, subs, ended>>
      BY <1>9 DEF Subscribed, histories
    <2> QED
      BY <1>9, <2>1, <2>2, SubscribedWakes, WakeSound
  <1>10. CASE Lose
    BY <1>10, IdleSound DEF Lose, histories
  <1>11. ASSUME NEW s \in Sessions, Expire(s) PROVE Sound'
    BY <1>11, IdleSound DEF Expire, histories
  <1>12. CASE UNCHANGED vars
    BY <1>12, IdleSound DEF vars
  <1> QED
    BY <1>1, <1>2, <1>3, <1>4, <1>5, <1>6, <1>7, <1>8, <1>9, <1>10, <1>11, <1>12 DEF Next

\* crossed is for good.
LEMMA CrossedStays ==
  ASSUME TypeOK, [Next]_vars, crossed
  PROVE  crossed'
  <1>1. ASSUME NEW f, Become(f) PROVE crossed'
    BY <1>1 DEF Become
  <1>2. ASSUME NEW c \in Calls, NEW s \in Sessions, Resume(c, s) \/ Receive(c, s) PROVE crossed'
    BY <1>1, <1>2 DEF Resume, Receive, End
  <1>3. ASSUME NEW c \in Calls, Reconnect(c) \/ Disconnect(c) \/ Send(c) PROVE crossed'
    BY <1>1, <1>3 DEF Reconnect, Disconnect, Send, End
  <1>4. ASSUME NEW c \in Calls, Continue(c) PROVE crossed'
    BY <1>1, <1>4 DEF Continue, Found, NotFound, Join, Resumed, Reconnected, ReconnectFails, Cleared,
                      Deleted, EndFails, Handle
  <1>5. CASE Connected \/ DialFails \/ Lose
    BY <1>1, <1>5 DEF Connected, DialFails, Lose
  <1>6. ASSUME NEW s \in Sessions, Subscribed(s) \/ Expire(s) PROVE crossed'
    BY <1>1, <1>6 DEF Subscribed, Expire
  <1>7. CASE UNCHANGED vars
    BY <1>7 DEF vars
  <1> QED
    BY <1>2, <1>3, <1>4, <1>5, <1>6, <1>7 DEF Next

IInv == TInv /\ (~ crossed => Sound)

LEMMA Start == Init => IInv
  <1> SUFFICES ASSUME Init PROVE Sound
    BY TypeStart DEF IInv
  <1>1. \A c \in Calls : call[c] = Idle
    BY DEF Init
  <1>2. Usable /\ Listening /\ Gone
    BY DEF Init, Usable, Listening, Gone
  <1>3. Owned /\ Apart
    BY <1>1, IdleCall DEF Init, Owned, Apart, Opening, Ending
  <1>4. \A c \in Calls : Placed(call[c])
    BY <1>1, IdleCall DEF Placed, Ending
  <1> QED
    BY <1>2, <1>3, <1>4 DEF Sound

LEMMA Step == IInv /\ [Next]_vars => IInv'
  <1> SUFFICES ASSUME IInv, [Next]_vars PROVE IInv'
    OBVIOUS
  <1>1. TInv'
    BY TypeStep DEF IInv
  <1>2. ASSUME ~ crossed' PROVE Sound'
    BY <1>2, SoundStep, CrossedStays DEF IInv, TInv, Before
  <1> QED
    BY <1>1, <1>2 DEF IInv

LEMMA Holds == Spec => []IInv
  BY Start, Step, PTL DEF Spec

\* A client that says it is CONNECTED has a session, and its transport listens to
\* the channel of that session.
THEOREM ConnectedMeansUsable == Spec => []ConnectedIsUsable
  <1>1. IInv => ConnectedIsUsable
    BY DEF IInv, Sound, Usable, ConnectedIsUsable
  <1> QED
    BY <1>1, Holds, PTL

\* CONNECTING is the state of one call in progress, and of no other.
THEOREM ConnectingMeansOwned == Spec => []ConnectingIsOwned
  <1>1. IInv => ConnectingIsOwned
    BY DEF IInv, Sound, Owned, ConnectingIsOwned
  <1> QED
    BY <1>1, Holds, PTL

\* What was disconnected is in no record, no subscription and no client, ever.
THEOREM EndsForGood == Spec => []EndedForGood
  <1>1. IInv => EndedForGood
    BY DEF IInv, Sound, Gone, EndedForGood
  <1> QED
    BY <1>1, Holds, PTL

-----------------------------------------------------------------------------
(* Messages, while no disconnect() overlaps or rejects and nobody calls    *)
(* reconnect()                                                             *)

Calm == ~ crossed /\ ~ redialed /\ ~ failed

Some(pcs)   == \E c \in Calls : call[c].pc \in pcs
EndingOf(s) == \E c \in Calls : Ending(call[c]) /\ call[c].of = s

\* A message is received only in the session the client is CONNECTED in; by the
\* time it is decrypted that is so still, or the session is ended, or about to
\* be, and never resumed.
Heard ==
  /\ ~ dropped
  /\ \A c \in Calls : call[c].op # "reconnect"
  /\ state = "DISCONNECTED" \/ Some({"get"}) => session = NoSession
  /\ session # NoSession => session \in stored
  /\ \A s \in subs : \/ s = session /\ (state = "CONNECTED" \/ Some({"join", "joined"}))
                     \/ \E c \in Calls : call[c].pc = "clear" /\ call[c].of = s
  /\ \A s \in live : s = session /\ (state = "CONNECTED" \/ Some({"joined"}))
  /\ Some({"clear", "delete"}) => link = "down"
  /\ \A c \in Calls : call[c].pc = "open" =>
       \/ call[c].of = session /\ state = "CONNECTED"
       \/ call[c].of \notin stored
       \/ EndingOf(call[c].of)

\* What the lemmas below start from and end with.
Around == Before /\ Heard /\ CallsOK' /\ Sound'

LEMMA ResumeShape ==
  ASSUME CallsOK, NEW c \in Calls, NEW s \in Sessions, Resume(c, s)
  PROVE  /\ call'[c].pc = "get" /\ call'[c].op = "resume"
         /\ \A d \in Calls \ {c} : call'[d] = call[d]
  BY Beginning DEF Resume, Become, Ops, Pcs, Matched

LEMMA ResumeHeard ==
  ASSUME Around, NEW c \in Calls, NEW s \in Sessions, Resume(c, s)
  PROVE  Heard'
  <1> USE DEF Around, Before, Heard
  <1>1. /\ call'[c].pc = "get" /\ call'[c].op = "resume"
        /\ \A d \in Calls \ {c} : call'[d] = call[d]
    BY ResumeShape
  <1>2. /\ call[c].pc = "idle" /\ state = "DISCONNECTED" /\ state' = "CONNECTING"
        /\ UNCHANGED <<session, stored, link, subs, live, dropped>>
    BY DEF Resume, histories
  <1>3. session = NoSession
    BY <1>2
  <1>4. \A d \in Calls : ~ Ending(call[d])
    <2>1. \A d \in Calls : ~ Ending(call'[d])
      BY <1>1, KindsAfter DEF Sound, Apart
    <2> QED
      BY <1>1, <1>2, <2>1 DEF Ending
  <1>5. live = {} /\ subs = {}
    BY <1>3, <1>4, NoSessionAssumption DEF TypeOK, Ending
  <1>6. ~ Some({"clear", "delete"})'
    BY <1>1, <1>2, <1>4 DEF Some, Ending
  <1>7. \A d \in Calls : call'[d].pc = "open" => call'[d].of \notin stored'
    BY <1>1, <1>2, <1>4 DEF EndingOf
  <1> QED
    BY <1>1, <1>2, <1>3, <1>5, <1>6, <1>7

LEMMA NotFoundHeard ==
  ASSUME Around, NEW c \in Calls, NotFound(c)
  PROVE  Heard'
  <1> USE DEF Around, Before, Heard
  <1>1. /\ call'[c] = Idle
        /\ \A d \in Calls \ {c} : call'[d] = call[d]
    BY Finishing DEF NotFound, Become
  <1>2. /\ call[c].pc = "get" /\ state' = "DISCONNECTED" /\ session' = NoSession
        /\ stored' \subseteq stored /\ UNCHANGED <<link, subs, live, dropped>>
    BY DEF NotFound, histories
  <1>3. session = NoSession /\ Opening(call[c])
    BY <1>2, Kinds DEF Some
  <1>4. \A d \in Calls : ~ Ending(call[d])
    BY <1>3 DEF Sound, Apart
  <1>5. live = {} /\ subs = {}
    BY <1>3, <1>4, NoSessionAssumption DEF TypeOK, Ending
  <1>6. \A d \in Calls : ~ Ending(call'[d])
    BY <1>1, <1>4, IdleCall DEF Ending
  <1>7. \A d \in Calls : call'[d].pc = "open" => call'[d].of \notin stored'
    <2>1. \A d \in Calls : call[d].pc = "open" => call[d].of \in Sessions
      BY Kinds
    <2> QED
      BY <1>1, <1>2, <1>3, <1>4, <2>1, IdleCall, NoSessionAssumption DEF EndingOf
  <1>8. \A d \in Calls : call'[d].op # "reconnect"
    BY <1>1, IdleCall
  <1> QED
    BY <1>2, <1>5, <1>6, <1>7, <1>8 DEF Some, Ending

LEMMA FoundHeard ==
  ASSUME Around, NEW c \in Calls, Found(c)
  PROVE  Heard'
  <1> USE DEF Around, Before, Heard
  <1>1. /\ call'[c].pc \in {"dial", "dialed"} /\ call'[c].op = call[c].op
        /\ \A d \in Calls \ {c} : call'[d] = call[d]
    <2> DEFINE p == IF link = "down" THEN "dial" ELSE "dialed"
    <2>1. p \in Pcs /\ call[c].pc = "get" /\ call' = Goes(c, p) /\ p \in {"dial", "dialed"}
      BY DEF Found, Become, Pcs, Answered
    <2> HIDE DEF p
    <2>2. Matched([call[c] EXCEPT !.pc = p])
      BY <2>1 DEF CallsOK, Call, Matched
    <2> QED
      BY <2>1, <2>2, Going
  <1>2. /\ call[c].pc = "get" /\ session' = call[c].of /\ call[c].of \in stored
        /\ UNCHANGED <<state, stored, subs, live, dropped>>
    BY DEF Found, histories
  <1>3. session = NoSession /\ Opening(call[c]) /\ state = "CONNECTING"
    BY <1>2, Kinds DEF Some, Sound, Owned
  <1>4. \A d \in Calls : ~ Ending(call[d]) /\ (d # c => call[d].pc # "get")
    BY <1>3, Kinds DEF Sound, Apart, Owned
  <1>5. live = {} /\ subs = {}
    BY <1>3, <1>4, NoSessionAssumption DEF TypeOK, Ending
  <1>6. \A d \in Calls : ~ Ending(call'[d]) /\ call'[d].pc # "get"
    BY <1>1, <1>4 DEF Ending
  <1>7. \A d \in Calls : call'[d].pc = "open" => call'[d].of \notin stored'
    BY <1>1, <1>2, <1>3, <1>4 DEF EndingOf
  <1> QED
    BY <1>1, <1>2, <1>3, <1>5, <1>6, <1>7 DEF Some, Ending

LEMMA JoinHeard ==
  ASSUME Around, NEW c \in Calls, Join(c)
  PROVE  Heard'
  <1> USE DEF Around, Before, Heard
  <1>1. /\ call'[c].pc \in {"join", "joined"} /\ call'[c].op = call[c].op
        /\ \A d \in Calls \ {c} : call'[d] = call[d]
    <2> DEFINE p == IF call[c].of \in live THEN "joined" ELSE "join"
    <2>1. p \in Pcs /\ call[c].pc = "dialed" /\ call' = Goes(c, p) /\ p \in {"join", "joined"}
      BY DEF Join, Become, Pcs, Answered
    <2> HIDE DEF p
    <2>2. Matched([call[c] EXCEPT !.pc = p])
      BY <2>1 DEF CallsOK, Call, Matched
    <2> QED
      BY <2>1, <2>2, Going
  <1>2. /\ call[c].pc = "dialed" /\ call[c].of = session /\ subs' = subs \union {session}
        /\ UNCHANGED <<state, session, stored, link, live, dropped>>
    BY DEF Join, histories, Sound, Placed
  <1>3. Opening(call[c]) /\ state = "CONNECTING"
    BY <1>2, Kinds DEF Sound, Owned
  <1>4. \A d \in Calls \ {c} : ~ Opening(call[d])
    BY <1>3 DEF Sound, Owned
  <1>5. \A d \in Calls : ~ Ending(call[d]) /\ ~ Ending(call'[d]) /\ call'[d].pc # "get"
    BY <1>1, <1>3, <1>4, Kinds DEF Sound, Apart, Ending
  <1>6. live = {} /\ subs = {}
    <2>1. ~ Some({"join", "joined"})
      BY <1>2, <1>4, Kinds DEF Some
    <2>2. \A d \in Calls : call[d].pc # "clear"
      BY <1>5 DEF Ending
    <2> QED
      BY <1>3, <2>1, <2>2 DEF Some
  <1>7. \A d \in Calls : call'[d].pc = "open" => call'[d].of \notin stored'
    BY <1>1, <1>2, <1>3, <1>5 DEF EndingOf
  <1>8. Some({"join", "joined"})'
    BY <1>1 DEF Some
  <1> QED
    BY <1>1, <1>2, <1>3, <1>5, <1>6, <1>7, <1>8 DEF Some, Ending

LEMMA ResumedHeard ==
  ASSUME Around, NEW c \in Calls, Resumed(c)
  PROVE  Heard'
  <1> USE DEF Around, Before, Heard
  <1>1. /\ call'[c] = Idle
        /\ \A d \in Calls \ {c} : call'[d] = call[d]
    BY Finishing DEF Resumed, Become
  <1>2. /\ call[c].pc = "joined" /\ state' = "CONNECTED"
        /\ UNCHANGED <<session, stored, link, subs, live, dropped>>
    BY DEF Resumed, histories
  <1>3. Opening(call[c]) /\ state = "CONNECTING"
    BY <1>2, Kinds DEF Sound, Owned
  <1>4. \A d \in Calls : ~ Ending(call[d]) /\ (d # c => ~ Opening(call[d]))
    BY <1>3 DEF Sound, Apart, Owned
  <1>5. \A d \in Calls : ~ Ending(call'[d]) /\ call'[d].pc # "get" /\ call'[d].op # "reconnect"
    BY <1>1, <1>4, IdleCall, Kinds DEF Ending
  <1>6. \A d \in Calls : call'[d].pc = "open" => call'[d].of \notin stored'
    BY <1>1, <1>2, <1>3, <1>4, IdleCall DEF EndingOf
  <1>7. \A s \in subs : s = session
    BY <1>4 DEF Ending
  <1> QED
    BY <1>2, <1>5, <1>6, <1>7 DEF Some, Ending

\* disconnect() begins, in whatever call.
LEMMA EndHeard ==
  ASSUME Around, NEW c \in Calls, NEW o \in {"disconnect", "send", "receive"},
         call[c].pc = "idle", session \in Sessions, End(c, o), UNCHANGED <<stored, dropped>>
  PROVE  Heard'
  <1> USE DEF Around, Before, Heard
  <1>1. /\ call'[c].pc = "clear" /\ call'[c].op = o /\ call'[c].of = session
        /\ \A d \in Calls \ {c} : call'[d] = call[d] \/ Dropped(call[d], call'[d])
    BY EndShape
  <1>2. /\ state' = "DISCONNECTED" /\ session' = NoSession /\ link' = "down"
        /\ subs' \subseteq subs /\ live' = {}
    BY DEF End
  <1>3. \A d \in Calls : ~ Ending(call[d])
    BY NoSessionAssumption DEF Sound, Placed
  <1>4. \A s \in subs : s = session
    BY <1>3 DEF Ending
  <1>5. \A d \in Calls : call'[d].op # "reconnect"
    BY <1>1, IdleCall DEF Dropped
  <1>6. \A d \in Calls : call'[d].pc = "open" => call'[d].of \notin stored' \/ EndingOf(call[d].of)'
    <2> SUFFICES ASSUME NEW d \in Calls, call'[d].pc = "open"
                 PROVE  call'[d].of \notin stored' \/ EndingOf(call[d].of)'
      OBVIOUS
    <2>1. call'[d] = call[d]
      BY <1>1, IdleCall DEF Dropped
    <2>2. call[d].of = session \/ call[d].of \notin stored
      BY <1>3, <2>1 DEF EndingOf
    <2> QED
      BY <1>1, <2>1, <2>2 DEF EndingOf, Ending
  <1> QED
    BY <1>1, <1>2, <1>4, <1>5, <1>6

LEMMA ClearedHeard ==
  ASSUME Around, NEW c \in Calls, Cleared(c)
  PROVE  Heard'
  <1> USE DEF Around, Before, Heard
  <1>1. /\ call'[c].pc = "delete" /\ call'[c].of = call[c].of /\ call'[c].op = call[c].op
        /\ \A d \in Calls \ {c} : call'[d] = call[d] \/ Dropped(call[d], call'[d])
    BY ClearedShape
  <1>2. /\ call[c].pc = "clear" /\ subs' = subs \ {call[c].of} /\ live' = live \ {call[c].of}
        /\ UNCHANGED <<state, session, stored, link, dropped>>
    BY DEF Cleared, histories
  <1>3. session = NoSession /\ link = "down"
    BY <1>2 DEF Some, Sound, Placed, Ending
  <1>4. live = {}
    BY <1>3, NoSessionAssumption DEF TypeOK
  <1>5. \A s \in subs' : \E d \in Calls : call'[d].pc = "clear" /\ call'[d].of = s
    <2> SUFFICES ASSUME NEW s \in subs, s # call[c].of
                 PROVE  \E d \in Calls : call'[d].pc = "clear" /\ call'[d].of = s
      BY <1>2
    <2>1. s # NoSession
      BY NoSessionAssumption DEF TypeOK
    <2>2. PICK d \in Calls : call[d].pc = "clear" /\ call[d].of = s
      BY <1>3, <2>1
    <2>3. call'[d] = call[d]
      BY <1>1, <2>2 DEF Dropped
    <2> QED
      BY <2>2, <2>3
  <1>6. \A d \in Calls : /\ call'[d].op # "reconnect"
                         /\ call'[d].pc = "open" => call'[d] = call[d]
                         /\ Ending(call[d]) => Ending(call'[d]) /\ call'[d].of = call[d].of
    BY <1>1, IdleCall DEF Dropped, Ending
  <1>7. \A s : EndingOf(s) => EndingOf(s)'
    BY <1>6 DEF EndingOf, Ending
  <1> QED
    BY <1>2, <1>3, <1>4, <1>5, <1>6, <1>7

LEMMA DeletedHeard ==
  ASSUME Around, NEW c \in Calls, Deleted(c)
  PROVE  Heard'
  <1> USE DEF Around, Before, Heard
  <1>1. /\ call'[c] = Idle
        /\ \A d \in Calls \ {c} : call'[d] = call[d]
    BY Finishing DEF Deleted, Become
  <1>2. /\ call[c].pc = "delete" /\ stored' = stored \ {call[c].of}
        /\ UNCHANGED <<state, session, link, subs, live, dropped>>
    BY DEF Deleted
  <1>3. session = NoSession /\ link = "down"
    BY <1>2 DEF Some, Sound, Placed, Ending
  <1>4. live = {}
    BY <1>3, NoSessionAssumption DEF TypeOK
  <1>5. \A s \in subs' : \E d \in Calls : call'[d].pc = "clear" /\ call'[d].of = s
    <2> SUFFICES ASSUME NEW s \in subs
                 PROVE  \E d \in Calls : call'[d].pc = "clear" /\ call'[d].of = s
      BY <1>2
    <2>1. s # NoSession
      BY NoSessionAssumption DEF TypeOK
    <2>2. PICK d \in Calls : call[d].pc = "clear" /\ call[d].of = s
      BY <1>3, <2>1
    <2> QED
      BY <1>1, <1>2, <2>2
  <1>6. \A d \in Calls : call'[d].op # "reconnect"
    BY <1>1, IdleCall
  <1>7. \A d \in Calls : call'[d].pc = "open" => call'[d].of \notin stored' \/ EndingOf(call[d].of)'
    <2> SUFFICES ASSUME NEW d \in Calls, call'[d].pc = "open", call'[d].of \in stored'
                 PROVE  EndingOf(call[d].of)'
      OBVIOUS
    <2>1. call'[d] = call[d] /\ call[d].of \in stored /\ call[d].of # call[c].of
      BY <1>1, <1>2, IdleCall
    <2>2. call[d].of # session
      BY <1>3, <2>1, NoSessionAssumption DEF TypeOK
    <2>3. PICK e \in Calls : Ending(call[e]) /\ call[e].of = call[d].of
      BY <2>1, <2>2 DEF EndingOf
    <2>4. call'[e] = call[e]
      BY <1>1, <2>1, <2>3
    <2> QED
      BY <2>1, <2>3, <2>4 DEF EndingOf, Ending
  <1> QED
    BY <1>2, <1>3, <1>4, <1>5, <1>6, <1>7

\* A message is being decrypted, or is handled.
LEMMA MessageHeard ==
  ASSUME Around, NEW c \in Calls, \A d \in Calls \ {c} : call'[d] = call[d],
         UNCHANGED <<state, session, stored, link, subs, live, dropped>>,
         \/ call'[c] = Idle /\ call[c].pc = "open"
         \/ /\ call[c].pc = "idle" /\ call'[c].pc = "open" /\ call'[c].op = "receive"
            /\ call'[c].of = session /\ state = "CONNECTED"
  PROVE  Heard'
  <1> USE DEF Around, Before, Heard
  <1>1. \A P \in SUBSET (Pcs \ {"idle", "open"}) : Some(P)' <=> Some(P)
    BY IdleCall DEF Some
  <1>2. \A s : /\ EndingOf(s)' <=> EndingOf(s)
               /\ (\E d \in Calls : call'[d].pc = "clear" /\ call'[d].of = s)
                    <=> \E d \in Calls : call[d].pc = "clear" /\ call[d].of = s
    BY IdleCall DEF EndingOf, Ending
  <1>3. \A d \in Calls : call'[d].op # "reconnect"
    BY IdleCall
  <1>4. /\ Some({"get"})' <=> Some({"get"})
        /\ Some({"join", "joined"})' <=> Some({"join", "joined"})
        /\ Some({"joined"})' <=> Some({"joined"})
        /\ Some({"clear", "delete"})' <=> Some({"clear", "delete"})
    BY <1>1 DEF Pcs, Answered
  <1>5. \A d \in Calls : call'[d].pc = "open" =>
          \/ call'[d].of = session' /\ state' = "CONNECTED"
          \/ call'[d].of \notin stored'
          \/ EndingOf(call[d].of)'
    BY <1>2, IdleCall
  <1> QED
    BY <1>2, <1>3, <1>4, <1>5

\* Calls that wait have their answer.
LEMMA WakeHeard ==
  ASSUME Around, UNCHANGED <<state, session, stored, subs, dropped>>,
         live' = {} \/ live' = live \/ \E s \in subs : live' = live \union {s} /\ link = "up"
           /\ \A c \in Calls : call[c].pc = "join" /\ call[c].of = s => call'[c].pc = "joined",
         link' = link \/ link # "down" \/ link' = "down",
         \A c \in Calls : \/ Woken(call[c], call'[c], "dial", "dialed")
                          \/ Woken(call[c], call'[c], "join", "joined")
                          \/ Woken(call[c], call'[c], "redial", "redialed")
                          \/ Woken(call[c], call'[c], "rejoin", "redialed")
                          \/ Woken(call[c], call'[c], "redial", "redialFailed")
                          \/ call'[c] = call[c]
  PROVE  Heard'
  <1> USE DEF Around, Before, Heard
  <1>1. \A c \in Calls :
          /\ call'[c].op = call[c].op /\ call'[c].of = call[c].of
          /\ call'[c].pc \in {"get", "open", "clear", "delete"} \/
             call[c].pc \in {"get", "open", "clear", "delete"} => call'[c] = call[c]
          /\ call[c].pc = "joined" => call'[c].pc = "joined"
          /\ call[c].pc = "join" => call'[c].pc \in {"join", "joined"}
    BY DEF Woken
  <1>2. /\ Some({"get"})' => Some({"get"})
        /\ Some({"join", "joined"}) => Some({"join", "joined"})'
        /\ Some({"joined"}) => Some({"joined"})'
        /\ Some({"clear", "delete"})' => Some({"clear", "delete"})
    BY <1>1 DEF Some
  <1>3. \A s : /\ EndingOf(s) => EndingOf(s)'
               /\ (\E d \in Calls : call[d].pc = "clear" /\ call[d].of = s)
                    => \E d \in Calls : call'[d].pc = "clear" /\ call'[d].of = s
    BY <1>1 DEF EndingOf, Ending
  <1>4. Some({"clear", "delete"})' => link' = "down"
    BY <1>2
  <1>5. \A s \in live' : s = session' /\ (state' = "CONNECTED" \/ Some({"joined"})')
    <2>1. CASE live' \subseteq live
      BY <1>2, <2>1
    <2>2. ASSUME NEW s \in subs, live' = live \union {s}, link = "up",
                 \A c \in Calls : call[c].pc = "join" /\ call[c].of = s => call'[c].pc = "joined"
          PROVE  s = session' /\ (state' = "CONNECTED" \/ Some({"joined"})')
      <3>1. \A d \in Calls : call[d].pc # "clear"
        BY <2>2 DEF Some
      <3>2. s = session /\ (state = "CONNECTED" \/ Some({"join", "joined"}))
        BY <3>1
      <3>3. \A d \in Calls : call[d].pc = "join" => call[d].of = s
        BY <3>2 DEF Sound, Placed
      <3>4. Some({"join", "joined"}) => Some({"joined"})'
        BY <1>1, <2>2, <3>3 DEF Some
      <3> QED
        BY <3>2, <3>4
    <2>3. \A s \in live : s = session' /\ (state' = "CONNECTED" \/ Some({"joined"})')
      BY <1>2
    <2> QED
      BY <2>1, <2>2, <2>3
  <1>6. \A d \in Calls : call'[d].pc = "open" =>
          \/ call'[d].of = session' /\ state' = "CONNECTED"
          \/ call'[d].of \notin stored'
          \/ EndingOf(call[d].of)'
    BY <1>1, <1>3
  <1> QED
    BY <1>1, <1>2, <1>3, <1>4, <1>5, <1>6

LEMMA HeardStep ==
  ASSUME Around, [Next]_vars, ~ failed', ~ redialed'
  PROVE  Heard'
  <1>1. ASSUME NEW c \in Calls, NEW s \in Sessions, Resume(c, s) PROVE Heard'
    BY <1>1, ResumeHeard
  <1>2. ASSUME NEW c \in Calls, NEW s \in Sessions, Receive(c, s) PROVE Heard'
    <2>1. /\ session \in Sessions /\ call[c].pc = "idle" /\ UNCHANGED <<stored, dropped>>
          /\ CallsOK
      BY <1>2 DEF Receive, Around, Before, TypeOK, histories
    <2>2. CASE End(c, "receive")
      BY <2>1, <2>2, EndHeard
    <2>3. CASE /\ Become([call EXCEPT ![c] = [op |-> "receive", pc |-> "open", of |-> s]])
               /\ UNCHANGED <<state, session, link, subs, live>>
      <3>1. /\ call'[c].pc = "open" /\ call'[c].op = "receive" /\ call'[c].of = s
            /\ \A d \in Calls \ {c} : call'[d] = call[d]
        <4>1. call' = [call EXCEPT ![c] = [op |-> "receive", pc |-> "open", of |-> s]]
          BY <2>3 DEF Become
        <4>2. Matched([op |-> "receive", pc |-> "open", of |-> s])
          BY <1>2 DEF Matched
        <4> QED
          BY ZenonT(40), <1>2, <2>1, <4>1, <4>2, Beginning DEF Ops, Pcs
      <3>2. ~ Some({"joined"})
        BY <1>2 DEF Receive, Quiet, Some, Answered
      <3>3. s = session /\ state = "CONNECTED"
        BY <1>2, <3>2 DEF Receive, Around, Heard
      <3> QED
        BY <2>1, <2>3, <3>1, <3>3, MessageHeard
    <2> QED
      BY <1>2, <2>2, <2>3 DEF Receive
  <1>3. ASSUME NEW c \in Calls, Disconnect(c) \/ Send(c) PROVE Heard'
    <2>1. session \in Sessions /\ call[c].pc = "idle" /\ UNCHANGED <<stored, dropped>>
      BY <1>3 DEF Disconnect, Send, Around, Before, TypeOK, histories
    <2>2. End(c, "disconnect") \/ End(c, "send")
      BY <1>3 DEF Disconnect, Send
    <2> QED
      BY <2>1, <2>2, EndHeard
  <1>4. ASSUME NEW c \in Calls, Handle(c) PROVE Heard'
    <2>1. /\ CallsOK /\ call[c].pc = "open" /\ UNCHANGED <<state, session, stored, link, subs, live>>
          /\ dropped' = (dropped \/ (state # "CONNECTED" /\ session = call[c].of))
      BY <1>4 DEF Handle, Around, Before
    <2>2. call'[c] = Idle /\ \A d \in Calls \ {c} : call'[d] = call[d]
      BY <1>4, <2>1, Finishing DEF Handle, Become
    <2>3. ASSUME state # "CONNECTED", session = call[c].of PROVE FALSE
      <3>1. session # NoSession /\ session \in stored
        BY <2>1, <2>3, Kinds, NoSessionAssumption DEF Around, Heard
      <3>2. EndingOf(session)
        BY <2>1, <2>3, <3>1 DEF Around, Heard
      <3> QED
        BY <3>1, <3>2 DEF EndingOf, Around, Before, Sound, Placed
    <2>4. dropped' = dropped
      BY <2>1, <2>3 DEF Around, Before, TypeOK
    <2> QED
      BY <2>1, <2>2, <2>4, MessageHeard
  <1>5. ASSUME NEW c \in Calls, Reconnected(c) \/ ReconnectFails(c) PROVE FALSE
    <2>1. call[c].pc \in {"redialed", "redialFailed"}
      BY <1>5 DEF Reconnected, ReconnectFails
    <2> QED
      BY <2>1, Kinds DEF Around, Before, Heard
  <1>6. ASSUME NEW c \in Calls, Reconnect(c) \/ EndFails(c) PROVE FALSE
    BY <1>6 DEF Reconnect, EndFails
  <1>7. CASE Connected \/ DialFails
    <2>1. UNCHANGED <<state, session, stored, subs, live, dropped>> /\ link # "down"
      BY <1>7 DEF Connected, DialFails, histories
    <2> QED
      BY <1>7, <2>1, ConnectedWakes, DialFailsWakes, WakeHeard DEF Around, Before
  <1>8. CASE Lose
    <2>1. /\ UNCHANGED <<state, session, stored, subs, dropped, call>> /\ live' = {}
          /\ link # "down" \/ link' = "down"
      BY <1>8 DEF Lose, histories
    <2> QED
      BY <2>1, WakeHeard
  <1>9. ASSUME NEW s \in Sessions, Subscribed(s) PROVE Heard'
    <2>1. /\ UNCHANGED <<state, session, stored, subs, link, dropped>> /\ link = "up"
          /\ s \in subs /\ live' = live \union {s}
      BY <1>9 DEF Subscribed, histories
    <2>2. \A c \in Calls : call[c].pc = "join" /\ call[c].of = s => call'[c].pc = "joined"
      BY <1>9 DEF Subscribed, Become, Around, Before, CallsOK, Call
    <2> QED
      BY <1>9, <2>1, <2>2, SubscribedWakes, WakeHeard DEF Around, Before
  <1>10. CASE UNCHANGED vars \/ \E s \in Sessions : Expire(s)
    <2>1. UNCHANGED <<state, session, stored, subs, link, live, dropped, call>>
      BY <1>10 DEF vars, Expire, histories
    <2> QED
      BY <2>1, WakeHeard
  <1> QED
    BY <1>1, <1>2, <1>3, <1>4, <1>5, <1>6, <1>7, <1>8, <1>9, <1>10, FoundHeard, NotFoundHeard,
       JoinHeard, ResumedHeard, ClearedHeard, DeletedHeard DEF Next, Continue

\* That reconnect() was called, and that a disconnect() rejected, is for good.
LEMMA NotCalmStays ==
  ASSUME [Next]_vars, failed \/ redialed
  PROVE  failed' \/ redialed'
  <1>1. ASSUME NEW c \in Calls, Continue(c) PROVE failed' \/ redialed'
    BY <1>1 DEF Continue, Found, NotFound, Join, Resumed, Reconnected, ReconnectFails, Cleared,
                Deleted, EndFails, Handle, histories
  <1>2. ASSUME NEW c \in Calls, Reconnect(c) \/ Disconnect(c) \/ Send(c) PROVE failed' \/ redialed'
    BY <1>2 DEF Reconnect, Disconnect, Send, histories
  <1>3. ASSUME NEW c \in Calls, NEW s \in Sessions, Resume(c, s) \/ Receive(c, s)
        PROVE  failed' \/ redialed'
    BY <1>3 DEF Resume, Receive, histories
  <1>4. CASE Connected \/ DialFails \/ Lose
    BY <1>4 DEF Connected, DialFails, Lose, histories
  <1>5. ASSUME NEW s \in Sessions, Subscribed(s) \/ Expire(s) PROVE failed' \/ redialed'
    BY <1>5 DEF Subscribed, Expire, histories
  <1>6. CASE UNCHANGED vars
    BY <1>6 DEF vars
  <1> QED
    BY <1>1, <1>2, <1>3, <1>4, <1>5, <1>6 DEF Next

LEMMA HeardStart == Init => Heard
  BY IdleCall DEF Init, Heard, Some

LEMMA CalmStep == IInv /\ IInv' /\ (Calm => Heard) /\ [Next]_vars => (Calm' => Heard')
  <1> SUFFICES ASSUME IInv, IInv', Calm => Heard, [Next]_vars, Calm' PROVE Heard'
    OBVIOUS
  <1>1. ~ crossed' /\ ~ failed' /\ ~ redialed'
    BY DEF Calm
  <1>2. Calm
    BY <1>1, CrossedStays, NotCalmStays DEF Calm, IInv, TInv
  <1>3. Around
    BY <1>1, <1>2 DEF Around, Before, IInv, TInv, Calm
  <1> QED
    BY <1>1, <1>3, HeardStep

\* A dApp drops no message of its session unless reconnect() was called, or a
\* disconnect() rejected or overlapped (handleMessage, handleEncryptedMessage).
THEOREM MessagesAreHandled == Spec => []HandledOrRedialed
  <1>1. Spec => [](IInv /\ (Calm => Heard))
    BY Start, Step, HeardStart, CalmStep, PTL DEF Spec
  <1>2. (Calm => Heard) => HandledOrRedialed
    BY DEF Calm, Heard, HandledOrRedialed
  <1> QED
    BY <1>1, <1>2, PTL
=============================================================================
