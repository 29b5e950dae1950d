-------------------------- MODULE AttemptsProofs --------------------------
(***************************************************************************)
(* Proofs about Attempts, for any number of attempts.                      *)
(***************************************************************************)
EXTENDS Attempts, TLAPS

Active == {"taken", "otp", "joining", "ack", "store", "clear"}

\* What every attempt keeps, whatever overlaps.
Sound ==
  /\ link # "down" => state # "DISCONNECTED"
  /\ \A a \in Ids : pc[a] \in Active => offer[a] # 0
  /\ \A a \in Ids : pc[a] = "ack" =>
        link # "down" /\ (session = None \/ session.peer # 0)
  /\ FinalRecords

Half == [of |-> count, peer |-> 0]
Full == [of |-> count, peer |-> count]

\* The attempt that was begun last, a: where its handler is says what the client has.
Latest(a) ==
  /\ offer[a] \in {0, a}
  /\ pc[a] \in Active => offer[a] = a
  /\ pc[a] \in {"dial", "subscribe", "offer", "taken", "otp"} => session = Half
  /\ pc[a] \in {"joining", "ack", "store", "clear"} => session = Full
  /\ pc[a] \in {"joining", "ack", "clear"} \/ (pc[a] = "store" /\ ~ Trusted) => Chan(a) \in subs
  /\ pc[a] \in {"store", "clear"} \/ (pc[a] = "joining" /\ Trusted) => session \in stored
  /\ pc[a] \notin {"done", "failed"} => state = "CONNECTING" /\ closing[a] = 0
  /\ pc[a] = "failed" => session = None /\ state = "DISCONNECTED"
  /\ pc[a] = "done" =>
        \/ session = None /\ state = "DISCONNECTED"
        \/ state = "CONNECTED" /\ closing[a] = 0 /\ session = Full /\ session \in stored /\ Chan(a) \in subs
  /\ pc[a] = "otp" => ~ Trusted
  /\ pc[a] \notin {"idle", "stuck"}

\* While attempts do not overlap, only the last has anything left to do.
InTurn ==
  /\ count = 0 => session = None /\ state = "DISCONNECTED"
  /\ \A a \in Ids : a # count => Over(a)
  /\ inbox \subseteq {count}
  /\ \A r \in stored : r.of = count /\ (r = session \/ closing[r.of] > 0)
  /\ \A a \in Ids : a > count => offer[a] = 0
  /\ \A a \in Ids : a = count => Latest(a)

IInv == TypeOK /\ Sound /\ (Calm => InTurn)

LEMMA NoneIsNot ==
  /\ None.of = 0 /\ None.peer = 0
  /\ \A s \in Session : s # None /\ s.of \in Ids /\ s.peer \in Ids \union {0}
  BY BoundAssumption DEF None, Session, Ids

LEMMA InitInv == Init => IInv
<1> SUFFICES ASSUME Init PROVE IInv
  OBVIOUS
<1>1. TypeOK
  <2>1. /\ pc \in [Ids -> Pcs] /\ offer \in [Ids -> 0 .. MaxAttempts] /\ closing \in [Ids -> Nat]
        /\ count \in 0 .. MaxAttempts /\ late \in 0 .. count
    BY BoundAssumption DEF Init, Pcs
  <2> QED BY <2>1 DEF Init, TypeOK
<1>2. Sound
  BY DEF Init, Sound, FinalRecords, Active
<1>3. InTurn
  BY NoneIsNot DEF Init, InTurn, Over, Ids
<1> QED BY <1>1, <1>2, <1>3 DEF IInv

\* In turn, the session the client has is that of the last attempt.
LEMMA SessionIsLast ==
  ASSUME TypeOK, InTurn, session # None
  PROVE  count \in Ids /\ session \in {Half, Full} /\ session.of = count
<1>1. count \in Ids /\ Latest(count)
  BY DEF InTurn, TypeOK, Ids
<1>2. session \in {Half, Full}
  BY <1>1 DEF Latest, TypeOK, Pcs
<1> QED BY <1>1, <1>2 DEF Half, Full

-----------------------------------------------------------------------------
(* disconnect() *)

LEMMA CutOffIs ==
  ASSUME NEW f \in [Ids -> Pcs]
  PROVE  /\ CutOff(f) \in [Ids -> Pcs]
         /\ \A a \in Ids : /\ CutOff(f)[a] # "ack"
                           /\ CutOff(f)[a] \in Active => CutOff(f)[a] = f[a]
                           /\ f[a] \in {"idle", "done", "failed"} => CutOff(f)[a] = f[a]
  BY DEF CutOff, Pcs, Active

LEMMA DisconnectedIs ==
  ASSUME TypeOK, Sound, NEW f \in [Ids -> Pcs], Disconnected(f),
         \A a \in Ids : f[a] = pc[a] \/ f[a] = "failed"
  PROVE  /\ pc' \in [Ids -> Pcs]
         /\ \A a \in Ids : /\ pc'[a] \in Active => pc'[a] = pc[a]
                           /\ f[a] \in {"idle", "done", "failed"} => pc'[a] = f[a]
                           /\ pc'[a] = "ack" => link' # "down" /\ (session' = None \/ session'.peer # 0)
         /\ state' \in {"DISCONNECTED", "CONNECTING", "CONNECTED"}
         /\ session' = None
         /\ session # None => state' = "DISCONNECTED"
         /\ link' # "down" => state' # "DISCONNECTED"
         /\ link' \in {"down", "dialing", "up"}
         /\ subs' \subseteq {"handshake", "session"} \X Ids
         /\ closing' \in [Ids -> Nat]
         /\ session = None => UNCHANGED <<closing, state>>
         /\ session # None => closing' = [closing EXCEPT ![session.of] = @ + 1]
<1>1. CASE session = None
  BY <1>1 DEF Disconnected, client, TypeOK, Sound, Pcs, Active
<1>2. CASE session # None
  <2>1. session \in Session /\ session.of \in Ids
    BY <1>2, NoneIsNot DEF TypeOK
  <2>2. closing' \in [Ids -> Nat] /\ session' = None /\ state' = "DISCONNECTED" /\ link' = "down"
    BY <1>2, <2>1 DEF Disconnected, TypeOK
  <2>3. CASE link = "down"
    BY <1>2, <2>2, <2>3 DEF Disconnected, TypeOK, Sound, Active
  <2>4. CASE link # "down"
    <3>1. pc' = CutOff(f) /\ subs' = {}
      BY <1>2, <2>4 DEF Disconnected
    <3>2. \A a \in Ids : f[a] \in Active => f[a] = pc[a]
      BY DEF Active
    <3> QED BY <1>2, <2>2, <3>1, <3>2, CutOffIs DEF Disconnected
  <2> QED BY <2>3, <2>4
<1> QED BY <1>1, <1>2

\* The catch of connect(), for a handler that has not ended.
LEMMA FailStep ==
  ASSUME IInv, NEW a \in Ids, Fail(a), UNCHANGED <<stored, inbox, arrived>>,
         pc[a] \notin {"idle", "done", "failed", "stuck"}
  PROVE  IInv'
<1> DEFINE f == [pc EXCEPT ![a] = "failed"]
<1>1. f \in [Ids -> Pcs] /\ f[a] = "failed" /\ \A b \in Ids : f[b] = pc[b] \/ f[b] = "failed"
  BY DEF IInv, TypeOK, Pcs
<1>2. Disconnected(f)
  BY DEF Fail
<1> HIDE DEF f
<1>3. /\ pc' \in [Ids -> Pcs]
      /\ \A b \in Ids : /\ pc'[b] \in Active => pc'[b] = pc[b]
                        /\ f[b] \in {"idle", "done", "failed"} => pc'[b] = f[b]
                        /\ pc'[b] = "ack" => link' # "down" /\ (session' = None \/ session'.peer # 0)
      /\ state' \in {"DISCONNECTED", "CONNECTING", "CONNECTED"}
      /\ session' = None
      /\ session # None => state' = "DISCONNECTED"
      /\ link' # "down" => state' # "DISCONNECTED"
      /\ link' \in {"down", "dialing", "up"}
      /\ subs' \subseteq {"handshake", "session"} \X Ids
      /\ closing' \in [Ids -> Nat]
      /\ session # None => closing' = [closing EXCEPT ![session.of] = @ + 1]
  BY <1>1, <1>2, DisconnectedIs DEF IInv
<1>4. TypeOK'
  BY <1>3 DEF IInv, TypeOK, Fail, world, mail
<1>5. Sound'
  BY <1>3 DEF IInv, Sound, FinalRecords, Fail
<1>6. ASSUME Calm' PROVE InTurn'
  <2>1. Calm /\ InTurn
    BY <1>6 DEF IInv, Calm, Fail
  <2>2. a = count
    BY <2>1 DEF InTurn, Over
  <2>3. Latest(a)
    BY <2>1, <2>2 DEF InTurn
  <2>4. session # None /\ session.of = a
    <3>1. session \in {Half, Full}
      BY <2>3 DEF Latest, IInv, TypeOK, Pcs
    <3> QED BY <2>2, <3>1, NoneIsNot, BoundAssumption DEF Half, Full, Ids
  <2>5. pc'[a] = "failed" /\ state' = "DISCONNECTED"
    BY <1>1, <1>3, <2>4
  <2>6. closing'[a] > 0 /\ \A b \in Ids \ {a} : closing'[b] = closing[b]
    BY <2>4 , <1>3 DEF IInv, TypeOK
  <2>7. \A b \in Ids \ {a} : pc'[b] = pc[b] /\ f[b] = pc[b]
    BY <1>3, <2>1, <2>2 DEF InTurn, Over, f, IInv, TypeOK
  <2>8. Latest(a)'
    BY <1>3, <2>3, <2>5, Zenon DEF Latest, Fail, Active
  <2>9. \A r \in stored' : r.of = count' /\ closing'[r.of] > 0
    BY <2>1, <2>2, <2>6 DEF InTurn, Fail
  <2> QED BY <2>1, <2>2, <2>5, <2>6, <2>7, <2>8, <2>9, <1>3 DEF InTurn, Over, Fail
<1> QED BY <1>4, <1>5, <1>6 DEF IInv

LEMMA DisconnectStep == IInv /\ Disconnect => IInv'
<1> SUFFICES ASSUME IInv, Disconnect PROVE IInv'
  OBVIOUS
<1>1. pc \in [Ids -> Pcs] /\ Disconnected(pc) /\ session # None
  BY DEF IInv, TypeOK, Disconnect
<1>2. /\ pc' \in [Ids -> Pcs]
      /\ \A b \in Ids : /\ pc'[b] \in Active => pc'[b] = pc[b]
                        /\ pc[b] \in {"idle", "done", "failed"} => pc'[b] = pc[b]
                        /\ pc'[b] = "ack" => link' # "down" /\ (session' = None \/ session'.peer # 0)
      /\ state' = "DISCONNECTED" /\ session' = None
      /\ link' # "down" => state' # "DISCONNECTED"
      /\ link' \in {"down", "dialing", "up"}
      /\ subs' \subseteq {"handshake", "session"} \X Ids
      /\ closing' \in [Ids -> Nat]
      /\ closing' = [closing EXCEPT ![session.of] = @ + 1]
  BY <1>1, DisconnectedIs DEF IInv
<1>3. TypeOK'
  BY <1>2 DEF IInv, TypeOK, Disconnect, world, mail
<1>4. Sound'
  BY <1>2 DEF IInv, Sound, FinalRecords, Disconnect
<1>5. ASSUME Calm' PROVE InTurn'
  <2>1. Calm /\ InTurn /\ \A a \in Ids : pc[a] \in {"idle", "done", "failed"} /\ pc'[a] = pc[a]
    BY <1>2, <1>5 DEF IInv, Calm, Disconnect
  <2>2. session \in Session /\ session.of \in Ids
    BY <1>1, NoneIsNot DEF IInv, TypeOK
  <2>3. count \in Ids /\ Latest(count)
    BY <1>1, <2>1 DEF InTurn, IInv, TypeOK, Ids
  <2>4. pc[count] = "done" /\ session = Full
    BY <1>1, <2>1, <2>3 DEF Latest
  <2>5. closing'[count] > 0 /\ \A b \in Ids \ {count} : closing'[b] = closing[b]
    BY <1>2, <2>2, <2>3, <2>4 DEF IInv, TypeOK, Full
  <2>6. Latest(count)'
    BY <1>2, <2>1, <2>3, <2>4, Zenon DEF Latest, Disconnect, Active
  <2>7. count' = count
    BY DEF Disconnect
  <2>8. \A r \in stored' : r.of = count' /\ closing'[r.of] > 0
    BY <2>1, <2>5, <2>7 DEF InTurn, Disconnect
  <2> QED BY <1>2, <2>1, <2>3, <2>5, <2>6, <2>7, <2>8 DEF InTurn, Over, Disconnect, mail
<1> QED BY <1>3, <1>4, <1>5 DEF IInv

LEMMA ForgetStep ==
  ASSUME IInv, NEW a \in Ids, Forget(a)
  PROVE  IInv'
<1>1. TypeOK'
  BY DEF IInv, TypeOK, Forget, client, world, mail, history
<1>2. Sound'
  BY DEF IInv, Sound, FinalRecords, Forget
<1>3. ASSUME Calm' PROVE InTurn'
  <2>1. Calm /\ InTurn
    BY <1>3 DEF IInv, Calm, Forget, history
  <2>2. a = count /\ Latest(a)
    BY <2>1 DEF InTurn, Over, Forget
  <2>3. session = None /\ state = "DISCONNECTED" /\ pc[a] \in {"done", "failed"}
    BY <2>2 DEF Latest, Forget
  <2>4. \A b \in Ids \ {a} : closing'[b] = closing[b]
    BY DEF IInv, TypeOK, Forget
  <2>5. stored' = {}
    BY <2>1, <2>2 DEF Forget, InTurn
  <2>6. Latest(a)'
    BY <2>2, <2>3, Zenon DEF Latest, Forget, Active
  <2> QED BY <2>1, <2>2, <2>3, <2>4, <2>5, <2>6 DEF InTurn, Over, Forget, mail
<1> QED BY <1>1, <1>2, <1>3 DEF IInv

-----------------------------------------------------------------------------
(* connect(), the transport, wallets, time *)

LEMMA ConnectStep == IInv /\ Connect => IInv'
<1> SUFFICES ASSUME IInv, Connect PROVE IInv'
  OBVIOUS
<1>0. PICK a \in Ids : a = count + 1
  BY BoundAssumption DEF IInv, TypeOK, Connect, Ids
<1>1. a = count + 1 /\ count' = a /\ a # count /\ count \in Nat
  BY <1>0 DEF IInv, TypeOK, Connect
<1>2. session' = [of |-> a, peer |-> 0] /\ session' \in Session
  BY <1>1 DEF Connect, Session
<1>3. pc' \in [Ids -> Pcs] /\ pc'[a] \in {"dial", "subscribe"} /\ \A b \in Ids \ {a} : pc'[b] = pc[b]
  BY <1>1 DEF IInv, TypeOK, Connect, Pcs
<1>4. TypeOK'
  <2>1. subs' \subseteq {"handshake", "session"} \X Ids
    BY <1>1 DEF IInv, TypeOK, Connect, Hand
  <2>2. count' \in 0 .. MaxAttempts /\ late \in 0 .. count' /\ offered \subseteq 1 .. count'
    BY <1>1, BoundAssumption DEF IInv, TypeOK, Connect
  <2> QED BY <1>1, <1>2, <1>3, <2>1, <2>2 DEF IInv, TypeOK, Connect, world, mail
<1>5. link = "down"
  BY DEF IInv, Sound, Connect
<1>6. Sound'
  BY <1>3, <1>5 DEF IInv, Sound, FinalRecords, Connect, Active
<1>7. ASSUME Calm' PROVE InTurn'
  <2>1. Calm /\ InTurn /\ inbox = {} /\ \A b \in Ids : Over(b)
    BY <1>7 DEF IInv, Calm, Connect
  <2>2. session = None
    <3>1. CASE count = 0
      BY <2>1, <3>1 DEF InTurn
    <3>2. CASE count # 0
      <4>1. count \in Ids /\ Latest(count)
        BY <2>1, <3>2 DEF InTurn, IInv, TypeOK, Ids
      <4>2. pc[count] \in {"done", "failed"} /\ state = "DISCONNECTED"
        BY <2>1, <4>1 DEF Over, Latest, Connect
      <4> QED BY <4>1, <4>2 DEF Latest
    <3> QED BY <3>1, <3>2
  <2>3. stored = {}
    BY <2>1, <2>2, NoneIsNot DEF InTurn, Over, IInv, TypeOK
  <2>4. offer[a] = 0 /\ closing[a] = 0
    BY <1>1, <2>1 DEF InTurn, Over
  <2>5. Latest(a)'
    <3>1. session' = Half' /\ state' = "CONNECTING" /\ offer'[a] = 0 /\ closing'[a] = 0
      BY <1>1, <1>2, <2>4 DEF Connect, Half
    <3> QED BY <1>3, <3>1 DEF Latest, Active
  <2>6. \A b \in Ids : b # count' => Over(b)'
    BY <1>3, <2>1 DEF Over, Connect
  <2>7. \A b \in Ids : b > count' => offer'[b] = 0
    BY <1>1, <2>1 DEF InTurn, Connect, Ids
  <2> QED BY <1>1, <2>1, <2>3, <2>5, <2>6, <2>7 DEF InTurn, Connect, mail
<1> QED BY <1>4, <1>6, <1>7 DEF IInv

LEMMA ConnectedStep == IInv /\ Connected => IInv'
<1> SUFFICES ASSUME IInv, Connected PROVE IInv'
  OBVIOUS
<1>1. /\ pc' \in [Ids -> Pcs]
      /\ \A b \in Ids : pc'[b] = IF pc[b] = "dial" THEN "subscribe" ELSE pc[b]
  BY DEF IInv, TypeOK, Connected, Pcs
<1>2. TypeOK'
  BY <1>1 DEF IInv, TypeOK, Connected, Hand, world, mail, history
<1>3. Sound'
  BY <1>1 DEF IInv, Sound, FinalRecords, Connected, Active
<1>4. ASSUME Calm' PROVE InTurn'
  <2>1. Calm /\ InTurn
    BY <1>4 DEF IInv, Calm, Connected, history
  <2>2. \A b \in Ids : b = count => Latest(b)'
    <3> SUFFICES ASSUME count \in Ids PROVE Latest(count)'
      BY DEF Connected
    <3>1. Latest(count)
      BY <2>1 DEF InTurn
    <3>2. Chan(count) \in subs => Chan(count) \in subs'
      BY DEF Connected
    <3> QED BY <1>1, <3>1, <3>2 DEF Latest, Connected, Active, Half, Full, Trusted
  <2> QED BY <1>1, <2>1, <2>2 DEF InTurn, Over, Connected, mail
<1> QED BY <1>2, <1>3, <1>4 DEF IInv

LEMMA WorldSteps ==
  ASSUME IInv, Lose \/ Expire \/ (\E a \in Ids : Answer(a) \/ Deliver(a))
  PROVE  IInv'
<1>1. /\ UNCHANGED <<count, state, session, stored, subs, pc, offer, closing, mode, overlap, cut, stray>>
      /\ link' = link \/ (link' = "dialing" /\ link = "up")
  BY DEF Lose, Expire, Answer, Deliver, client, world, history, mail
<1>2. TypeOK'
  <2>1. late' \in 0 .. count /\ offered' \subseteq 1 .. count /\ inbox' \subseteq arrived' /\ arrived' \subseteq offered'
    <3>1. late \in 0 .. count /\ offered \subseteq 1 .. count /\ count \in Nat
      BY DEF IInv, TypeOK
    <3>2. late' \in 0 .. count
      BY <3>1 DEF Lose, Expire, Answer, Deliver, world
    <3>3. offered' \subseteq 1 .. count
      <4>1. ASSUME NEW a \in Ids, Answer(a) PROVE offered' \subseteq 1 .. count
        <5>1. a \in 1 .. count /\ offered' = offered \union {a}
          BY <4>1, <3>1, BoundAssumption DEF Answer, Ids
        <5> QED BY <3>1, <5>1
      <4>2. CASE UNCHANGED offered
        BY <3>1, <4>2
      <4> QED BY <4>1, <4>2 DEF Lose, Expire, Deliver, world
    <3>4. inbox' \subseteq arrived' /\ arrived' \subseteq offered'
      BY DEF Lose, Expire, Answer, Deliver, world, mail, IInv, TypeOK
    <3> QED BY <3>2, <3>3, <3>4
  <2> QED BY <1>1, <2>1 DEF IInv, TypeOK
<1>3. Sound'
  BY <1>1 DEF IInv, Sound, FinalRecords
<1>4. ASSUME Calm' PROVE InTurn'
  <2>1. Calm /\ InTurn
    BY <1>1, <1>4 DEF IInv, Calm
  <2>2. \A b \in Ids : b = count => Latest(b)'
    BY <1>1, <2>1 DEF InTurn, Latest, Active, Half, Full, Trusted
  <2>3. inbox' \subseteq {count}
    <3>1. CASE UNCHANGED inbox
      BY <2>1, <3>1 DEF InTurn
    <3>2. ASSUME NEW a \in Ids, Deliver(a) PROVE inbox' \subseteq {count}
      <4>1. session.of = a => a = count
        <5>1. CASE session = None
          BY <5>1, NoneIsNot DEF Ids
        <5>2. CASE session # None
          BY <5>2, <2>1, SessionIsLast DEF IInv
        <5> QED BY <5>1, <5>2
      <4> QED BY <3>2, <4>1, <2>1 DEF Deliver, InTurn
    <3> QED BY <3>1, <3>2 DEF Lose, Expire, Answer, mail
  <2> QED BY <1>1, <2>1, <2>2, <2>3 DEF InTurn, Over
<1> QED BY <1>2, <1>3, <1>4 DEF IInv

-----------------------------------------------------------------------------
(* The handlers *)

\* A handler that has something left to do is the last's, and moves.
LEMMA OnlyLast ==
  ASSUME TypeOK, InTurn, NEW a \in Ids, pc[a] \notin {"idle", "done", "failed"}
  PROVE  /\ a = count /\ Latest(a)
         /\ session \in {Half, Full} /\ session # None /\ closing[a] = 0 /\ state = "CONNECTING"
         /\ \A r \in stored : r = session
<1>1. a = count /\ Latest(a)
  BY DEF InTurn, Over
<1>2. session \in {Half, Full} /\ closing[a] = 0 /\ state = "CONNECTING"
  BY <1>1 DEF Latest, TypeOK, Pcs
<1>3. session # None
  BY <1>1, <1>2, NoneIsNot, BoundAssumption DEF Half, Full, Ids
<1>4. \A r \in stored : r = session
  BY <1>1, <1>2 DEF InTurn
<1> QED BY <1>1, <1>2, <1>3, <1>4

LEMMA LastMoves ==
  ASSUME TypeOK, InTurn, NEW a \in Ids, pc[a] \notin {"idle", "done", "failed"},
         NEW p, pc' = [pc EXCEPT ![a] = p],
         UNCHANGED <<count, closing, offer, inbox>>,
         \A r \in stored' : r = session' /\ r.of = count,
         Latest(a)'
  PROVE  InTurn'
<1>1. a = count
  BY OnlyLast
<1>2. \A b \in Ids \ {a} : pc'[b] = pc[b]
  BY DEF TypeOK
<1>3. count # 0
  BY <1>1, BoundAssumption DEF Ids
<1> QED BY <1>1, <1>2, <1>3 DEF InTurn, Over

\* A handler moves within connect(), and leaves the client as it is.
LEMMA MoveStep ==
  ASSUME IInv, NEW a \in Ids, pc[a] \notin {"idle", "done", "failed"},
         NEW p \in Pcs, pc' = [pc EXCEPT ![a] = p],
         UNCHANGED <<mode, count, client, stored, offer, world, mail, history>>,
         p \in Active => pc[a] \in Active,
         p = "ack" => link # "down" /\ session.peer # 0,
         Calm /\ InTurn => Latest(a)'
  PROVE  IInv'
<1>1. /\ UNCHANGED <<mode, count, state, session, stored, link, subs, offer, closing, late, offered>>
      /\ UNCHANGED <<arrived, inbox, overlap, cut, stray>>
  BY DEF client, world, mail, history
<1>2. pc' \in [Ids -> Pcs] /\ pc'[a] = p /\ \A b \in Ids \ {a} : pc'[b] = pc[b]
  BY DEF IInv, TypeOK
<1>3. TypeOK'
  BY <1>1, <1>2 DEF IInv, TypeOK
<1>4. Sound'
  BY <1>1, <1>2 DEF IInv, Sound, FinalRecords
<1>5. ASSUME Calm' PROVE InTurn'
  <2>1. Calm /\ InTurn
    BY <1>1, <1>5 DEF IInv, Calm
  <2>2. \A r \in stored : r = session /\ r.of = count
    BY <2>1, OnlyLast, SessionIsLast DEF IInv
  <2> QED BY <1>1, <2>1, <2>2, LastMoves DEF IInv
<1> QED BY <1>3, <1>4, <1>5 DEF IInv

LEMMA WaitSteps ==
  ASSUME IInv, NEW a \in Ids, Subscribed(a) \/ OfferTimeout(a) \/ NoCode(a) \/ AckRejected(a)
  PROVE  IInv'
<1>1. CASE Fail(a) /\ UNCHANGED stored
  BY <1>1, FailStep DEF Subscribed, OfferTimeout, NoCode, AckRejected, Fail, mail
<1>2. CASE ~ (Fail(a) /\ UNCHANGED stored)
  <2>1. /\ pc[a] = "subscribe" /\ pc' = [pc EXCEPT ![a] = "offer"]
        /\ UNCHANGED <<mode, count, client, stored, offer, world, mail, history>>
    BY <1>2 DEF Subscribed, OfferTimeout, NoCode, AckRejected
  <2>2. ASSUME InTurn PROVE Latest(a)'
    <3>1. Latest(a)
      BY <2>1, <2>2, OnlyLast DEF IInv
    <3>2. pc'[a] = "offer"
      BY <2>1 DEF IInv, TypeOK
    <3> QED BY <2>1, <3>1, <3>2 DEF Latest, client, Active, Half
  <2> QED BY <2>1, <2>2, MoveStep DEF Pcs, Active
<1> QED BY <1>1, <1>2

LEMMA HandleStep ==
  ASSUME IInv, NEW a \in Ids, Handle(a)
  PROVE  IInv'
<1> DEFINE takers == {b \in Ids : pc[b] = "offer" /\ state = "CONNECTING"}
<1>1. /\ pc' = [b \in Ids |-> IF b \in takers THEN "taken" ELSE pc[b]]
      /\ offer' = [b \in Ids |-> IF b \in takers THEN a ELSE offer[b]]
      /\ inbox' = inbox \ {a}
      /\ UNCHANGED <<mode, count, client, stored, world, arrived, history>>
  BY DEF Handle
<1>2. UNCHANGED <<state, session, link, subs, closing, late, offered, overlap, cut, stray>>
  BY <1>1 DEF client, world, history
<1>3. /\ pc' \in [Ids -> Pcs] /\ offer' \in [Ids -> 0 .. MaxAttempts] /\ a # 0
      /\ \A b \in Ids : /\ pc'[b] = IF b \in takers THEN "taken" ELSE pc[b]
                        /\ offer'[b] = IF b \in takers THEN a ELSE offer[b]
  BY <1>1, BoundAssumption DEF IInv, TypeOK, Pcs, Ids
<1>4. TypeOK'
  BY <1>1, <1>2, <1>3 DEF IInv, TypeOK
<1>5. Sound'
  BY <1>1, <1>2, <1>3 DEF IInv, Sound, FinalRecords, Active
<1>6. ASSUME Calm' PROVE InTurn'
  <2>1. Calm /\ InTurn
    BY <1>2, <1>6 DEF IInv, Calm
  <2>2. a = count /\ Latest(a)
    BY <2>1 DEF InTurn, Handle
  <2>3. \A b \in takers : b = a
    BY <2>1, <2>2 DEF InTurn, Over
  <2>4. Latest(a)'
    <3>1. CASE a \in takers
      <4>1. pc'[a] = "taken" /\ offer'[a] = a /\ pc[a] = "offer"
        BY <1>3, <3>1
      <4> QED BY <1>1, <1>2, <2>2, <4>1 DEF Latest, Active, Half
    <3>2. CASE a \notin takers
      <4>1. pc'[a] = pc[a] /\ offer'[a] = offer[a]
        BY <1>3, <3>2
      <4> QED BY <1>1, <1>2, <2>2, <4>1 DEF Latest, Active, Half, Full, Trusted
    <3> QED BY <3>1, <3>2
  <2> QED BY <1>1, <1>2, <1>3, <2>1, <2>2, <2>3, <2>4 DEF InTurn, Over, Ids
<1> QED BY <1>4, <1>5, <1>6 DEF IInv

\* The same, for a handler that makes its session final, subscribes or stores.
LEMMA SessionStep ==
  ASSUME IInv, NEW a \in Ids, pc[a] \in Active,
         NEW p \in Active \ {"ack"}, pc' = [pc EXCEPT ![a] = p],
         UNCHANGED <<mode, count, state, link, offer, closing, world, mail, history>>,
         session' = session \/ (session' \in Session /\ session'.peer # 0),
         subs' \subseteq subs \union {Chan(offer[a])},
         \/ stored' = stored
         \/ /\ session' \in Session /\ session'.peer # 0
            /\ stored' = {r \in stored : r.of # session'.of} \union {session'},
         Calm /\ InTurn => session'.of = a /\ (session' = session \/ stored = {} \/ stored' # stored) /\ Latest(a)'
  PROVE  IInv'
<1>1. /\ UNCHANGED <<mode, count, state, link, offer, closing, late, offered>>
      /\ UNCHANGED <<arrived, inbox, overlap, cut, stray>>
  BY DEF world, mail, history
<1>2. pc' \in [Ids -> Pcs] /\ pc'[a] = p /\ \A b \in Ids \ {a} : pc'[b] = pc[b]
  BY DEF IInv, TypeOK, Active, Pcs
<1>3. TypeOK'
  <2>1. offer[a] \in Ids
    BY BoundAssumption DEF IInv, TypeOK, Sound, Ids
  <2>2. subs' \subseteq {"handshake", "session"} \X Ids
    BY <2>1 DEF IInv, TypeOK, Chan
  <2>3. session' \in Session \union {None}
    BY DEF IInv, TypeOK
  <2>4. stored' \subseteq Session /\ \A r, q \in stored' : r.of = q.of => r = q
    BY DEF IInv, TypeOK
  <2> QED BY <1>1, <1>2, <2>2, <2>3, <2>4 DEF IInv, TypeOK
<1>4. Sound'
  BY <1>1, <1>2 DEF IInv, Sound, FinalRecords, Active
<1>5. ASSUME Calm' PROVE InTurn'
  <2>1. Calm /\ InTurn
    BY <1>1, <1>5 DEF IInv, Calm
  <2>2. a = count /\ session'.of = a /\ Latest(a)' /\ \A r \in stored : r = session /\ r.of = count
    BY <2>1, OnlyLast, SessionIsLast DEF IInv, Active
  <2>3. \A r \in stored' : r = session' /\ r.of = count
    BY <2>1, <2>2
  <2> QED BY <1>1, <2>1, <2>2, <2>3, LastMoves DEF IInv, Active
<1> QED BY <1>3, <1>4, <1>5 DEF IInv

LEMMA TakeSteps ==
  ASSUME IInv, NEW a \in Ids, Take(a) \/ RightCode(a)
  PROVE  IInv'
<1> DEFINE final == [of |-> a, peer |-> offer[a]]
<1>1. pc[a] \in {"taken", "otp"} /\ pc \in [Ids -> Pcs] /\ offer[a] # 0 /\ offer[a] \in Ids
  BY BoundAssumption DEF Take, RightCode, IInv, TypeOK, Sound, Active, Ids
<1>2. final \in Session /\ final.of = a /\ final.peer # 0
  BY <1>1 DEF Session
<1>3. ASSUME InTurn PROVE a = count /\ offer[a] = a /\ session = Half /\ stored = {} /\ Latest(a)
  <2>1. a = count /\ Latest(a) /\ \A r \in stored : r = session
    BY <1>1, <1>3, OnlyLast DEF IInv
  <2>2. offer[a] = a /\ session = Half
    BY <1>1, <2>1 DEF Latest, Active
  <2>3. stored = {}
    BY <2>1, <2>2 DEF Half, IInv, Sound, FinalRecords
  <2> QED BY <2>1, <2>2, <2>3
<1>4. CASE Take(a) /\ Trusted /\ ~ (Fail(a) /\ UNCHANGED stored)
  <2>1. /\ session' = final /\ stored' = {r \in stored : r.of # session'.of} \union {session'}
        /\ pc' = [pc EXCEPT ![a] = "store"]
        /\ UNCHANGED <<mode, count, state, link, subs, offer, closing, world, mail, history>>
    BY <1>4 DEF Take, Store
  <2>2. ASSUME InTurn PROVE Latest(a)'
    <3>1. session' = Full' /\ session' \in stored' /\ pc'[a] = "store" /\ Trusted'
      BY <1>1, <1>3, <1>4, <2>1, <2>2 DEF Full, Trusted
    <3> QED BY <1>1, <1>3, <2>1, <2>2, <3>1 DEF Latest, Active
  <2> QED BY <1>1, <1>2, <1>3, <2>1, <2>2, SessionStep DEF Active
<1>5. CASE Take(a) /\ ~ Trusted /\ ~ (Fail(a) /\ UNCHANGED stored)
  <2>1. /\ pc[a] = "taken" /\ pc' = [pc EXCEPT ![a] = "otp"]
        /\ UNCHANGED <<mode, count, client, stored, offer, world, mail, history>>
    BY <1>5 DEF Take
  <2>2. ASSUME InTurn PROVE Latest(a)'
    <3>1. pc'[a] = "otp" /\ ~ Trusted'
      BY <1>1, <1>5, <2>1 DEF Trusted
    <3> QED BY <1>1, <1>3, <2>1, <2>2, <3>1 DEF Latest, Active, client, Half
  <2> QED BY <2>1, <2>2, MoveStep DEF Active, Pcs
<1>6. CASE Take(a) /\ Fail(a) /\ UNCHANGED stored
  BY <1>1, <1>6, FailStep DEF Fail, mail
<1>7. CASE RightCode(a)
  <2>1. /\ session' = final /\ subs' = subs \union {Chan(offer[a])} /\ UNCHANGED stored
        /\ pc' = [pc EXCEPT ![a] = "joining"] /\ pc[a] = "otp"
        /\ UNCHANGED <<mode, count, state, link, offer, closing, world, mail, history>>
    BY <1>7 DEF RightCode
  <2>2. ASSUME InTurn PROVE Latest(a)'
    <3>1. session' = Full' /\ Chan(a) \in subs' /\ pc'[a] = "joining" /\ ~ Trusted'
      BY <1>1, <1>3, <2>1, <2>2 DEF Full, Trusted, Latest
    <3> QED BY <1>1, <1>3, <2>1, <2>2, <3>1 DEF Latest, Active
  <2> QED BY <1>1, <1>2, <1>3, <2>1, <2>2, SessionStep DEF Active
<1> QED BY <1>4, <1>5, <1>6, <1>7

LEMMA StoreSteps ==
  ASSUME IInv, NEW a \in Ids, Stored(a) \/ Joined(a) \/ Acked(a)
  PROVE  IInv'
<1>1. pc[a] \in {"store", "joining", "ack"} /\ pc \in [Ids -> Pcs] /\ offer[a] # 0
  BY DEF Stored, Joined, Acked, IInv, TypeOK, Sound, Active
<1>2. ASSUME InTurn PROVE a = count /\ Latest(a) /\ offer[a] = a /\ session = Full /\ session.of = a
  <2>1. a = count /\ Latest(a)
    BY <1>1, <1>2, OnlyLast DEF IInv
  <2> QED BY <1>1, <2>1 DEF Latest, Active, Full
<1>3. CASE Fail(a) /\ UNCHANGED stored
  BY <1>1, <1>3, FailStep DEF Stored, Joined, Acked, Fail, mail
<1>4. CASE Stored(a) /\ ~ (Fail(a) /\ UNCHANGED stored)
  <2> DEFINE p == IF Trusted THEN "joining" ELSE "clear"
  <2>1. /\ pc[a] = "store" /\ pc' = [pc EXCEPT ![a] = p] /\ p \in Active \ {"ack"}
        /\ subs' = IF Trusted THEN subs \union {Chan(offer[a])} ELSE subs
        /\ UNCHANGED <<mode, count, state, session, stored, link, offer, closing, world, mail, history>>
    BY <1>4 DEF Stored, Active
  <2>2. ASSUME InTurn PROVE Latest(a)'
    <3>1. session' = Full' /\ Chan(a) \in subs' /\ session' \in stored' /\ Trusted' = Trusted
      BY <1>2, <2>1, <2>2 DEF Full, Trusted, Latest
    <3>2. pc'[a] \in {"joining", "clear"}
      BY <1>1, <2>1
    <3> QED BY <1>2, <2>1, <2>2, <3>1, <3>2 DEF Latest, Active
  <2> HIDE DEF p
  <2> QED BY <1>1, <1>2, <2>1, <2>2, SessionStep DEF Active
<1>5. CASE Joined(a) /\ ~ (Fail(a) /\ UNCHANGED stored)
  <2> DEFINE p == IF Trusted THEN "clear" ELSE "ack"
  <2>1. /\ pc[a] = "joining" /\ pc' = [pc EXCEPT ![a] = p] /\ p \in Pcs /\ link = "up"
        /\ p = "ack" => session.peer # 0
        /\ UNCHANGED <<mode, count, client, stored, offer, world, mail, history>>
    BY <1>5 DEF Joined, Pcs
  <2>2. ASSUME InTurn PROVE Latest(a)'
    <3>1. session' = Full' /\ Chan(a) \in subs' /\ (Trusted => session' \in stored') /\ Trusted' = Trusted
      BY <1>2, <2>1, <2>2 DEF Full, Trusted, Latest, client
    <3>2. pc'[a] = IF Trusted THEN "clear" ELSE "ack"
      BY <1>1, <2>1
    <3> QED BY <1>2, <2>1, <2>2, <3>1, <3>2 DEF Latest, Active, client
  <2> HIDE DEF p
  <2> QED BY <1>1, <2>1, <2>2, MoveStep DEF Active
<1>6. CASE Acked(a) /\ ~ (Fail(a) /\ UNCHANGED stored)
  <2>1. /\ pc[a] = "ack" /\ pc' = [pc EXCEPT ![a] = "store"] /\ session # None
        /\ stored' = {r \in stored : r.of # session.of} \union {session}
        /\ UNCHANGED <<mode, count, client, offer, world, mail, history>>
    BY <1>6 DEF Acked, Store
  <2>2. session \in Session /\ session.peer # 0 /\ UNCHANGED <<state, session, link, subs, closing>>
    BY <2>1 DEF IInv, TypeOK, Sound, client
  <2>3. ASSUME InTurn PROVE Latest(a)'
    <3>1. session' = Full' /\ Chan(a) \in subs' /\ session' \in stored'
      BY <1>2, <2>1, <2>2, <2>3 DEF Full, Latest
    <3>2. pc'[a] = "store"
      BY <1>1, <2>1
    <3> QED BY <1>2, <2>1, <2>2, <2>3, <3>1, <3>2 DEF Latest, Active
  <2> QED BY <1>1, <1>2, <2>1, <2>2, <2>3, SessionStep DEF Active
<1> QED BY <1>3, <1>4, <1>5, <1>6

LEMMA FinishStep ==
  ASSUME IInv, NEW a \in Ids, Finish(a)
  PROVE  IInv'
<1>1. pc[a] = "clear" /\ pc' = [pc EXCEPT ![a] = "done"] /\ pc \in [Ids -> Pcs]
  BY DEF Finish, IInv, TypeOK
<1>2. /\ UNCHANGED <<mode, count, session, stored, link, offer, closing, late, offered>>
      /\ UNCHANGED <<arrived, inbox, overlap, cut, stray>>
      /\ state' = "CONNECTED" /\ subs' = subs \ {Hand(a)}
  BY DEF Finish, world, mail, history
<1>3. pc' \in [Ids -> Pcs] /\ pc'[a] = "done" /\ \A b \in Ids \ {a} : pc'[b] = pc[b]
  BY <1>1 DEF Pcs
<1>4. TypeOK'
  BY <1>2, <1>3 DEF IInv, TypeOK
<1>5. Sound'
  BY <1>2, <1>3 DEF IInv, Sound, FinalRecords, Active
<1>6. ASSUME Calm' PROVE InTurn'
  <2>1. Calm /\ InTurn
    BY <1>2, <1>6 DEF IInv, Calm
  <2>2. /\ a = count /\ Latest(a) /\ closing[a] = 0
        /\ \A r \in stored : r = session /\ r.of = count
    BY <1>1, <2>1, OnlyLast, SessionIsLast DEF IInv
  <2>3. session = Full /\ session \in stored /\ Chan(a) \in subs /\ offer[a] = a
    BY <1>1, <2>2 DEF Latest, Active
  <2>4. session' = Full' /\ session' \in stored' /\ Chan(a) \in subs'
    BY <1>2, <2>3 DEF Full, Chan, Hand
  <2>5. Latest(a)'
    BY <1>2, <1>3, <2>2, <2>3, <2>4 DEF Latest, Active
  <2> QED BY <1>1, <1>2, <2>1, <2>2, <2>5, LastMoves DEF IInv
<1> QED BY <1>4, <1>5, <1>6 DEF IInv

-----------------------------------------------------------------------------
LEMMA NextInv == IInv /\ [Next]_vars => IInv'
<1> SUFFICES ASSUME IInv, [Next]_vars PROVE IInv'
  OBVIOUS
<1>1. CASE UNCHANGED vars
  <2>1. /\ UNCHANGED <<mode, count, state, session, stored, link, subs, pc, offer, closing>>
        /\ UNCHANGED <<late, offered, arrived, inbox, overlap, cut, stray>>
    BY <1>1 DEF vars
  <2>2. TypeOK'
    BY <2>1 DEF IInv, TypeOK
  <2>3. Sound'
    BY <2>1 DEF IInv, Sound, FinalRecords
  <2>4. Calm' => InTurn'
    BY <2>1 DEF IInv, Calm, InTurn, Over, Latest, Active, Half, Full, Trusted
  <2> QED BY <2>2, <2>3, <2>4 DEF IInv
<1>2. CASE Connect \/ Disconnect \/ Connected
  BY <1>2, ConnectStep, DisconnectStep, ConnectedStep
<1>3. CASE Lose \/ Expire
  BY <1>3, WorldSteps
<1>4. ASSUME NEW a \in Ids,
             Handler(a) \/ Forget(a) \/ Deliver(a) \/ Handle(a) \/ RightCode(a) \/ NoCode(a) \/ Answer(a)
      PROVE  IInv'
  <2>1. CASE Handler(a)
    BY <2>1, WaitSteps, TakeSteps, StoreSteps, FinishStep DEF Handler
  <2>2. CASE Deliver(a) \/ Answer(a)
    BY <2>2, WorldSteps
  <2> QED BY <1>4, <2>1, <2>2, ForgetStep, HandleStep, TakeSteps, WaitSteps
<1> QED BY <1>1, <1>2, <1>3, <1>4 DEF Next

LEMMA Invariant == Spec => []IInv
  BY InitInv, NextInv, PTL DEF Spec

\* Every variable of the client keeps its type, for any number of attempts.
THEOREM TypeCorrect == Spec => []TypeOK
<1>1. IInv => TypeOK
  BY DEF IInv
<1> QED BY <1>1, Invariant, PTL

\* Whatever overlaps, a session without its wallet's key is never stored: an
\* acknowledgement is only made with the key, and only disconnect() can take it
\* away from there, which makes the publish() fail.
THEOREM RecordsFinal == Spec => []FinalRecords
<1>1. IInv => FinalRecords
  BY DEF IInv, Sound
<1> QED BY <1>1, Invariant, PTL

\* Attempts that are made one after the other leave nothing of each other behind:
\* CONNECTED means the last attempt's own session, final, stored and subscribed
\* to, and with every call over no other session has a record.
THEOREM LastOnly == Spec => []LastAttemptOnly
<1>1. IInv => LastAttemptOnly
  <2> SUFFICES ASSUME IInv, Calm PROVE
        /\ session # None => session.of = count
        /\ state = "CONNECTED" => session = Full /\ session \in stored /\ Chan(count) \in subs
        /\ (\A a \in Ids : Over(a)) => stored \subseteq {session}
    BY DEF LastAttemptOnly, Full
  <2>1. InTurn /\ TypeOK
    BY DEF IInv
  <2>2. session # None => session.of = count
    BY <2>1, SessionIsLast
  <2>3. ASSUME state = "CONNECTED" PROVE session = Full /\ session \in stored /\ Chan(count) \in subs
    <3>1. count \in Ids /\ Latest(count)
      BY <2>1, <2>3 DEF InTurn, TypeOK, Ids
    <3> QED BY <2>3, <3>1 DEF Latest
  <2>4. ASSUME \A a \in Ids : Over(a), NEW r \in stored PROVE r = session
    BY <2>1, <2>4, NoneIsNot DEF InTurn, Over, TypeOK
  <2> QED BY <2>2, <2>3, <2>4
<1> QED BY <1>1, Invariant, PTL
=============================================================================
