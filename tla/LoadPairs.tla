----------------------------- MODULE LoadPairs -----------------------------
(***************************************************************************)
(* The load tests that set up session pairs, realistic-session and         *)
(* steady-messaging: a dApp and a wallet each in one process, which        *)
(* exchange a request and its response over and over.  An exchange listens *)
(* once on either client, under a timer; what comes late is heard by the   *)
(* next exchange.  An exchange whose request could not be sent leaves its  *)
(* two promises unattended, and a promise rejected unattended ends the     *)
(* process.                                                                *)
(***************************************************************************)
EXTENDS Naturals, Sequences

CONSTANTS
  Pairs,    \* how many pairs a test starts
  Messages  \* exchanges of a pair: fixed in realistic-session, in the other a bound

VARIABLES
  test,      \* which test runs, how far, whether its time is over, what it awaits
  stage,     \* where each pair's task is
  client,    \* the dApp and the wallet of each pair; "closed": disconnect() was called
  round,     \* each pair's exchange
  ear,       \* what each exchange's listener on either side has come to
  loose,     \* the exchanges whose promises nobody attends to
  toWallet,  \* requests under way, each named by its exchange
  toDapp,    \* responses under way
  verdict    \* what each exchange returned

vars == <<test, stage, client, round, ear, loose, toWallet, toDapp, verdict>>
work == <<ear, loose, toWallet, toDapp, verdict>>

Ids    == 1 .. Pairs
Rounds == 1 .. Messages
Steady == test.name = "steady-messaging"

Unset   == {p \in Ids : stage[p] \in {"none", "scan", "joining"}}
Started == {p \in Ids : stage[p] # "none"}

Deaf == [at |-> "none", id |-> 0]

Init ==
  /\ test \in [name : {"realistic-session", "steady-messaging"}, phase : {"ramp"},
               late : {FALSE}, awaited : {{}}]
  /\ stage = [p \in Ids |-> "none"]
  /\ client = [p \in Ids |-> [dapp |-> "off", wallet |-> "off"]]
  /\ round = [p \in Ids |-> 0]
  /\ ear = [p \in Ids |-> [side \in {"dapp", "wallet"} |-> [k \in Rounds |-> Deaf]]]
  /\ loose = [p \in Ids |-> {}]
  /\ toWallet = [p \in Ids |-> <<>>]
  /\ toDapp = [p \in Ids |-> <<>>]
  /\ verdict = [p \in Ids |-> [k \in Rounds |-> "none"]]

To(p, s) == stage' = [stage EXCEPT ![p] = s]

\* The next exchange, or the end of a pair's task.
Again(p, more) ==
  /\ To(p, IF more THEN "buffer" ELSE "over")
  /\ round' = [round EXCEPT ![p] = IF more THEN @ + 1 ELSE @]

-----------------------------------------------------------------------------
(* Setting up a pair *)

\* createSessionPair: the dApp connects.
Start(p) ==
  /\ test.phase = "ramp" /\ stage[p] = "none" /\ \A q \in 1 .. p - 1 : stage[q] # "none"
  /\ To(p, "scan")
  /\ client' = [client EXCEPT ![p].dapp = "connecting"]
  /\ UNCHANGED <<test, round, work>>

\* Five seconds after the dApp's request the wallet connects.
Join(p) ==
  /\ stage[p] = "scan"
  /\ To(p, "joining")
  /\ client' = [client EXCEPT ![p].wallet = "connecting"]
  /\ UNCHANGED <<test, round, work>>

\* The wallet has sent its offer; the dApp may not have it yet.
Joined(p) ==
  /\ stage[p] = "joining"
  /\ client' = [client EXCEPT ![p].wallet = "connected"]
  /\ Again(p, ~Steady \/ ~test.late)
  /\ UNCHANGED <<test, work>>

\* The dApp's request or the wallet's connect() fails or takes too long: what
\* clients there are disconnect.
JoinFails(p) ==
  /\ stage[p] \in {"scan", "joining"}
  /\ To(p, "over")
  /\ client' = [client EXCEPT ![p] = [dapp |-> "closed",
                                     wallet |-> IF stage[p] = "scan" THEN "off" ELSE "closed"]]
  /\ UNCHANGED <<test, round, work>>

\* The offer reaches the dApp, whose connect() nobody awaits.
DappConnects(p) ==
  /\ client[p].dapp = "connecting" /\ client[p].wallet \in {"connecting", "connected"}
  /\ client' = [client EXCEPT ![p].dapp = "connected"]
  /\ UNCHANGED <<test, stage, round, work>>

\* The dApp's connect() fails: the rejection settles nothing any more.
DappFails(p) ==
  /\ client[p].dapp = "connecting"
  /\ client' = [client EXCEPT ![p].dapp = "closed"]
  /\ UNCHANGED <<test, stage, round, work>>

-----------------------------------------------------------------------------
(* An exchange *)

Mark(p, side, k, at, id) ==
  ear' = [ear EXCEPT ![p][side][k] = [at |-> at, id |-> id]]

\* All the listeners that still wait hear a message.
Hear(p, side, at, id) ==
  ear' = [ear EXCEPT ![p][side] = [k \in Rounds |->
            IF @[k].at = "open" THEN [at |-> at, id |-> id] ELSE @[k]]]

\* The exchange returns, and the pair's task goes on.
Returns(p, v, unable) ==
  /\ verdict' = [verdict EXCEPT ![p][round[p]] = v]
  /\ IF Steady
       THEN To(p, IF unable THEN "dropped" ELSE "pause") /\ UNCHANGED round
       ELSE Again(p, round[p] < Messages)

\* After 500 ms both listeners are set; sendRequest throws unless connected.
Send(p) ==
  /\ stage[p] = "buffer"
  /\ ear' = [ear EXCEPT ![p] = [side \in {"dapp", "wallet"} |->
       [@[side] EXCEPT ![round[p]] = [at |-> "open", id |-> 0]]]]
  /\ \/ client[p].dapp = "connected" /\ To(p, "sending")
        /\ UNCHANGED <<round, loose, verdict>>
     \/ client[p].dapp # "connected" /\ Returns(p, "failed", TRUE)
        /\ loose' = [loose EXCEPT ![p] = @ \union {round[p]}]
  /\ UNCHANGED <<test, client, toWallet, toDapp>>

\* The relay has the request.
Sent(p) ==
  /\ stage[p] = "sending"
  /\ To(p, "waiting")
  /\ toWallet' = [toWallet EXCEPT ![p] = Append(@, round[p])]
  /\ UNCHANGED <<test, client, round, ear, loose, toDapp, verdict>>

\* sendRequest rejects.
SendFails(p) ==
  /\ stage[p] = "sending"
  /\ Returns(p, "failed", FALSE)
  /\ loose' = [loose EXCEPT ![p] = @ \union {round[p]}]
  /\ UNCHANGED <<test, client, ear, toWallet, toDapp>>

\* A promise of exchange k rejects: without anybody attached, it ends the process.
Rejects(p, k) ==
  test' = IF k \in loose[p] \/ (k = round[p] /\ stage[p] = "sending")
          THEN [test EXCEPT !.phase = "dead"] ELSE test

\* Mutation: a listener answers although its time is over.
WalletHearsLate(p) ==
  /\ toWallet[p] # <<>> /\ client[p].wallet = "connected"
  /\ toWallet' = [toWallet EXCEPT ![p] = Tail(@)]
  /\ ear' = [ear EXCEPT ![p].wallet = [k \in Rounds |->
       IF @[k].at \in {"open", "late"} THEN [at |-> "answering", id |-> Head(toWallet[p])] ELSE @[k]]]
  /\ UNCHANGED <<test, stage, client, round, loose, toDapp, verdict>>

\* A request reaches the wallet.
WalletHears(p) ==
  /\ toWallet[p] # <<>> /\ client[p].wallet = "connected"
  /\ toWallet' = [toWallet EXCEPT ![p] = Tail(@)]
  /\ Hear(p, "wallet", "answering", Head(toWallet[p]))
  /\ UNCHANGED <<test, stage, client, round, loose, toDapp, verdict>>

\* After its delay the wallet responds, with the id of the exchange.
Answers(p, k) ==
  /\ ear[p].wallet[k].at = "answering" /\ client[p].wallet = "connected"
  /\ Mark(p, "wallet", k, "answered", ear[p].wallet[k].id)
  /\ toDapp' = [toDapp EXCEPT ![p] = Append(@, k)]
  /\ UNCHANGED <<test, stage, client, round, loose, toWallet, verdict>>

\* sendResponse rejects.
AnswerFails(p, k) ==
  /\ ear[p].wallet[k].at = "answering"
  /\ Mark(p, "wallet", k, "failed", ear[p].wallet[k].id)
  /\ Rejects(p, k)
  /\ UNCHANGED <<stage, client, round, loose, toWallet, toDapp, verdict>>

\* A response reaches the dApp.
DappHears(p) ==
  /\ toDapp[p] # <<>> /\ client[p].dapp = "connected"
  /\ toDapp' = [toDapp EXCEPT ![p] = Tail(@)]
  /\ Hear(p, "dapp", "heard", Head(toDapp[p]))
  /\ UNCHANGED <<test, stage, client, round, loose, toWallet, verdict>>

\* A listener's time is over; the dApp's has the response delay more.
TimesOut(p, side, k) ==
  /\ ear[p][side][k].at = "open"
  /\ side = "dapp" => ear[p].wallet[k].at # "open"
  /\ Mark(p, side, k, "late", 0)
  /\ Rejects(p, k)
  /\ UNCHANGED <<stage, client, round, loose, toWallet, toDapp, verdict>>

\* Mutation: the first promise to settle decides.
SettlesFirst(p) ==
  LET w == ear[p].wallet[round[p]]
      d == ear[p].dapp[round[p]]
  IN  /\ stage[p] = "waiting"
      /\ \/ w.at = "answered" /\ Returns(p, "ok", FALSE)
         \/ d.at = "heard" /\ Returns(p, IF d.id = round[p] THEN "ok" ELSE "mismatch", FALSE)
         \/ (w.at \in {"failed", "late"} \/ d.at = "late") /\ Returns(p, "failed", FALSE)
      /\ UNCHANGED <<test, client, ear, loose, toWallet, toDapp>>

\* Both promises have resolved, or one has rejected.
Settles(p) ==
  LET w == ear[p].wallet[round[p]]
      d == ear[p].dapp[round[p]]
  IN  /\ stage[p] = "waiting"
      /\ \/ w.at = "answered" /\ d.at = "heard"
            /\ Returns(p, IF d.id = round[p] THEN "ok" ELSE "mismatch", FALSE)
         \/ (w.at \in {"failed", "late"} \/ d.at = "late") /\ Returns(p, "failed", FALSE)
      /\ UNCHANGED <<test, client, ear, loose, toWallet, toDapp>>

-----------------------------------------------------------------------------
(* The tests *)

\* The dApp's user has waited; the messaging loop looks at the time.
Wake(p) ==
  /\ stage[p] = "pause"
  /\ round[p] < Messages \/ test.late
  /\ Again(p, ~test.late)
  /\ UNCHANGED <<test, client, work>>

Late ==
  /\ Steady /\ ~test.late
  /\ test' = [test EXCEPT !.late = TRUE]
  /\ UNCHANGED <<stage, client, round, work>>

\* Every pair is started.  realistic-session awaits all their tasks; the
\* promises that steady-messaging awaits are those it has by now: every pair's
\* setup, and the loops of the pairs that are set up.
RampEnds ==
  /\ test.phase = "ramp" /\ Started = Ids
  /\ test' = [test EXCEPT !.phase = "messaging",
                          !.awaited = IF Steady THEN Ids \ Unset ELSE Ids]
  /\ UNCHANGED <<stage, client, round, work>>

\* Mutation: what the tasks of the pairs come to is not awaited.
SetUp ==
  /\ test.phase = "messaging" /\ Unset = {}
  /\ Steady => test.late
  /\ test' = [test EXCEPT !.phase = "closing"]
  /\ UNCHANGED <<stage, client, round, work>>

AllOver ==
  /\ test.phase = "messaging" /\ Unset = {}
  /\ \A p \in test.awaited : stage[p] \in {"over", "dropped"}
  /\ Steady => test.late
  /\ test' = [test EXCEPT !.phase = "closing"]
  /\ UNCHANGED <<stage, client, round, work>>

\* The active pairs disconnect, the result is written, the process exits.
Close ==
  /\ test.phase = "closing"
  /\ client' = [p \in Ids |-> IF stage[p] = "dropped" \/ client[p].wallet = "off" THEN client[p]
                              ELSE [dapp |-> "closed", wallet |-> "closed"]]
  /\ test' = [test EXCEPT !.phase = "done"]
  /\ UNCHANGED <<stage, round, work>>

-----------------------------------------------------------------------------
Step(p) ==
  \/ Start(p) \/ Join(p) \/ Joined(p) \/ JoinFails(p) \/ DappConnects(p) \/ DappFails(p)
  \/ Send(p) \/ Sent(p) \/ SendFails(p) \/ WalletHears(p) \/ DappHears(p) \/ Settles(p)
  \/ Wake(p)
  \/ \E k \in Rounds :
       Answers(p, k) \/ AnswerFails(p, k) \/ \E side \in {"dapp", "wallet"} : TimesOut(p, side, k)

Running == test.phase \notin {"done", "dead"}

Next ==
  /\ Running
  /\ \/ Late \/ RampEnds \/ AllOver \/ Close
     \/ \E p \in Ids : Step(p)

Control  == Running /\ (Late \/ RampEnds \/ AllOver \/ Close)
Setup(p) == Running /\ (Start(p) \/ Join(p) \/ Joined(p) \/ JoinFails(p))
Timer(p) == Running /\ \E k \in Rounds, side \in {"dapp", "wallet"} : TimesOut(p, side, k)

\* A dApp that has heard something since is connected, and its queue has run.
Loop(p) ==
  /\ Running
  /\ \/ Send(p) \/ Settles(p) \/ Wake(p)
     \/ /\ stage[p] = "sending" /\ ear[p].dapp[round[p]].at = "heard"
        /\ Sent(p) \/ SendFails(p)

\* The exchange awaits the wallet's sendResponse(), whose timer is over: while the
\* relay cannot be reached it need not settle.  (The dApp has heard the response
\* to an earlier request; else its timer runs.)
Waits(p) ==
  /\ stage[p] = "waiting"
  /\ ear[p].wallet[round[p]].at = "answering" /\ ear[p].dapp[round[p]].at = "heard"

\* The loops go on and timers run out; the relay owes nothing.
Fair ==
  /\ WF_vars(Control)
  /\ \A p \in Ids : WF_vars(Setup(p)) /\ WF_vars(Loop(p)) /\ WF_vars(Timer(p))

Spec == Init /\ [][Next]_vars /\ Fair

TypeOK ==
  /\ test \in [name : {"realistic-session", "steady-messaging"},
               phase : {"ramp", "messaging", "closing", "done", "dead"},
               late : BOOLEAN, awaited : SUBSET Ids]
  /\ stage \in [Ids -> {"none", "scan", "joining", "buffer", "sending", "waiting", "pause",
                        "over", "dropped"}]
  /\ \A p \in Ids :
       /\ client[p] \in [{"dapp", "wallet"} -> {"off", "connecting", "connected", "closed"}]
       /\ round[p] \in 0 .. Messages
       /\ loose[p] \subseteq Rounds
       /\ toWallet[p] \in Seq(Rounds) /\ toDapp[p] \in Seq(Rounds)
       /\ \A k \in Rounds, side \in {"dapp", "wallet"} : ear[p][side][k].id \in 0 .. Messages
       /\ verdict[p] \in [Rounds -> {"none", "ok", "mismatch", "failed"}]

Failed(p, k) == verdict[p][k] = "failed"

\* Until an exchange of a pair fails, every exchange ends with the response to
\* the request it sent itself.
ExchangesMatch ==
  \A p \in Ids, k \in Rounds :
    verdict[p][k] \in {"ok", "mismatch"} =>
      \/ verdict[p][k] = "ok" /\ ear[p].wallet[k].id = k
      \/ \E j \in 1 .. k - 1 : Failed(p, j)

\* A request is answered by one exchange, even when it comes after the exchange
\* that sent it has given up, provided every request of the pair could be sent.
AnsweredOnce ==
  \A p \in Ids : loose[p] = {} =>
    \A j, k \in Rounds :
      j # k /\ ear[p].wallet[j].id # 0 => ear[p].wallet[j].id # ear[p].wallet[k].id

\* realistic-session reports when every pair's task is over, and leaves no
\* client open.
ReportIsFinal ==
  test.phase = "done" /\ ~Steady =>
    \A p \in Ids : stage[p] = "over" /\ client[p].dapp = "closed" /\ client[p].wallet \in {"off", "closed"}

\* "Wait for all messaging loops to complete" (steady-messaging.ts).
LoopsAwaited == test.phase \in {"closing", "done"} => \A p \in Ids : stage[p] \in {"over", "dropped"}

\* The test returns a result: a timeout makes an exchange fail, not the test.
Survives == test.phase # "dead"
=============================================================================
