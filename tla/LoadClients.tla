---------------------------- MODULE LoadClients ----------------------------
(***************************************************************************)
(* The load tests that open bare connections, connection-storm and         *)
(* steady-state: what they count against what happens to the connections.  *)
(* The Centrifuge client of a connection dials by itself, again and again, *)
(* until it is disconnected.                                               *)
(***************************************************************************)
EXTENDS Naturals, FiniteSets

CONSTANTS
  Clients,     \* how many connections a test opens
  MaxReturns   \* bound: how often connections come back while they are held

VARIABLES
  test,    \* which of the two tests runs, and how far it is
  opened,  \* the loop has opened clients 1 .. opened
  link,    \* each client's connection
  erred,   \* the client has had an error
  result,  \* what its connect() resolved with
  held,    \* what the hold phase has counted
  fact     \* history of the hold: how many came back, the most that were lost

vars == <<test, opened, link, erred, result, held, fact>>

Ids == 1 .. Clients
Results == {"immediate", "recovered", "failed"}

Nothing == [before |-> 0, peak |-> 0, reconnects |-> 0, final |-> 0]

Init ==
  /\ test \in [name : {"connection-storm", "steady-state"}, phase : {"ramp"}]
  /\ opened = 0
  /\ link = [c \in Ids |-> "none"]
  /\ erred = [c \in Ids |-> FALSE]
  /\ result = [c \in Ids |-> "none"]
  /\ held = Nothing
  /\ fact = [returns |-> 0, worst |-> 0]

Goes(phase) == test' = [test EXCEPT !.phase = phase]
With(S)     == {c \in Ids : result[c] \in S}

\* successfulConnections - clients.filter(isConnected).
LostAmong(l) ==
  Cardinality(With({"immediate", "recovered"})) - Cardinality({c \in Ids : l[c] = "up"})

\* The most connections that have been lost at once since the hold began.
Worst(l, holding) ==
  IF holding /\ LostAmong(l) > fact.worst THEN LostAmong(l) ELSE fact.worst

-----------------------------------------------------------------------------
(* The wrapper of a connection *)

\* The next client is made and connects; the loop does not wait for it.
Open ==
  /\ test.phase = "ramp" /\ opened < Clients
  /\ opened' = opened + 1
  /\ link' = [link EXCEPT ![opened + 1] = "dialing"]
  /\ UNCHANGED <<test, erred, result, held, fact>>

\* on("error"): noted, and the client dials again.
Errs(c) ==
  /\ link[c] \in {"dialing", "lost"}
  /\ erred' = [erred EXCEPT ![c] = TRUE]
  /\ UNCHANGED <<test, opened, link, result, held, fact>>

\* on("connected"): connect() resolves, the first time.
Connected(c) ==
  /\ \/ link[c] = "dialing"
     \/ link[c] = "lost" /\ (test.phase = "hold" => fact.returns < MaxReturns)
  /\ link' = [link EXCEPT ![c] = "up"]
  /\ result' = [result EXCEPT ![c] =
       IF @ # "none" THEN @ ELSE IF erred[c] THEN "recovered" ELSE "immediate"]
  /\ fact' = [fact EXCEPT !.returns = IF test.phase = "hold" THEN @ + 1 ELSE @]
  /\ UNCHANGED <<test, opened, erred, held>>

\* Mutation: the client is left to dial on.
TimesOutDialing(c) ==
  /\ link[c] = "dialing"
  /\ result' = [result EXCEPT ![c] = "failed"]
  /\ UNCHANGED <<test, opened, link, erred, held, fact>>

\* The timeout of connect().
TimesOut(c) ==
  /\ link[c] = "dialing"
  /\ link' = [link EXCEPT ![c] = "closed"]
  /\ result' = [result EXCEPT ![c] = "failed"]
  /\ UNCHANGED <<test, opened, erred, held, fact>>

\* The relay or the network ends a connection; the client dials again.
Lose(c) ==
  /\ link[c] = "up"
  /\ link' = [link EXCEPT ![c] = "lost"]
  /\ fact' = [fact EXCEPT !.worst = Worst(link', test.phase = "hold")]
  /\ UNCHANGED <<test, opened, erred, result, held>>

-----------------------------------------------------------------------------
(* The tests *)

\* Every connect() has resolved.  A steady-state test without a connection
\* returns at once.
RampEnds ==
  /\ test.phase = "ramp" /\ opened = Clients
  /\ With({"none"}) = {}
  /\ Goes(IF test.name = "connection-storm" THEN "closing"
          ELSE IF With({"failed"}) = Ids THEN "done" ELSE "hold")
  /\ fact' = [fact EXCEPT !.worst = Worst(link, test'.phase = "hold")]
  /\ UNCHANGED <<opened, link, erred, result, held>>

\* Mutation: only a rise is remembered.
SampleRises ==
  LET lost == LostAmong(link)
  IN  /\ test.phase = "hold"
      /\ held' = [held EXCEPT
           !.peak = IF lost > @ THEN lost ELSE @,
           !.reconnects = IF lost < held.before THEN @ + (held.before - lost) ELSE @,
           !.before = IF lost > @ THEN lost ELSE @]
      /\ held'.reconnects <= 2 * MaxReturns
      /\ UNCHANGED <<test, opened, link, erred, result, fact>>

\* Every 100 ms: how many are lost, and by how many fewer than before.
Sample ==
  LET lost == LostAmong(link)
  IN  /\ test.phase = "hold"
      /\ held' = [held EXCEPT
           !.peak = IF lost > @ THEN lost ELSE @,
           !.reconnects = IF lost < held.before THEN @ + (held.before - lost) ELSE @,
           !.before = lost]
      /\ UNCHANGED <<test, opened, link, erred, result, fact>>

\* The time is over: once more how many are lost.
HoldEnds ==
  /\ test.phase = "hold"
  /\ held' = [held EXCEPT !.final = LostAmong(link)]
  /\ Goes("closing")
  /\ UNCHANGED <<opened, link, erred, result, fact>>

\* Every client is disconnected, and the result returned.
Close ==
  /\ test.phase = "closing"
  /\ link' = [c \in Ids |-> "closed"]
  /\ Goes("done")
  /\ UNCHANGED <<opened, erred, result, held, fact>>

-----------------------------------------------------------------------------
Next ==
  \/ Open \/ RampEnds \/ Sample \/ HoldEnds \/ Close
  \/ \E c \in Ids : Errs(c) \/ Connected(c) \/ TimesOut(c) \/ Lose(c)

Control == Open \/ RampEnds \/ HoldEnds \/ Close

\* Timers run out and loops go on; the relay owes nothing.
Fair == WF_vars(Control) /\ \A c \in Ids : WF_vars(TimesOut(c))

Spec == Init /\ [][Next]_vars /\ Fair

TypeOK ==
  /\ test \in [name : {"connection-storm", "steady-state"},
               phase : {"ramp", "hold", "closing", "done"}]
  /\ opened \in 0 .. Clients
  /\ link \in [Ids -> {"none", "dialing", "up", "lost", "closed"}]
  /\ erred \in [Ids -> BOOLEAN]
  /\ result \in [Ids -> Results \union {"none"}]
  /\ held \in [before : 0 .. Clients, peak : 0 .. Clients, reconnects : Nat, final : 0 .. Clients]
  /\ fact \in [returns : 0 .. MaxReturns, worst : 0 .. Clients]

\* What a steady-state test reports of the hold has happened: it counts no more
\* reconnections than there were, although it sees only how many connections
\* are up every 100 ms, and no higher peak.
CountsNoMore ==
  /\ held.reconnects <= fact.returns
  /\ held.peak <= fact.worst

\* "Peak number of disconnects seen at any point during hold"
\* (output/types.ts): the number at the end is none higher.
PeakIsPeak == test.phase = "done" => held.final <= held.peak

\* When the test returns, no connection of it is open or being opened.
NothingLeftOpen == test.phase = "done" => \A c \in Ids : link[c] = "closed"
=============================================================================
