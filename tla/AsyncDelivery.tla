--------------------------- MODULE AsyncDelivery ---------------------------
(***************************************************************************)
(* The load test async-delivery: each session is set up, its wallet leaves *)
(* and its dApp sends a request; after a pause a new client of the wallet  *)
(* resumes the session and must receive the request from the relay's       *)
(* history.                                                                *)
(***************************************************************************)
EXTENDS Naturals

CONSTANT Sessions  \* how many sessions the test sets up

VARIABLES
  phase,    \* how far the test is
  stage,    \* where each session's task is
  dapp,     \* each session's dApp client
  wallet,   \* the wallet's client: first the one of the setup, then the one that resumes
  kept,     \* the relay's history holds the session's request
  message,  \* the promise of the request: is anybody attached, has it settled
  outcome   \* what setup and recovery returned

vars == <<phase, stage, dapp, wallet, kept, message, outcome>>

Ids == 1 .. Sessions

Init ==
  /\ phase = "setup"
  /\ stage = [s \in Ids |-> "none"]
  /\ dapp = [s \in Ids |-> "off"]
  /\ wallet = [s \in Ids |-> "off"]
  /\ kept = [s \in Ids |-> FALSE]
  /\ message = [s \in Ids |-> "none"]
  /\ outcome = [s \in Ids |-> "none"]

To(s, at) == stage' = [stage EXCEPT ![s] = at]

-----------------------------------------------------------------------------
(* Setup *)

Start(s) ==
  /\ phase = "setup" /\ stage[s] = "none" /\ \A r \in 1 .. s - 1 : stage[r] # "none"
  /\ To(s, "requesting")
  /\ dapp' = [dapp EXCEPT ![s] = "open"]
  /\ UNCHANGED <<phase, wallet, kept, message, outcome>>

\* The dApp's request is there; the wallet connects, and from now on the dApp's
\* connect() is awaited with it.
Requested(s) ==
  /\ stage[s] = "requesting"
  /\ To(s, "pairing")
  /\ wallet' = [wallet EXCEPT ![s] = "open"]
  /\ UNCHANGED <<phase, dapp, kept, message, outcome>>

\* The dApp's connect() rejects while nobody awaits it, also after the setup has
\* given up waiting for its request: the process ends.
DappRejects(s) ==
  /\ stage[s] = "requesting" \/ outcome[s] = "not requested"
  /\ phase' = "dead"
  /\ UNCHANGED <<stage, dapp, wallet, kept, message, outcome>>

\* Both connect() have resolved.
Paired(s) ==
  /\ stage[s] = "pairing"
  /\ To(s, "parting")
  /\ UNCHANGED <<phase, dapp, wallet, kept, message, outcome>>

\* Only the wallet's transport is disconnected: its session stays stored.
Parted(s) ==
  /\ stage[s] = "parting"
  /\ To(s, "asking")
  /\ wallet' = [wallet EXCEPT ![s] = "gone"]
  /\ UNCHANGED <<phase, dapp, kept, message, outcome>>

\* The dApp's request is in the history; the setup has succeeded.
Asked(s) ==
  /\ stage[s] = "asking"
  /\ To(s, "ready")
  /\ kept' = [kept EXCEPT ![s] = TRUE]
  /\ UNCHANGED <<phase, dapp, wallet, message, outcome>>

\* Something throws: only the dApp disconnects.
SetupFails(s) ==
  /\ stage[s] \in {"requesting", "pairing", "parting", "asking"}
  /\ To(s, "over")
  /\ dapp' = [dapp EXCEPT ![s] = "closed"]
  /\ outcome' = [outcome EXCEPT ![s] = IF stage[s] = "requesting" THEN "not requested" ELSE "not set up"]
  /\ UNCHANGED <<phase, wallet, kept, message>>

\* Every task has returned and the pause is over; the history of a session may
\* have lost the request meanwhile.
Pause ==
  /\ phase = "setup" /\ \A s \in Ids : stage[s] \in {"ready", "over"}
  /\ phase' = "recovery"
  /\ \E lost \in SUBSET {s \in Ids : kept[s]} :
       kept' = [s \in Ids |-> kept[s] /\ s \notin lost]
  /\ UNCHANGED <<stage, dapp, wallet, message, outcome>>

-----------------------------------------------------------------------------
(* Recovery *)

\* A new client listens, under a timer, and resumes the session.
Recover(s) ==
  /\ phase = "recovery" /\ stage[s] = "ready"
  /\ \A r \in 1 .. s - 1 : stage[r] # "ready"
  /\ To(s, "resuming")
  /\ wallet' = [wallet EXCEPT ![s] = "open"]
  /\ message' = [message EXCEPT ![s] = "awaited"]
  /\ UNCHANGED <<phase, dapp, kept, outcome>>

\* The new client reads the history; that may be before resume() resolves.
Hears(s) ==
  /\ stage[s] \in {"resuming", "waiting"} /\ message[s] = "awaited"
  /\ kept[s] /\ wallet[s] = "open"
  /\ message' = [message EXCEPT ![s] = "received"]
  /\ UNCHANGED <<phase, stage, dapp, wallet, kept, outcome>>

Resumed(s) ==
  /\ stage[s] = "resuming"
  /\ To(s, "waiting")
  /\ UNCHANGED <<phase, dapp, wallet, kept, message, outcome>>

\* The timer rejects the promise; while resume() is pending nobody is attached
\* to it, and the process ends.
TimesOut(s) ==
  /\ stage[s] \in {"resuming", "waiting"} /\ message[s] = "awaited"
  /\ message' = [message EXCEPT ![s] = "late"]
  /\ phase' = IF stage[s] = "resuming" THEN "dead" ELSE phase
  /\ UNCHANGED <<stage, dapp, wallet, kept, outcome>>

\* The request is there: both clients disconnect, one after the other.
Succeeds(s) ==
  /\ stage[s] = "waiting" /\ message[s] = "received"
  /\ To(s, "closing")
  /\ UNCHANGED <<phase, dapp, wallet, kept, message, outcome>>

Closed(s) ==
  /\ stage[s] = "closing"
  /\ To(s, "over")
  /\ wallet' = [wallet EXCEPT ![s] = "closed"]
  /\ dapp' = [dapp EXCEPT ![s] = "closed"]
  /\ outcome' = [outcome EXCEPT ![s] = "received"]
  /\ UNCHANGED <<phase, kept, message>>

\* resume() throws, and has forgotten the session: disconnect() of the wallet
\* returns at once and leaves its transport as it is.
ResumeFails(s) ==
  /\ stage[s] = "resuming"
  /\ To(s, "over")
  /\ dapp' = [dapp EXCEPT ![s] = "closed"]
  /\ message' = [message EXCEPT ![s] = IF @ = "awaited" THEN "none" ELSE @]
  /\ outcome' = [outcome EXCEPT ![s] = "not resumed"]
  /\ UNCHANGED <<phase, wallet, kept>>

\* Mutation: the rejection is not caught.
GivesUpClosing(s) ==
  /\ stage[s] = "closing"
  /\ To(s, "over")
  /\ wallet' = [wallet EXCEPT ![s] = "closed"]
  /\ dapp' = [dapp EXCEPT ![s] = "closed"]
  /\ outcome' = [outcome EXCEPT ![s] = "not received"]
  /\ UNCHANGED <<phase, kept, message>>

\* The timer has rejected, or a disconnect() throws: both clients disconnect.
GivesUp(s) ==
  /\ \/ stage[s] = "closing"
     \/ stage[s] = "waiting" /\ message[s] = "late"
  /\ To(s, "over")
  /\ wallet' = [wallet EXCEPT ![s] = "closed"]
  /\ dapp' = [dapp EXCEPT ![s] = "closed"]
  /\ outcome' = [outcome EXCEPT ![s] = "not received"]
  /\ UNCHANGED <<phase, kept, message>>

\* Every recovery has returned; the result is written, the process exits.
Report ==
  /\ phase = "recovery" /\ \A s \in Ids : stage[s] = "over"
  /\ phase' = "done"
  /\ UNCHANGED <<stage, dapp, wallet, kept, message, outcome>>

-----------------------------------------------------------------------------
Running == phase \notin {"done", "dead"}

Step(s) ==
  \/ Start(s) \/ Requested(s) \/ DappRejects(s) \/ Paired(s) \/ Parted(s) \/ Asked(s) \/ SetupFails(s)
  \/ Recover(s) \/ Hears(s) \/ Resumed(s) \/ TimesOut(s) \/ Succeeds(s) \/ Closed(s)
  \/ ResumeFails(s) \/ GivesUp(s)

Next ==
  /\ Running
  /\ Pause \/ Report \/ \E s \in Ids : Step(s)

Control == Running /\ (Pause \/ Report)

\* What the relay cannot hold up: steps that wait for nobody, or have a timer; and
\* the rest of resume() once the new client has heard something, for then it is
\* subscribed.
Timed(s) ==
  /\ Running
  /\ \/ Start(s) \/ Requested(s) \/ Parted(s) \/ (stage[s] \in {"requesting", "parting"} /\ SetupFails(s))
     \/ Recover(s) \/ TimesOut(s) \/ (message[s] = "received" /\ Resumed(s))
     \/ Succeeds(s) \/ Closed(s) \/ GivesUp(s)

\* The setup awaits both connect(), or sendRequest(), and has no timer for them:
\* while the relay cannot be reached they need not settle.
Waits(s) == stage[s] \in {"pairing", "asking"}

\* The loops go on and timers run out; the relay owes nothing.
Fair == WF_vars(Control) /\ \A s \in Ids : WF_vars(Timed(s))

Spec == Init /\ [][Next]_vars /\ Fair

TypeOK ==
  /\ phase \in {"setup", "recovery", "done", "dead"}
  /\ stage \in [Ids -> {"none", "requesting", "pairing", "parting", "asking", "ready", "resuming", "waiting",
                        "closing", "over"}]
  /\ dapp \in [Ids -> {"off", "open", "closed"}]
  /\ wallet \in [Ids -> {"off", "open", "gone", "closed"}]
  /\ kept \in [Ids -> BOOLEAN]
  /\ message \in [Ids -> {"none", "awaited", "received", "late"}]
  /\ outcome \in [Ids -> {"none", "not requested", "not set up", "not resumed", "received", "not received"}]

\* When the test returns, disconnect() has reached every client but the wallet
\* of a session whose setup or whose resume() failed.
ClosedAtTheEnd ==
  phase = "done" => \A s \in Ids :
    /\ dapp[s] = "closed"
    /\ wallet[s] = "open" => outcome[s] \in {"not set up", "not resumed"}

\* The test returns a result: a request that does not come fails its session,
\* not the test.
Survives == phase # "dead"
=============================================================================
