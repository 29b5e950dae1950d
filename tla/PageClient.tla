----------------------------- MODULE PageClient -----------------------------
(***************************************************************************)
(* The dApp's client as a page of the web demo uses it: what its calls and *)
(* its events do to its state.  Handshake and Lifecycle model it in full.  *)
(* disconnect() changes the state at once and emits "disconnected" only    *)
(* when the transport and the stores are done: its tail.                   *)
(***************************************************************************)
EXTENDS Naturals

CONSTANT MaxAttempts  \* bound: connect() calls that begin an attempt

VARIABLE
  client  \* its state, its last attempt, who has called the disconnect() whose tail
          \* is to do, and history: an attempt has begun during such a tail, a
          \* disconnect() has thrown

Callers == {"nobody", "connect", "send", "button"}
States == {"resuming", "disconnected", "connecting", "offered", "connected"}

\* A stored session is resumed when the page is mounted.
ClientInit ==
  client \in [state : {"resuming", "disconnected"}, attempt : {0}, tail : {"nobody"},
             crossed : {FALSE}, thrown : {FALSE}]

ClientType ==
  client \in [state : States, attempt : 0 .. MaxAttempts, tail : Callers,
             crossed : BOOLEAN, thrown : BOOLEAN]

Goes(s) == client' = [client EXCEPT !.state = s]

\* connect() begins an attempt and emits "session_request"; in any other state
\* it rejects.
Begins ==
  /\ client.state = "disconnected" /\ client.attempt < MaxAttempts
  /\ client' = [client EXCEPT !.state = "connecting", !.attempt = @ + 1,
                              !.crossed = @ \/ client.tail # "nobody"]

\* disconnect() of a client with a session, called by the client's own connect()
\* or sendRequest(), or by a button.  A second one begins only when the first is
\* done.
Ends(caller) ==
  /\ client.state \in {"connecting", "offered", "connected"} /\ client.tail = "nobody"
  /\ client' = [client EXCEPT !.state = "disconnected", !.tail = caller]

\* The transport and the stores are done: "disconnected" is emitted.
TailEnds ==
  /\ client.tail # "nobody"
  /\ client' = [client EXCEPT !.tail = "nobody"]

\* One of them throws.
TailThrows ==
  /\ client.tail # "nobody"
  /\ client' = [client EXCEPT !.tail = "nobody", !.thrown = TRUE]

\* What a page shows is so, unless an attempt has begun before an earlier
\* disconnect() was done or a disconnect() has thrown: it says connected when the
\* client is, until a disconnect() is done, and the request it shows is that of
\* the attempt under way.
Shows(connected, request) ==
  ~client.crossed /\ ~client.thrown =>
    /\ client.state = "connected" => connected
    /\ connected => client.state = "connected" \/ client.tail # "nobody"
    /\ request # 0 =>
         /\ request = client.attempt
         /\ client.state # "disconnected" \/ client.tail # "nobody"
=============================================================================
