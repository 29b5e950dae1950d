----------------------------- MODULE WalletApp -----------------------------
(***************************************************************************)
(* The wallet of rn-demo: a SessionManager with one WalletClient for each  *)
(* session, and the screens that call it.  Its clients are resumed at      *)
(* startup, all at once, made by scanning requests, and deleted, while the *)
(* list on the screen is read from the store after each change; that read  *)
(* deletes the records of sessions that have expired, whoever uses them.   *)
(*                                                                         *)
(* SessionStore, Lifecycle and Handshake have what goes on inside a client *)
(* and the store; here a call of theirs is what it begins and how it ends. *)
(***************************************************************************)
EXTENDS Naturals, Sequences, SequencesExt

CONSTANTS
  Requests,  \* the ids of session requests, and so of sessions
  MaxScans   \* bound: times one request is scanned

\* A client is for one session: the one resumed at startup, and one a scan.
WalletClients == Requests \X (0 .. MaxScans)
Nobody  == <<>>

VARIABLES
  phase,     \* of resumeAllClients(): resuming, over; or the provider is unmounted
  stored,    \* sessions that have a record
  at,        \* where each client is
  clients,   \* the Map: for each session its client
  expired,   \* sessions whose time is over
  lists,     \* reads of the list for the screen: none or one answer each, to be shown
  shown,     \* the list on the screen
  crossed,   \* history: a read was shown before one begun earlier, or failed
  twice,     \* history: sessions with a scan while another client of theirs was about
  hurt       \* history: sessions with a call that was rejected

vars == <<phase, stored, at, clients, expired, lists, shown, crossed, twice, hurt>>
screen  == <<lists, shown, crossed>>
history == <<twice, hurt>>

\* resuming, unresumed: at startup; scanned: until there is a session; offered,
\* saved: the handshake; open: usable; dropping: its own disconnect(); ending:
\* deleteClient()'s; over: without a session again.
Places == {"none", "resuming", "unresumed", "scanned", "offered", "saved", "open",
           "dropping", "ending", "over"}

Of(c)    == c[1]
About(s) == {c \in WalletClients : Of(c) = s /\ at[c] \notin {"none", "over"}}
Quiet(s) == \A c \in About(s) : at[c] = "open"

Init ==
  /\ phase = "resuming"
  /\ stored \in SUBSET Requests
  /\ at = [c \in WalletClients |-> IF c[2] = 0 /\ Of(c) \in stored THEN "resuming" ELSE "none"]
  /\ clients = [s \in Requests |-> Nobody]
  /\ expired = {}  \* SessionStore.create() and list() have deleted those that were
  /\ lists = <<>> /\ shown = {} /\ crossed = FALSE
  /\ twice = {} /\ hurt = {}

\* The listener of "sessions-changed": getAllSessions() begins.
Changed == lists' = Append(lists, {}) /\ UNCHANGED <<shown, crossed>>

\* The time of a session is over, thirty days after its request was scanned: a
\* request is good for a minute, so the sessions made of one expire as one.
Expire(s) ==
  /\ s \in stored \ expired
  /\ expired' = expired \union {s}
  /\ UNCHANGED <<phase, stored, at, clients, screen, history>>

-----------------------------------------------------------------------------
(* resumeAllClients() *)

Resumed(c) ==
  /\ at[c] = "resuming"
  /\ at' = [at EXCEPT ![c] = "open"]
  /\ clients' = [clients EXCEPT ![Of(c)] = c]
  /\ UNCHANGED <<phase, stored, expired, screen, history>>

\* resume() throws; if the session has expired, get() may have deleted its record.
ResumeFails(c) ==
  /\ at[c] = "resuming"
  /\ at' = [at EXCEPT ![c] = "unresumed"]
  /\ \/ UNCHANGED stored
     \/ Of(c) \in expired /\ stored' = stored \ {Of(c)}
  /\ UNCHANGED <<phase, clients, expired, screen, history>>

\* Mutation: the catch only logs.
ForgottenInMemory(c) ==
  /\ at[c] = "unresumed"
  /\ at' = [at EXCEPT ![c] = "over"]
  /\ UNCHANGED <<phase, stored, clients, expired, screen, history>>

Forgotten(c) ==
  /\ at[c] = "unresumed"
  /\ at' = [at EXCEPT ![c] = "over"]
  /\ stored' = stored \ {Of(c)}
  /\ UNCHANGED <<phase, clients, expired, screen, history>>

\* That delete() is rejected: Promise.all() is, with the others on their way.
ForgetFails(c) ==
  /\ at[c] = "unresumed"
  /\ at' = [at EXCEPT ![c] = "over"]
  /\ hurt' = hurt \union {Of(c)}
  /\ phase' = "over"
  /\ UNCHANGED <<stored, clients, expired, screen, twice>>

AllResumed ==
  /\ phase = "resuming"
  /\ \A c \in WalletClients : at[c] \notin {"resuming", "unresumed"}
  /\ phase' = "over"
  /\ UNCHANGED <<stored, at, clients, expired, history>>
  /\ Changed

-----------------------------------------------------------------------------
(* createClientForSession() *)

\* A request is scanned: nobody looks whether its session exists already, and a
\* scanner that is left does not stop the connect() it has begun.
Scan(c) ==
  /\ phase # "unmounted"
  /\ c[2] > 0 /\ at[c] = "none"
  /\ c[2] > 1 => at[<<Of(c), c[2] - 1>>] # "none"
  /\ at' = [at EXCEPT ![c] = "scanned"]
  /\ twice' = IF About(Of(c)) # {} \/ clients[Of(c)] # Nobody \/ Of(c) \in stored
              THEN twice \union {Of(c)} ELSE twice
  /\ UNCHANGED <<phase, stored, clients, expired, screen, hurt>>

\* connect() of the client: its session is in memory, its offer on the way.  It
\* refuses a request whose session has expired, as that has long before.
Offered(c) ==
  /\ at[c] = "scanned" /\ Of(c) \notin expired
  /\ at' = [at EXCEPT ![c] = "offered"]
  /\ UNCHANGED <<phase, stored, clients, expired, screen, history>>

\* The store refuses an expired session.
Saved(c) ==
  /\ at[c] = "offered" /\ Of(c) \notin expired
  /\ at' = [at EXCEPT ![c] = "saved"]
  /\ stored' = stored \union {Of(c)}
  /\ UNCHANGED <<phase, clients, expired, screen, history>>

\* Mutation: the list is not read again.
PairedUnseen(c) ==
  /\ at[c] = "saved"
  /\ at' = [at EXCEPT ![c] = "open"]
  /\ clients' = [clients EXCEPT ![Of(c)] = c]
  /\ UNCHANGED <<phase, stored, expired, screen, history>>

\* connect() is back: only now the client is in the map.
Paired(c) ==
  /\ at[c] = "saved"
  /\ at' = [at EXCEPT ![c] = "open"]
  /\ clients' = [clients EXCEPT ![Of(c)] = c]
  /\ UNCHANGED <<phase, stored, expired, history>>
  /\ Changed

\* connect() rejects: at once without a session, else after disconnect().  The
\* screen is told nothing, be the record there already (only a rejection of the
\* store makes it fail that late), and a scan of the same request may follow.
PairingFails(c) ==
  /\ at[c] \in {"scanned", "offered", "saved"}
  /\ at' = [at EXCEPT ![c] = IF @ = "scanned" THEN "over" ELSE "dropping"]
  /\ hurt' = IF at[c] = "saved" THEN hurt \union {Of(c)} ELSE hurt
  /\ UNCHANGED <<phase, stored, clients, expired, screen, twice>>

-----------------------------------------------------------------------------
(* The end of a client *)

\* A session found expired as its client sends: the client disconnects, and the
\* manager, which does not listen for "disconnected", keeps it.
Expires(c) ==
  /\ at[c] = "open" /\ Of(c) \in expired
  /\ at' = [at EXCEPT ![c] = "dropping"]
  /\ UNCHANGED <<phase, stored, clients, expired, screen, history>>

\* The end of disconnect(): whoever's record it is by now.
Dropped(c) ==
  /\ at[c] = "dropping"
  /\ at' = [at EXCEPT ![c] = "over"]
  /\ stored' = stored \ {Of(c)}
  /\ UNCHANGED <<phase, clients, expired, screen, history>>

DropFails(c) ==
  /\ at[c] = "dropping"
  /\ at' = [at EXCEPT ![c] = "over"]
  /\ hurt' = hurt \union {Of(c)}
  /\ UNCHANGED <<phase, stored, clients, expired, screen, twice>>
-----------------------------------------------------------------------------
(* deleteClient(), deleteAllClients() *)

\* Of the clients of the sessions S, which the map has: disconnect() begins where
\* there is a session in memory; where there is none it is over at once, the
\* client out of the map, and the record stays if there still is one.
Delete(S) ==
  LET ends == {clients[s] : s \in S}
      gone == {s \in S : at[clients[s]] # "open"}
  IN  /\ at' = [c \in WalletClients |-> IF c \in ends /\ at[c] = "open" THEN "ending" ELSE at[c]]
      /\ clients' = [s \in Requests |-> IF s \in gone THEN Nobody ELSE clients[s]]
      /\ UNCHANGED <<stored, expired>>
      /\ IF gone = {} THEN UNCHANGED screen ELSE Changed

Kept == {s \in Requests : clients[s] # Nobody}

\* The buttons of the two screens, for a session on the list.
HandleDelete(s) ==
  /\ phase # "unmounted"
  /\ s \in shown \intersect Kept
  /\ Delete({s})
  /\ UNCHANGED <<phase, history>>

HandleClearAll ==
  /\ phase # "unmounted"
  /\ Delete(Kept)
  /\ UNCHANGED <<phase, history>>

\* The provider is unmounted: clients that are not in the map yet go on.
Unmount ==
  /\ phase # "unmounted"
  /\ phase' = "unmounted"
  /\ Delete(Kept)
  /\ UNCHANGED history

\* disconnect() is back: whichever client the map has for the session goes.
Ended(c) ==
  /\ at[c] = "ending"
  /\ at' = [at EXCEPT ![c] = "over"]
  /\ stored' = stored \ {Of(c)}
  /\ clients' = [clients EXCEPT ![Of(c)] = Nobody]
  /\ UNCHANGED <<phase, expired, history>>
  /\ Changed

\* It rejects, before the record is gone: the map keeps a client without session.
EndFails(c) ==
  /\ at[c] = "ending"
  /\ at' = [at EXCEPT ![c] = "over"]
  /\ hurt' = hurt \union {Of(c)}
  /\ UNCHANGED <<phase, stored, clients, expired, screen, twice>>

-----------------------------------------------------------------------------
(* The list on the screen *)

\* list() gets the records, one by one, and get() deletes those that have expired.
\* One step: what is saved or deleted as it walks is followed by another read.
Read(i) ==
  /\ i \in DOMAIN lists /\ lists[i] = {}
  /\ stored' = stored \ expired
  /\ lists' = [lists EXCEPT ![i] = {stored'}]
  /\ UNCHANGED <<phase, at, clients, expired, shown, crossed, history>>

\* It rejects, with some of them deleted: the screen stays what it is.
ReadFails(i) ==
  /\ i \in DOMAIN lists /\ lists[i] = {}
  /\ \E gone \in SUBSET expired : stored' = stored \ gone
  /\ lists' = RemoveAt(lists, i)
  /\ crossed' = TRUE
  /\ UNCHANGED <<phase, at, clients, expired, shown, history>>

\* A list is there, perhaps before one that was begun earlier.
Show(i) ==
  /\ i \in DOMAIN lists /\ shown' \in lists[i]
  /\ lists' = RemoveAt(lists, i)
  /\ crossed' = (crossed \/ i > 1)
  /\ UNCHANGED <<phase, stored, at, clients, expired, history>>

Client(c) ==
  \/ Resumed(c) \/ ResumeFails(c) \/ Forgotten(c) \/ ForgetFails(c)
  \/ Scan(c) \/ Offered(c) \/ Saved(c) \/ Paired(c) \/ PairingFails(c)
  \/ Expires(c) \/ Dropped(c) \/ DropFails(c) \/ Ended(c) \/ EndFails(c)

Next ==
  \/ AllResumed \/ HandleClearAll \/ Unmount
  \/ \E c \in WalletClients : Client(c)
  \/ \E s \in Requests : HandleDelete(s) \/ Expire(s)
  \/ \E i \in DOMAIN lists : Read(i) \/ ReadFails(i) \/ Show(i)

Spec == Init /\ [][Next]_vars

-----------------------------------------------------------------------------
\* Only clients whose connect() or resume() has succeeded are ever in the map.
TypeOK ==
  /\ phase \in {"resuming", "over", "unmounted"}
  /\ stored \subseteq Requests
  /\ at \in [WalletClients -> Places]
  /\ clients \in [Requests -> WalletClients \union {Nobody}]
  /\ \A s \in Kept : Of(clients[s]) = s
                      /\ at[clients[s]] \in {"open", "dropping", "ending", "over"}
  /\ expired \subseteq Requests
  /\ lists \in Seq(SUBSET SUBSET Requests) /\ shown \subseteq Requests
  /\ crossed \in BOOLEAN
  /\ twice \subseteq Requests /\ hurt \subseteq Requests

Plain == Requests \ (twice \union hurt)

\* "Manages all active WalletClient sessions" (SessionManager): when nothing is
\* under way for a session that has a record, the map has a client for it, and
\* that client is usable, so that the user can answer on it and end it; and of a
\* session in the map the record is there until the session has expired.  (Then
\* whatever read of the list comes next deletes it, and the client stays.)  So it
\* is through every order of resuming, scanning, failing, scanning again, reading
\* lists, deleting and unmounting, as long as a request is not scanned over a
\* client of its own (twice) and no call for the session is rejected (hurt).
Managed ==
  \A s \in Plain : Quiet(s) =>
    /\ s \in stored => s \in Kept /\ at[clients[s]] = "open"
    /\ s \in Kept => s \in stored \/ s \in expired

\* When all is quiet the screen shows of the sessions whose time is not over those
\* the store has, as long as reads of the list neither fail nor end out of order
\* (crossed), no request is scanned over a client of its own and no call rejected.
ShownIsStored ==
  phase = "over" /\ lists = <<>> /\ ~ crossed /\ Plain = Requests
    /\ (\A s \in Requests : Quiet(s)) => shown \ expired = stored \ expired
=============================================================================
