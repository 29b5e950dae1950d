---------------------------- MODULE SessionStore ----------------------------
(***************************************************************************)
(* SessionStore on an asynchronous key-value store: one record per session *)
(* and one master list of ids.  Nothing spans two keys atomically; a mutex *)
(* serialises the read-modify-write of the master list, and nothing else.  *)
(*                                                                         *)
(* A step is one call of the key-value store together with the code up to  *)
(* the next await.  Calls overlap; the process may die between two steps,  *)
(* and a call of the key-value store may reject.                           *)
(***************************************************************************)
EXTENDS Naturals, Sequences

CONSTANTS
  Ids,         \* session ids
  Callers,     \* concurrent users of the store: clients and their handlers
  KvFails,     \* may the key-value store reject?
  MayCrash     \* may the process die?

ASSUME IdsAssumption == Ids # {} /\ Ids \intersect Callers = {}

VARIABLES
  rec,      \* the record under "session:<id>"
  master,   \* ids in "sessions:master-list", which never repeats one
  lock,     \* the mutex: its holder, then the callers waiting, in order
  task,     \* the call each caller, and garbage collection of each id, is in
  phase,    \* create(): start, gc, up; or failed
  saved,    \* history: ids a set() saved and nothing has begun to remove since
  hurt      \* history: the key-value store rejected, or the process died

vars == <<rec, master, lock, task, phase, saved, hurt>>

Procs   == Callers \union Ids   \* an id stands for garbageCollect's get(id)
Records == {"none", "live", "expired", "corrupt"}
Ops     == {"none", "set", "get", "list", "delete"}
Steps   == {"idle", "put", "ids", "look", "erase", "read", "write"}
AnId    == CHOOSE i \in Ids : TRUE

\* ids: what list() has still to get; view: the master list as read under the
\* mutex; again: a rejection leads to a second delete.
\* History: found, the sessions list() has; must, those it may not miss; clean,
\* nothing removed the id since this set() began.
Idle == [op |-> "none", pc |-> "idle", id |-> AnId, ids |-> {}, view |-> {},
         again |-> FALSE, found |-> {}, must |-> {}, clean |-> FALSE]

Begin(op, pc, id) == [Idle EXCEPT !.op = op, !.pc = pc, !.id = id]
Adding(t)    == t.op = "set"
InDelete(t)  == ~ Adding(t) /\ t.pc \in {"erase", "read", "write"}
Removing(i)  == \E p \in Procs : InDelete(task[p]) /\ task[p].id = i
Holds(p)     == lock # <<>> /\ Head(lock) = p
Collecting(f) == \E i \in Ids : f[i].pc # "idle"

\* A removal of session i begins: what was promised about i no longer is.
Doubt(f, i) == [p \in Procs |->
  [f[p] EXCEPT !.must = @ \ {i}, !.clean = @ /\ f[p].id # i]]

\* The call has dealt with its id: list() goes on, everything else returns.
After(t) == IF t.ids = {} THEN Idle ELSE [t EXCEPT !.pc = "look", !.again = FALSE]

\* create() returns once every get of garbageCollect has.
Phase(f) == IF phase = "gc" /\ ~ Collecting(f) THEN "up" ELSE phase

Init ==
  /\ rec \in [Ids -> Records]
  /\ master = {i \in Ids : rec[i] # "none"}
  /\ lock = <<>>
  /\ task = [p \in Procs |-> Idle]
  /\ phase = "start"
  /\ saved = {i \in Ids : rec[i] = "live"}
  /\ hurt = FALSE

-----------------------------------------------------------------------------
(* Calls *)

\* Mutation: create() does not wait for the collection.
GarbageCollectLater ==
  /\ phase = "start"
  /\ phase' = "up"
  /\ task' = [p \in Procs |-> IF p \in master THEN Begin("get", "look", p) ELSE task[p]]
  /\ UNCHANGED <<rec, master, lock, saved, hurt>>

\* garbageCollect(): reads the master list, then gets every id at once.
GarbageCollect ==
  /\ phase = "start"
  /\ phase' = IF master = {} THEN "up" ELSE "gc"
  /\ task' = [p \in Procs |-> IF p \in master THEN Begin("get", "look", p) ELSE task[p]]
  /\ UNCHANGED <<rec, master, lock, saved, hurt>>

Call(p) ==
  /\ phase = "up"
  /\ task[p].pc = "idle"
  /\ UNCHANGED <<rec, master, lock, phase, hurt>>

\* set() of a session that has not expired.
Set(p, i) ==
  /\ Call(p)
  /\ task' = [task EXCEPT ![p] = [Begin("set", "put", i) EXCEPT !.clean = ~ Removing(i)]]
  /\ UNCHANGED saved

Get(p, i) ==
  /\ Call(p)
  /\ task' = [task EXCEPT ![p] = Begin("get", "look", i)]
  /\ UNCHANGED saved

List(p) ==
  /\ Call(p)
  /\ task' = [task EXCEPT ![p] = Begin("list", "ids", AnId)]
  /\ UNCHANGED saved

Delete(p, i) ==
  /\ Call(p)
  /\ task' = Doubt([task EXCEPT ![p] = Begin("delete", "erase", i)], i)
  /\ saved' = saved \ {i}

-----------------------------------------------------------------------------
(* Steps of a call *)

\* set(): the record is written, then the mutex is asked for.
Put(p) ==
  /\ task[p].pc = "put"
  /\ rec' = [rec EXCEPT ![task[p].id] = "live"]
  /\ task' = [task EXCEPT ![p].pc = "read"]
  /\ lock' = Append(lock, p)
  /\ UNCHANGED <<master, phase, saved, hurt>>

\* Mutation: list() begins with the second id.
ReadIdsButOne(p) ==
  /\ task[p].pc = "ids"
  /\ task' = [task EXCEPT ![p] =
       After([@ EXCEPT !.ids = master \ {AnId}, !.must = saved])]
  /\ UNCHANGED <<rec, master, lock, phase, saved, hurt>>

\* list(): the ids, then one get() after the other.
ReadIds(p) ==
  /\ task[p].pc = "ids"
  /\ task' = [task EXCEPT ![p] = After([@ EXCEPT !.ids = master, !.must = saved])]
  /\ UNCHANGED <<rec, master, lock, phase, saved, hurt>>

\* get(): a missing or a live record is returned; an expired or unreadable one
\* is deleted first.
Look(p) ==
  /\ task[p].pc = "look"
  /\ \E i \in IF task[p].op = "list" THEN task[p].ids ELSE {task[p].id} :
       LET t == [task[p] EXCEPT !.id = i, !.ids = @ \ {i}]
       IN  \/ /\ rec[i] \in {"none", "live"}
              /\ task' = [task EXCEPT ![p] = After(
                   [t EXCEPT !.found = IF rec[i] = "live" THEN @ \union {i} ELSE @])]
              /\ UNCHANGED saved
           \/ /\ rec[i] \in {"expired", "corrupt"}
              /\ task' = Doubt([task EXCEPT ![p] =
                   [t EXCEPT !.pc = "erase", !.again = rec[i] = "expired"]], i)
              /\ saved' = saved \ {i}
  /\ phase' = Phase(task')
  /\ UNCHANGED <<rec, master, lock, hurt>>

\* delete(): the record goes, then the mutex is asked for.
Erase(p) ==
  /\ task[p].pc = "erase"
  /\ rec' = [rec EXCEPT ![task[p].id] = "none"]
  /\ task' = [task EXCEPT ![p].pc = "read"]
  /\ lock' = Append(lock, p)
  /\ UNCHANGED <<master, phase, saved, hurt>>

\* The call is over with its id; a set() that nothing disturbed has saved it.
Finish(p) ==
  /\ lock' = Tail(lock)
  /\ task' = [task EXCEPT ![p] = After(@)]
  /\ saved' = IF task[p].clean THEN saved \union {task[p].id} ELSE saved
  /\ phase' = Phase(task')

\* Mutation: no mutex.
ReadListAnyTime(p) ==
  /\ task[p].pc = "read"
  /\ task' = [task EXCEPT ![p].pc = "write", ![p].view = master]
  /\ UNCHANGED <<rec, master, lock, saved, phase, hurt>>

\* Inside runExclusive: the list is read.
ReadList(p) ==
  /\ task[p].pc = "read"
  /\ Holds(p)
  /\ IF Adding(task[p]) /\ task[p].id \in master
     THEN Finish(p)
     ELSE /\ task' = [task EXCEPT ![p].pc = "write", ![p].view = master]
          /\ UNCHANGED <<lock, saved, phase>>
  /\ UNCHANGED <<rec, master, hurt>>

\* Mutation: delete() keeps the id.
WrittenListKept(t) == t.view \union {t.id}

WrittenList(t) == IF Adding(t) THEN t.view \union {t.id} ELSE t.view \ {t.id}

\* ... and the list as read, changed by one id, is written back.
WriteList(p) ==
  /\ task[p].pc = "write"
  /\ Holds(p)
  /\ master' = WrittenList(task[p])
  /\ Finish(p)
  /\ UNCHANGED <<rec, hurt>>

\* Mutation: a rejection leaves the mutex taken.
RejectHolding(p) ==
  /\ KvFails
  /\ task[p].pc # "idle"
  /\ task[p].pc \in {"read", "write"} => Holds(p)
  /\ task' = [task EXCEPT ![p] = Idle]
  /\ UNCHANGED <<rec, master, lock, phase, saved, hurt>>

\* The key-value store rejects, a write after or before it took effect.  The
\* mutex is released.  A get() whose delete() of an expired session rejects
\* deletes once more; otherwise the call rejects, and create() with it.
Reject(p) ==
  /\ KvFails
  /\ task[p].pc # "idle"
  /\ task[p].pc \in {"read", "write"} => Holds(p)
  /\ lock' = IF task[p].pc \in {"read", "write"} THEN Tail(lock) ELSE lock
  /\ rec' \in {rec} \union
       (IF task[p].pc = "put" THEN {[rec EXCEPT ![task[p].id] = "live"]}
        ELSE IF task[p].pc = "erase" THEN {[rec EXCEPT ![task[p].id] = "none"]} ELSE {})
  /\ master' \in {master} \union
       (IF task[p].pc = "write" THEN {WrittenList(task[p])} ELSE {})
  /\ IF task[p].again
     THEN /\ task' = [task EXCEPT ![p].pc = "erase", ![p].again = FALSE]
          /\ UNCHANGED phase
     ELSE /\ task' = [task EXCEPT ![p] = Idle]
          /\ phase' = IF phase = "gc" /\ p \in Ids THEN "failed" ELSE phase
  /\ hurt' = TRUE
  /\ UNCHANGED saved

-----------------------------------------------------------------------------
(* The environment *)

\* A session reaches its expiresAt.
Expire(i) ==
  /\ rec[i] = "live"
  /\ rec' = [rec EXCEPT ![i] = "expired"]
  /\ UNCHANGED <<master, lock, task, phase, saved, hurt>>

\* The process dies, or create() failed, and the store is created anew.
Crash ==
  /\ MayCrash \/ phase = "failed"
  /\ lock' = <<>>
  /\ task' = [p \in Procs |-> Idle]
  /\ phase' = "start"
  /\ hurt' = TRUE
  /\ UNCHANGED <<rec, master, saved>>

Step(p) ==
  Put(p) \/ ReadIds(p) \/ Look(p) \/ Erase(p) \/ ReadList(p) \/ WriteList(p) \/ Reject(p)

Next ==
  \/ GarbageCollect
  \/ \E p \in Callers : List(p) \/ \E i \in Ids : Set(p, i) \/ Get(p, i) \/ Delete(p, i)
  \/ \E p \in Procs : Step(p)
  \/ \E i \in Ids : Expire(i)
  \/ Crash

Spec == Init /\ [][Next]_vars

\* Calls of the key-value store settle, and the mutex is first come, first
\* served.
FairSpec == Spec /\ WF_vars(GarbageCollect) /\ \A p \in Procs : WF_vars(Step(p))

-----------------------------------------------------------------------------
Task == [op : Ops, pc : Steps, id : Ids, ids : SUBSET Ids, view : SUBSET Ids,
         again : BOOLEAN, found : SUBSET Ids, must : SUBSET Ids, clean : BOOLEAN]

StoreTypes ==
  /\ rec \in [Ids -> Records]
  /\ master \subseteq Ids
  /\ lock \in Seq(Procs)
  /\ task \in [Procs -> Task]
  /\ phase \in {"start", "gc", "up", "failed"}
  /\ saved \subseteq Ids

TypeOK == StoreTypes /\ hurt \in BOOLEAN

\* A session whose set() completed, and which nothing has begun to remove, has
\* its record and is in the master list, however many other calls overlap and
\* wherever the process died ("should not lose entries when multiple sessions
\* are set concurrently", for every interleaving, rejection and restart).
NoLostEntry == \A i \in saved : rec[i] # "none" /\ i \in master

\* list() misses no session that was saved when it began and that nothing has
\* begun to remove since: the ids it has still to get cover what it has not
\* found.
ListIsComplete ==
  \A p \in Procs : task[p].op = "list" => task[p].must \subseteq task[p].found \union task[p].ids

\* What makes both inductive: only the holder of the mutex is about to write,
\* and what it read is still the list; a set() that nothing disturbed has its
\* record by the time it waits for the mutex; a removal in progress is of a
\* session nobody counts on; what list() may not miss is still saved.
OnlyHolderWrites ==
  \A p \in Procs : task[p].pc = "write" => Holds(p) /\ task[p].view = master
CallShape ==
  \A p \in Procs :
    /\ task[p].op = "set" => /\ task[p].pc \in {"put", "read", "write"}
                             /\ ~ task[p].again /\ task[p].ids = {}
    /\ task[p].pc = "put" => task[p].op = "set"
    /\ task[p].again => InDelete(task[p])
CleanHasRecord ==
  \A p \in Procs : task[p].clean =>
    /\ task[p].op = "set"
    /\ ~ Removing(task[p].id)
    /\ task[p].pc \in {"read", "write"} => rec[task[p].id] # "none"
RemovedIsNotSaved ==
  \A p \in Procs : InDelete(task[p]) => task[p].id \notin saved
MustIsSaved ==
  \A p \in Procs : task[p].must \subseteq saved

StoreInv ==
  /\ OnlyHolderWrites
  /\ CallShape
  /\ CleanHasRecord
  /\ RemovedIsNotSaved
  /\ MustIsSaved
  /\ NoLostEntry
  /\ ListIsComplete

\* create() hands out the store only after garbageCollect deleted what could
\* not be read: an unreadable record does not survive into use.
UsedAfterGc == phase = "up" => \A i \in Ids : rec[i] # "corrupt"

AtRest == phase = "up" /\ \A p \in Procs : task[p].pc = "idle"

\* While nothing fails, set() and delete() of one session may overlap in every
\* order and still leave list and records in agreement: the mutex grants its
\* turns in the order the records were written (addToMasterList,
\* removeFromMasterList).
ListMatchesRecords == AtRest /\ ~ hurt => master = {i \in Ids : rec[i] # "none"}

\* "Lists all active sessions" (ISessionStore.list): at rest, every session
\* that get() would return is in the master list that list() walks.
ActiveIsListed == AtRest => \A i \in Ids : rec[i] = "live" => i \in master

\* Every call returns, whatever it waits for on the mutex; so does create(),
\* unless the process dies again and again.
CallsReturn ==
  /\ \A p \in Callers : task[p].pc # "idle" ~> task[p].pc = "idle"
  /\ (phase \in {"start", "gc"} ~> phase \in {"up", "failed"}) \/ []<><<Crash>>_vars
=============================================================================
