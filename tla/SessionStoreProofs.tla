------------------------- MODULE SessionStoreProofs -------------------------
(***************************************************************************)
(* Proofs about SessionStore, for every set of ids and of callers: types,  *)
(* that overlapping calls, rejections and restarts lose no session, that   *)
(* the collection leaves nothing unreadable, and that list and records     *)
(* agree at rest.                                                          *)
(***************************************************************************)
EXTENDS SessionStore, TLAPS

\* There is a session to speak of.
LEMMA AnIdType == ASSUME NEW i \in Ids PROVE AnId \in Ids
  BY DEF AnId

LEMMA IdleType ==
  /\ Idle \in Task
  /\ Idle.op = "none" /\ Idle.pc = "idle" /\ ~ Idle.again /\ ~ Idle.clean
  /\ Idle.must = {} /\ Idle.ids = {} /\ Idle.found = {}
  BY AnIdType, IdsAssumption DEF Idle, Task, Ops, Steps

LEMMA BeginType ==
  ASSUME NEW op \in Ops, NEW pc \in Steps, NEW i \in Ids
  PROVE  LET t == Begin(op, pc, i)
         IN  /\ t \in Task
             /\ t.op = op /\ t.pc = pc /\ t.id = i
             /\ ~ t.again /\ ~ t.clean /\ t.must = {} /\ t.ids = {} /\ t.found = {}
  <1>1. Idle \in Task
    BY IdleType
  <1> QED
    BY <1>1 DEF Begin, Idle, Task

\* A call that is done with its id returns or goes on with the next one.
LEMMA AfterType ==
  ASSUME NEW t \in Task
  PROVE  /\ After(t) \in Task
         /\ \/ t.ids = {} /\ After(t) = Idle
            \/ /\ t.ids # {}
               /\ After(t).op = t.op /\ After(t).pc = "look" /\ After(t).id = t.id
               /\ After(t).ids = t.ids /\ After(t).found = t.found
               /\ After(t).must = t.must /\ After(t).clean = t.clean
               /\ ~ After(t).again
  <1>1. CASE t.ids = {}
    BY <1>1, IdleType DEF After
  <1>2. CASE t.ids # {}
    BY <1>2 DEF After, Task, Steps
  <1> QED
    BY <1>1, <1>2

\* A doubt about i changes what is promised about i, in every call.
StillPromised(t, u, i) ==
  /\ u.op = t.op /\ u.pc = t.pc /\ u.id = t.id
  /\ u.ids = t.ids /\ u.view = t.view
  /\ u.again = t.again /\ u.found = t.found
  /\ u.must = t.must \ {i}
  /\ u.clean => t.clean /\ t.id # i

LEMMA DoubtType ==
  ASSUME NEW f \in [Procs -> Task], NEW i \in Ids
  PROVE  /\ Doubt(f, i) \in [Procs -> Task]
         /\ \A p \in Procs : StillPromised(f[p], Doubt(f, i)[p], i)
  <1> DEFINE new(t) == [t EXCEPT !.must = @ \ {i}, !.clean = @ /\ t.id # i]
  <1>1. \A t \in Task : new(t) \in Task /\ StillPromised(t, new(t), i)
    BY DEF Task, StillPromised
  <1>2. Doubt(f, i) = [p \in Procs |-> new(f[p])]
    BY DEF Doubt
  <1> HIDE DEF new
  <1> QED
    BY <1>1, <1>2

-----------------------------------------------------------------------------
(* Types *)

LEMMA SeqTail ==
  ASSUME NEW S, NEW q \in Seq(S), q # <<>>
  PROVE  Tail(q) \in Seq(S) /\ Head(q) \in S
  OBVIOUS

LEMMA FieldTypes ==
  ASSUME NEW t \in Task
  PROVE  /\ t.id \in Ids /\ t.ids \subseteq Ids /\ t.view \subseteq Ids
         /\ t.found \subseteq Ids /\ t.must \subseteq Ids
         /\ t.op \in Ops /\ t.pc \in Steps
         /\ WrittenList(t) \subseteq Ids
  BY DEF Task, WrittenList

LEMMA PhaseType ==
  ASSUME StoreTypes, NEW f
  PROVE  Phase(f) \in {"start", "gc", "up", "failed"}
  BY DEF Phase, StoreTypes

\* Updating one call.
LEMMA OneTask ==
  ASSUME StoreTypes, NEW p \in Procs, NEW t \in Task
  PROVE  LET f == [task EXCEPT ![p] = t]
         IN  /\ f \in [Procs -> Task]
             /\ f[p] = t
             /\ \A q \in Procs \ {p} : f[q] = task[q]
  BY DEF StoreTypes

LEMMA TypeInit == Init => StoreTypes
  <1> SUFFICES ASSUME Init PROVE StoreTypes
    OBVIOUS
  <1>1. task \in [Procs -> Task]
    BY IdleType DEF Init
  <1>2. lock \in Seq(Procs)
    BY DEF Init
  <1> QED
    BY <1>1, <1>2 DEF Init, StoreTypes

\* The calls whose own record changes by a named field.
LEMMA StepTo ==
  ASSUME NEW t \in Task, NEW pc \in Steps
  PROVE  LET u == [t EXCEPT !.pc = pc]
         IN  /\ u \in Task /\ u.pc = pc
             /\ u.op = t.op /\ u.id = t.id /\ u.ids = t.ids /\ u.view = t.view
             /\ u.again = t.again /\ u.found = t.found /\ u.must = t.must /\ u.clean = t.clean
  BY DEF Task

LEMMA TakeView ==
  ASSUME NEW t \in Task, NEW v \in SUBSET Ids
  PROVE  LET u == [t EXCEPT !.pc = "write", !.view = v]
         IN  /\ u \in Task /\ u.pc = "write" /\ u.view = v
             /\ u.op = t.op /\ u.id = t.id /\ u.ids = t.ids
             /\ u.again = t.again /\ u.found = t.found /\ u.must = t.must /\ u.clean = t.clean
  BY DEF Task, Steps

LEMMA TakeIds ==
  ASSUME NEW t \in Task, NEW v \in SUBSET Ids, NEW m \in SUBSET Ids
  PROVE  LET u == [t EXCEPT !.ids = v, !.must = m]
         IN  /\ u \in Task /\ u.ids = v /\ u.must = m
             /\ u.op = t.op /\ u.pc = t.pc /\ u.id = t.id /\ u.view = t.view
             /\ u.again = t.again /\ u.found = t.found /\ u.clean = t.clean
  BY DEF Task

\* get(i), also as list()'s next one, when the record is there or missing ...
LEMMA LookFound ==
  ASSUME NEW t \in Task, NEW i \in Ids, NEW g \in SUBSET Ids
  PROVE  LET u == [[t EXCEPT !.id = i, !.ids = @ \ {i}] EXCEPT !.found = g]
         IN  /\ u \in Task /\ u.id = i /\ u.ids = t.ids \ {i} /\ u.found = g
             /\ u.op = t.op /\ u.pc = t.pc /\ u.view = t.view
             /\ u.again = t.again /\ u.must = t.must /\ u.clean = t.clean
  BY DEF Task

\* ... and when it has to be deleted.
LEMMA LookStale ==
  ASSUME NEW t \in Task, NEW i \in Ids, NEW b \in BOOLEAN
  PROVE  LET u == [[t EXCEPT !.id = i, !.ids = @ \ {i}] EXCEPT !.pc = "erase", !.again = b]
         IN  /\ u \in Task /\ u.id = i /\ u.ids = t.ids \ {i} /\ u.pc = "erase"
             /\ u.again = b /\ u.op = t.op /\ u.view = t.view
             /\ u.found = t.found /\ u.must = t.must /\ u.clean = t.clean
  BY DEF Task, Steps

LEMMA EraseAgain ==
  ASSUME NEW t \in Task
  PROVE  LET u == [t EXCEPT !.pc = "erase", !.again = FALSE]
         IN  /\ u \in Task /\ u.pc = "erase" /\ ~ u.again
             /\ u.op = t.op /\ u.id = t.id /\ u.ids = t.ids /\ u.view = t.view
             /\ u.found = t.found /\ u.must = t.must /\ u.clean = t.clean
  BY DEF Task, Steps

LEMMA BeginSet ==
  ASSUME NEW i \in Ids, NEW b \in BOOLEAN
  PROVE  LET u == [Begin("set", "put", i) EXCEPT !.clean = b]
         IN  /\ u \in Task /\ u.op = "set" /\ u.pc = "put" /\ u.id = i /\ u.clean = b
             /\ ~ u.again /\ u.must = {} /\ u.ids = {} /\ u.found = {}
  <1> DEFINE t == Begin("set", "put", i)
  <1>1. t \in Task /\ t.op = "set" /\ t.pc = "put" /\ t.id = i
        /\ ~ t.again /\ t.must = {} /\ t.ids = {} /\ t.found = {}
    BY BeginType DEF Ops, Steps
  <1> HIDE DEF t
  <1>2. LET u == [t EXCEPT !.clean = b]
        IN  /\ u \in Task /\ u.op = "set" /\ u.pc = "put" /\ u.id = i /\ u.clean = b
            /\ ~ u.again /\ u.must = {} /\ u.ids = {} /\ u.found = {}
    BY <1>1 DEF Task
  <1> QED
    BY <1>2 DEF t

-----------------------------------------------------------------------------
(* Two kinds of step *)

\* A step of one call that begins no removal: it erases only what is being
\* removed, drops no saved id from the list, and moves the list only under
\* the mutex.
LEMMA QuietStep ==
  ASSUME StoreTypes, StoreInv, NEW p \in Procs, NEW t \in Task,
         task' = [task EXCEPT ![p] = t],
         \A q \in Procs \ {p} : task[q].pc = "write" => Holds(q)' /\ master' = master,
         t.pc = "write" => Holds(p)' /\ t.view = master',
         t.op = "set" => t.pc \in {"put", "read", "write"} /\ ~ t.again /\ t.ids = {},
         t.pc = "put" => t.op = "set",
         t.again => InDelete(t),
         t.clean => /\ t.op = "set" /\ ~ Removing(t.id)
                    /\ t.pc \in {"read", "write"} => rec'[t.id] # "none",
         InDelete(t) => InDelete(task[p]) /\ t.id = task[p].id,
         t.must \subseteq saved,
         t.op = "list" => t.must \subseteq t.found \union t.ids,
         \A i \in Ids : rec'[i] = "none" => rec[i] = "none" \/ Removing(i),
         \A i \in saved : i \in master => i \in master',
         saved \subseteq saved', saved' \subseteq Ids,
         \A i \in saved' \ saved : rec'[i] # "none" /\ i \in master' /\ ~ Removing(i)
  PROVE  StoreInv'
  <1>1. /\ task'[p] = t
        /\ \A q \in Procs \ {p} : task'[q] = task[q]
    BY OneTask
  <1>2. \A i : Removing(i)' => Removing(i)
    BY <1>1 DEF Removing, InDelete, Adding
  <1>3. OnlyHolderWrites'
    BY <1>1 DEF StoreInv, OnlyHolderWrites
  <1>4. CallShape'
    BY <1>1 DEF StoreInv, CallShape
  <1>5. CleanHasRecord'
    <2> SUFFICES ASSUME NEW q \in Procs, task'[q].clean
                 PROVE  /\ task'[q].op = "set"
                        /\ ~ Removing(task[q].id)'
                        /\ task'[q].pc \in {"read", "write"} => rec'[task'[q].id] # "none"
      BY DEF CleanHasRecord
    <2>1. CASE q = p
      BY <1>1, <1>2, <2>1
    <2>2. CASE q # p
      <3>1. /\ task[q].clean /\ task'[q] = task[q]
            /\ task[q].id \in Ids
        BY <1>1, <2>2, FieldTypes DEF StoreTypes
      <3> QED
        BY <1>2, <3>1 DEF StoreInv, CleanHasRecord
    <2> QED
      BY <2>1, <2>2
  <1>6. RemovedIsNotSaved'
    <2> SUFFICES ASSUME NEW q \in Procs, InDelete(task'[q]) PROVE task'[q].id \notin saved'
      BY DEF RemovedIsNotSaved, InDelete, Adding
    <2>1. InDelete(task[q]) /\ task'[q].id = task[q].id
      BY <1>1
    <2>2. Removing(task'[q].id) /\ task'[q].id \notin saved
      BY <2>1 DEF Removing, StoreInv, RemovedIsNotSaved
    <2> QED
      BY <2>2
  <1>7. MustIsSaved'
    BY <1>1 DEF StoreInv, MustIsSaved
  <1>8. NoLostEntry'
    <2> SUFFICES ASSUME NEW i \in saved' PROVE rec'[i] # "none" /\ i \in master'
      BY DEF NoLostEntry
    <2>1. CASE i \in saved
      <3>1. ~ Removing(i)
        BY <2>1 DEF Removing, StoreInv, RemovedIsNotSaved
      <3> QED
        BY <2>1, <3>1 DEF StoreInv, NoLostEntry, StoreTypes
    <2> QED
      BY <2>1
  <1>9. ListIsComplete'
    BY <1>1 DEF StoreInv, ListIsComplete
  <1> QED
    BY <1>3, <1>4, <1>5, <1>6, <1>7, <1>8, <1>9 DEF StoreInv

\* Beginning to remove i in call p, task by task.
LEMMA DoubtedTasks ==
  ASSUME StoreTypes, NEW p \in Procs, NEW t \in Task, NEW i \in Ids,
         task' = Doubt([task EXCEPT ![p] = t], i)
  PROVE  /\ task' \in [Procs -> Task]
         /\ StillPromised(t, task'[p], i)
         /\ \A q \in Procs \ {p} : StillPromised(task[q], task'[q], i)
  <1> DEFINE f == [task EXCEPT ![p] = t]
  <1>1. /\ f \in [Procs -> Task] /\ f[p] = t
        /\ \A q \in Procs \ {p} : f[q] = task[q]
    BY OneTask
  <1>2. task' = Doubt(f, i)
    OBVIOUS
  <1> HIDE DEF f
  <1>3. /\ task' \in [Procs -> Task]
        /\ \A q \in Procs : StillPromised(f[q], task'[q], i)
    BY <1>1, <1>2, DoubtType
  <1> QED
    BY <1>1, <1>3

\* A step that begins to remove i: nothing counts on i any longer.
LEMMA RemovalStep ==
  ASSUME StoreTypes, StoreInv, NEW p \in Procs, NEW t \in Task, NEW i \in Ids,
         StillPromised(t, task'[p], i),
         \A q \in Procs \ {p} : StillPromised(task[q], task'[q], i),
         saved' = saved \ {i}, UNCHANGED <<rec, master, lock>>,
         t.pc = "erase", t.id = i, t.op # "set", ~ t.clean, t.must \subseteq saved,
         t.op = "list" => t.must \subseteq t.found \union t.ids \union {i}
  PROVE  StoreInv'
  <1> USE DEF StillPromised
  <1>3. OnlyHolderWrites'
    BY DEF StoreInv, OnlyHolderWrites, Holds
  <1>4. CallShape'
    BY DEF StoreInv, CallShape, InDelete, Adding
  <1>5. CleanHasRecord'
    <2> SUFFICES ASSUME NEW q \in Procs, task'[q].clean
                 PROVE  /\ task'[q].op = "set"
                        /\ ~ Removing(task[q].id)'
                        /\ task'[q].pc \in {"read", "write"} => rec'[task'[q].id] # "none"
      BY DEF CleanHasRecord
    <2>1. q # p /\ task[q].clean /\ task[q].id # i
      OBVIOUS
    <2>2. task'[q].op = task[q].op /\ task'[q].pc = task[q].pc
          /\ task'[q].id = task[q].id
      BY <2>1
    <2>3. \A r \in Procs : InDelete(task'[r]) /\ task'[r].id # i => InDelete(task[r]) /\ task'[r].id = task[r].id
      BY DEF InDelete, Adding
    <2>4. Removing(task[q].id)' => Removing(task[q].id)
      BY <2>1, <2>2, <2>3 DEF Removing, InDelete, Adding
    <2> QED
      BY <2>1, <2>2, <2>4 DEF StoreInv, CleanHasRecord
  <1>6. RemovedIsNotSaved'
    BY DEF StoreInv, RemovedIsNotSaved, InDelete, Adding
  <1>7. MustIsSaved'
    BY DEF StoreInv, MustIsSaved
  <1>8. NoLostEntry'
    BY DEF StoreInv, NoLostEntry
  <1>9. ListIsComplete'
    BY DEF StoreInv, ListIsComplete
  <1> QED
    BY <1>3, <1>4, <1>5, <1>6, <1>7, <1>8, <1>9 DEF StoreInv

-----------------------------------------------------------------------------
(* Every step *)

LEMMA OneWriter ==
  ASSUME StoreInv, NEW p \in Procs, Holds(p)
  PROVE  \A q \in Procs \ {p} : task[q].pc # "write"
  BY DEF StoreInv, OnlyHolderWrites, Holds

LEMMA Queued ==
  ASSUME StoreTypes, NEW p \in Procs, lock' = Append(lock, p)
  PROVE  lock' \in Seq(Procs) /\ \A q \in Procs : Holds(q) => Holds(q)'
  BY DEF StoreTypes, Holds

LEMMA Released ==
  ASSUME StoreTypes, NEW p \in Procs, Holds(p), lock' = Tail(lock)
  PROVE  lock' \in Seq(Procs)
  BY SeqTail DEF StoreTypes, Holds

\* The end of an undisturbed set(), or of any other call under the mutex.
LEMMA FinishStep ==
  ASSUME StoreTypes, StoreInv, NEW p \in Procs, Holds(p), task[p].pc \in {"read", "write"},
         Finish(p), rec' = rec, master' \subseteq Ids,
         \A i \in saved : i \in master => i \in master',
         task[p].op = "set" => task[p].id \in master'
  PROVE  StoreTypes' /\ StoreInv'
  <1> DEFINE t == After(task[p])
  <1>1. task[p] \in Task
    BY DEF StoreTypes
  <1>2. /\ t \in Task
        /\ \/ task[p].ids = {} /\ t = Idle
           \/ /\ task[p].ids # {} /\ t.op = task[p].op /\ t.pc = "look" /\ t.id = task[p].id
              /\ t.ids = task[p].ids /\ t.found = task[p].found
              /\ t.must = task[p].must /\ t.clean = task[p].clean /\ ~ t.again
    BY <1>1, AfterType
  <1>3. task' = [task EXCEPT ![p] = t] /\ lock' = Tail(lock) /\ phase' = Phase(task')
    BY DEF Finish
  <1> HIDE DEF t
  <1>4. StoreTypes'
    BY <1>2, <1>3, OneTask, Released, PhaseType, FieldTypes, <1>1 DEF StoreTypes, Finish
  <1>5. \A q \in Procs \ {p} : task[q].pc # "write"
    BY OneWriter
  <1>6. task[p].clean => /\ task[p].op = "set" /\ rec[task[p].id] # "none"
                         /\ ~ Removing(task[p].id)
    BY DEF StoreInv, CleanHasRecord
  <1>7. t.op # "set" /\ ~ t.clean /\ t.pc # "put" /\ ~ t.again
    BY <1>2, <1>6, IdleType DEF StoreInv, CallShape
  <1>8. t.must \subseteq saved /\ (t.op = "list" => t.must \subseteq t.found \union t.ids)
    BY <1>2, IdleType DEF StoreInv, MustIsSaved, ListIsComplete
  <1>9. t.pc \notin {"erase", "read", "write"}
    BY <1>2, IdleType
  <1>10. /\ saved \subseteq saved' /\ saved' \subseteq Ids
         /\ \A i \in saved' \ saved : rec'[i] # "none" /\ i \in master' /\ ~ Removing(i)
    BY <1>4, <1>6 DEF Finish, StoreTypes
  <1> QED
    BY <1>2, <1>3, <1>4, <1>5, <1>7, <1>8, <1>9, <1>10, QuietStep DEF InDelete

\* A call of the store begins with one step of one caller.
LEMMA CallStep ==
  ASSUME StoreTypes, StoreInv, NEW p \in Callers, Call(p), NEW t \in Task,
         task' = [task EXCEPT ![p] = t], saved' = saved,
         t.pc \in {"put", "ids", "look"}, t.must = {},
         t.op = "set" => t.pc = "put" /\ ~ t.again /\ t.ids = {},
         t.pc = "put" => t.op = "set", ~ t.again,
         t.clean => t.op = "set" /\ ~ Removing(t.id)
  PROVE  StoreTypes' /\ StoreInv'
  <1>1. p \in Procs
    BY DEF Procs
  <1>2. UNCHANGED <<rec, master, lock, phase>>
    BY DEF Call
  <1>3. StoreTypes'
    BY <1>1, <1>2, OneTask DEF StoreTypes
  <1>4. \A q \in Procs \ {p} : task[q].pc = "write" => Holds(q)' /\ master' = master
    BY <1>2 DEF StoreInv, OnlyHolderWrites, Holds
  <1> QED
    BY <1>1, <1>2, <1>3, <1>4, QuietStep DEF InDelete, StoreTypes

LEMMA StepNext ==
  ASSUME StoreTypes, StoreInv, NEW p \in Procs, Step(p)
  PROVE  StoreTypes' /\ StoreInv'
  <1> DEFINE t == task[p]
  <1>t. /\ t \in Task
        /\ t.id \in Ids /\ t.ids \subseteq Ids /\ t.view \subseteq Ids
        /\ t.found \subseteq Ids /\ t.must \subseteq Ids /\ WrittenList(t) \subseteq Ids
        /\ t.must \subseteq saved /\ (t.op = "list" => t.must \subseteq t.found \union t.ids)
        /\ t.op = "set" => t.pc \in {"put", "read", "write"} /\ ~ t.again /\ t.ids = {}
        /\ t.pc = "put" => t.op = "set"
        /\ t.again => InDelete(t)
        /\ t.clean => /\ t.op = "set" /\ ~ Removing(t.id)
                      /\ t.pc \in {"read", "write"} => rec[t.id] # "none"
    <2>1. t \in Task
      BY DEF StoreTypes
    <2>2. t.must \subseteq saved
      BY DEF StoreInv, MustIsSaved
    <2>3. t.op = "list" => t.must \subseteq t.found \union t.ids
      BY DEF StoreInv, ListIsComplete
    <2>4. /\ t.op = "set" => t.pc \in {"put", "read", "write"} /\ ~ t.again /\ t.ids = {}
          /\ t.pc = "put" => t.op = "set"
          /\ t.again => InDelete(t)
      BY DEF StoreInv, CallShape
    <2>5. t.clean => /\ t.op = "set" /\ ~ Removing(t.id)
                     /\ t.pc \in {"read", "write"} => rec[t.id] # "none"
      BY DEF StoreInv, CleanHasRecord
    <2> QED
      BY <2>1, <2>2, <2>3, <2>4, <2>5, FieldTypes
  <1>w. \A q \in Procs : task[q].pc = "write" => Holds(q)
    BY DEF StoreInv, OnlyHolderWrites
  <1>1. CASE Put(p)
    <2> DEFINE u == [t EXCEPT !.pc = "read"]
    <2>1. /\ u \in Task /\ u.pc = "read" /\ u.op = t.op /\ u.id = t.id /\ u.ids = t.ids
          /\ u.again = t.again /\ u.found = t.found /\ u.must = t.must /\ u.clean = t.clean
      BY <1>t, StepTo DEF Steps
    <2>2. /\ task' = [task EXCEPT ![p] = u]
          /\ rec' = [rec EXCEPT ![t.id] = "live"]
          /\ lock' = Append(lock, p) /\ t.pc = "put"
          /\ UNCHANGED <<master, phase, saved>>
      BY <1>1 DEF Put
    <2> HIDE DEF u
    <2>3. lock' \in Seq(Procs) /\ \A q \in Procs : Holds(q) => Holds(q)'
      BY <2>2, Queued
    <2>4. rec' \in [Ids -> Records] /\ rec'[t.id] = "live"
          /\ \A i \in Ids : rec'[i] = "none" => rec[i] = "none"
      BY <1>t, <2>2 DEF StoreTypes, Records
    <2>5. StoreTypes'
      BY <2>1, <2>2, <2>3, <2>4, OneTask DEF StoreTypes
    <2>6. \A q \in Procs \ {p} : task[q].pc = "write" => Holds(q)' /\ master' = master
      BY <1>w, <2>2, <2>3
    <2>8. ~ InDelete(u) /\ u.op = "set" /\ u.pc = "read"
      BY <1>t, <2>1, <2>2 DEF InDelete, Adding
    <2>9. u.clean => ~ Removing(u.id) /\ rec'[u.id] # "none"
      BY <1>t, <2>1, <2>4
    <2>10. u.must \subseteq saved /\ ~ u.again /\ u.ids = {} /\ saved \subseteq Ids
      BY <1>t, <2>1, <2>2 DEF StoreTypes
    <2>11. master' = master /\ saved' = saved
      BY <2>2
    <2>7. StoreInv'
      BY <2>1, <2>2, <2>4, <2>6, <2>8, <2>9, <2>10, <2>11, QuietStep
    <2> QED
      BY <2>5, <2>7
  <1>2. CASE ReadIds(p)
    <2> DEFINE v == [t EXCEPT !.ids = master, !.must = saved]
               u == After(v)
    <2>1. /\ v \in Task /\ v.ids = master /\ v.must = saved
          /\ v.op = t.op /\ v.pc = t.pc /\ v.id = t.id /\ v.clean = t.clean
      BY <1>t DEF StoreTypes, Task
    <2>2. /\ task' = [task EXCEPT ![p] = u] /\ t.pc = "ids"
          /\ UNCHANGED <<rec, master, lock, phase, saved>>
      BY <1>2 DEF ReadIds
    <2> HIDE DEF v
    <2>3. /\ u \in Task
          /\ \/ u = Idle
             \/ /\ u.op = t.op /\ u.pc = "look" /\ u.id = t.id /\ u.ids = master
                /\ u.must = saved /\ u.clean = t.clean /\ ~ u.again
      BY <2>1, AfterType
    <2> HIDE DEF u
    <2>4. StoreTypes'
      BY <2>2, <2>3, OneTask DEF StoreTypes
    <2>5. \A q \in Procs \ {p} : task[q].pc = "write" => Holds(q)' /\ master' = master
      BY <1>w, <2>2 DEF Holds
    <2>6. t.op # "set" /\ ~ t.clean
      BY <1>t, <2>2
    <2>7. u.must \subseteq saved /\ (u.op = "list" => u.must \subseteq u.found \union u.ids)
      BY <2>3, IdleType DEF StoreInv, NoLostEntry
    <2>8. u.op # "set" /\ ~ u.clean /\ u.pc \in {"idle", "look"} /\ ~ u.again
      BY <2>3, <2>6, IdleType
    <2>9. StoreInv'
      BY <2>2, <2>3, <2>5, <2>7, <2>8, QuietStep DEF InDelete, StoreTypes
    <2> QED
      BY <2>4, <2>9
  <1>3. CASE Look(p)
    <2>1. PICK i \in IF t.op = "list" THEN t.ids ELSE {t.id} :
            LET v == [t EXCEPT !.id = i, !.ids = @ \ {i}]
            IN  \/ /\ rec[i] \in {"none", "live"}
                   /\ task' = [task EXCEPT ![p] = After(
                        [v EXCEPT !.found = IF rec[i] = "live" THEN @ \union {i} ELSE @])]
                   /\ UNCHANGED saved
                \/ /\ rec[i] \in {"expired", "corrupt"}
                   /\ task' = Doubt([task EXCEPT ![p] =
                        [v EXCEPT !.pc = "erase", !.again = rec[i] = "expired"]], i)
                   /\ saved' = saved \ {i}
      BY <1>3 DEF Look
    <2>2. /\ t.pc = "look" /\ phase' = Phase(task') /\ UNCHANGED <<rec, master, lock>>
          /\ i \in Ids /\ t.op # "set" /\ ~ t.clean
      BY <1>t, <1>3, <2>1 DEF Look
    <2>3. phase' \in {"start", "gc", "up", "failed"}
      BY <2>2, PhaseType
    <2> DEFINE v == [t EXCEPT !.id = i, !.ids = @ \ {i}]
    <2>4. CASE rec[i] \in {"none", "live"}
      <3> DEFINE g == IF rec[i] = "live" THEN t.found \union {i} ELSE t.found
                 w == [v EXCEPT !.found = g]
                 u == After(w)
      <3>1. task' = [task EXCEPT ![p] = u] /\ saved' = saved
        BY <2>1, <2>4
      <3>2. g \in SUBSET Ids
        BY <1>t, <2>2
      <3> HIDE DEF g
      <3>3. /\ w \in Task /\ w.id = i /\ w.ids = t.ids \ {i} /\ w.found = g
            /\ w.op = t.op /\ w.pc = t.pc /\ w.must = t.must /\ w.clean = t.clean
        BY <1>t, <2>2, <3>2 DEF Task
      <3> HIDE DEF w
      <3>4. /\ u \in Task
            /\ \/ u = Idle
               \/ /\ u.op = t.op /\ u.pc = "look" /\ u.id = i /\ u.ids = t.ids \ {i}
                  /\ u.found = g /\ u.must = t.must /\ u.clean = t.clean /\ ~ u.again
        BY <3>3, AfterType
      <3> HIDE DEF u
      <3>5. StoreTypes'
        BY <2>2, <2>3, <3>1, <3>4, OneTask DEF StoreTypes
      <3>6. \A q \in Procs \ {p} : task[q].pc = "write" => Holds(q)' /\ master' = master
        BY <1>w, <2>2 DEF Holds
      <3>7. u.must \subseteq saved /\ (u.op = "list" => u.must \subseteq u.found \union u.ids)
        <4>1. i \in t.must => rec[i] = "live"
          BY <1>t, <2>4 DEF StoreInv, NoLostEntry
        <4>2. t.op = "list" => t.must \subseteq g \union (t.ids \ {i})
          BY <1>t, <4>1 DEF g
        <4> QED
          BY <1>t, <3>4, <4>2, IdleType
      <3>8. u.op # "set" /\ ~ u.clean /\ u.pc \in {"idle", "look"} /\ ~ u.again
        BY <2>2, <3>4, IdleType
      <3>9. StoreInv'
        BY <2>2, <3>1, <3>4, <3>6, <3>7, <3>8, QuietStep DEF InDelete, StoreTypes
      <3> QED
        BY <3>5, <3>9
    <2>5. CASE rec[i] \in {"expired", "corrupt"}
      <3> DEFINE u == [v EXCEPT !.pc = "erase", !.again = rec[i] = "expired"]
      <3>1. task' = Doubt([task EXCEPT ![p] = u], i) /\ saved' = saved \ {i}
        BY <2>1, <2>5
      <3>2. /\ u \in Task /\ u.id = i /\ u.ids = t.ids \ {i} /\ u.pc = "erase"
            /\ u.op = t.op /\ u.found = t.found /\ u.must = t.must /\ u.clean = t.clean
        BY <1>t, <2>2 DEF Task, Steps
      <3> HIDE DEF u
      <3>3. /\ task' \in [Procs -> Task]
            /\ StillPromised(u, task'[p], i)
            /\ \A q \in Procs \ {p} : StillPromised(task[q], task'[q], i)
        BY <2>2, <3>1, <3>2, DoubtedTasks
      <3>4. StoreTypes'
        BY <2>2, <2>3, <3>1, <3>3 DEF StoreTypes
      <3>5. u.must \subseteq saved /\ (u.op = "list" => u.must \subseteq u.found \union u.ids \union {i})
        BY <1>t, <3>2
      <3>6. StoreInv'
        BY <2>2, <3>1, <3>2, <3>3, <3>5, RemovalStep
      <3> QED
        BY <3>4, <3>6
    <2> QED
      BY <2>1, <2>4, <2>5
  <1>4. CASE Erase(p)
    <2> DEFINE u == [t EXCEPT !.pc = "read"]
    <2>1. /\ u \in Task /\ u.pc = "read" /\ u.op = t.op /\ u.id = t.id /\ u.ids = t.ids
          /\ u.again = t.again /\ u.found = t.found /\ u.must = t.must /\ u.clean = t.clean
      BY <1>t, StepTo DEF Steps
    <2>2. /\ task' = [task EXCEPT ![p] = u]
          /\ rec' = [rec EXCEPT ![t.id] = "none"]
          /\ lock' = Append(lock, p) /\ t.pc = "erase" /\ t.op # "set" /\ ~ t.clean
          /\ UNCHANGED <<master, phase, saved>>
      BY <1>t, <1>4 DEF Erase
    <2> HIDE DEF u
    <2>3. lock' \in Seq(Procs) /\ \A q \in Procs : Holds(q) => Holds(q)'
      BY <2>2, Queued
    <2>4. rec' \in [Ids -> Records] /\ Removing(t.id)
          /\ \A i \in Ids : rec'[i] = "none" => rec[i] = "none" \/ i = t.id
      BY <1>t, <2>2 DEF StoreTypes, Records, Removing, InDelete, Adding
    <2>5. StoreTypes'
      BY <2>1, <2>2, <2>3, <2>4, OneTask DEF StoreTypes
    <2>6. \A q \in Procs \ {p} : task[q].pc = "write" => Holds(q)' /\ master' = master
      BY <1>w, <2>2, <2>3
    <2>7. StoreInv'
      BY ZenonT(40), <1>t, <2>1, <2>2, <2>4, <2>6, QuietStep DEF InDelete, Adding, StoreTypes
    <2> QED
      BY <2>5, <2>7
  <1>5. CASE ReadList(p)
    <2>1. t.pc = "read" /\ Holds(p) /\ UNCHANGED <<rec, master>>
      BY <1>5 DEF ReadList
    <2>2. CASE t.op = "set" /\ t.id \in master /\ Finish(p)
      BY <2>1, <2>2, FinishStep DEF StoreTypes
    <2>3. CASE /\ task' = [task EXCEPT ![p].pc = "write", ![p].view = master]
               /\ UNCHANGED <<lock, saved, phase>>
      <3> DEFINE u == [t EXCEPT !.pc = "write", !.view = master]
      <3>1. /\ u \in Task /\ u.pc = "write" /\ u.view = master /\ u.op = t.op /\ u.id = t.id
            /\ u.ids = t.ids /\ u.again = t.again /\ u.found = t.found
            /\ u.must = t.must /\ u.clean = t.clean
        BY <1>t DEF StoreTypes, Task, Steps
      <3>2. task' = [task EXCEPT ![p] = u]
        BY <2>3 DEF StoreTypes
      <3> HIDE DEF u
      <3>u. UNCHANGED <<lock, saved, phase>>
        BY <2>3
      <3>3. StoreTypes'
        BY <2>1, <3>u, <3>1, <3>2, OneTask DEF StoreTypes
      <3>4. \A q \in Procs \ {p} : task[q].pc = "write" => Holds(q)' /\ master' = master
        BY <1>w, <2>1, <3>u DEF Holds
      <3>5. Holds(p)'
        BY <2>1, <3>u DEF Holds
      <3>6. StoreInv'
        BY <1>t, <2>1, <3>u, <3>1, <3>2, <3>4, <3>5, QuietStep DEF InDelete, Adding, StoreTypes
      <3> QED
        BY <3>3, <3>6
    <2> QED
      BY <1>5, <2>2, <2>3 DEF ReadList, Adding
  <1>6. CASE WriteList(p)
    <2>1. /\ t.pc = "write" /\ Holds(p) /\ Finish(p) /\ rec' = rec
          /\ master' = WrittenList(t) /\ t.view = master
      BY <1>6 DEF WriteList, StoreInv, OnlyHolderWrites
    <2>2. t.op # "set" => t.id \notin saved
      BY <2>1 DEF StoreInv, RemovedIsNotSaved, InDelete, Adding
    <2>3. /\ \A i \in saved : i \in master => i \in master'
          /\ t.op = "set" => t.id \in master'
      BY <2>1, <2>2 DEF WrittenList, Adding
    <2> QED
      BY <1>t, <2>1, <2>3, FinishStep
  <1>7. CASE Reject(p)
    <2>1. /\ t.pc # "idle" /\ (t.pc \in {"read", "write"} => Holds(p)) /\ saved' = saved
          /\ lock' = IF t.pc \in {"read", "write"} THEN Tail(lock) ELSE lock
      BY <1>7 DEF Reject
    <2>2. /\ rec' \in [Ids -> Records]
          /\ \A i \in Ids : rec'[i] = "none" => rec[i] = "none" \/ (t.pc = "erase" /\ i = t.id)
      BY <1>t, <1>7 DEF Reject, StoreTypes, Records
    <2>3. \A i \in Ids : rec'[i] = "none" => rec[i] = "none" \/ Removing(i)
      <3>1. t.pc = "erase" => Removing(t.id)
        BY <1>t DEF Removing, InDelete, Adding
      <3> QED
        BY <2>2, <3>1
    <2>4. /\ master' \subseteq Ids
          /\ t.pc # "write" => master' = master
          /\ \A i \in saved : i \in master => i \in master'
      <3>1. t.pc = "write" => t.view = master
        BY DEF StoreInv, OnlyHolderWrites
      <3>2. t.pc = "write" /\ t.op # "set" => t.id \notin saved
        BY DEF StoreInv, RemovedIsNotSaved, InDelete, Adding
      <3>3. master' = master \/ (t.pc = "write" /\ master' = WrittenList(t))
        BY <1>7 DEF Reject
      <3> QED
        BY <1>t, <3>1, <3>2, <3>3 DEF WrittenList, Adding, StoreTypes
    <2>5. lock' \in Seq(Procs)
      BY <2>1, Released DEF StoreTypes
    <2>6. \A q \in Procs \ {p} : task[q].pc = "write" => Holds(q)' /\ master' = master
      <3>1. CASE t.pc \in {"read", "write"}
        BY <2>1, <3>1, OneWriter
      <3>2. CASE t.pc \notin {"read", "write"}
        BY <1>w, <2>1, <2>4, <3>2 DEF Holds
      <3> QED
        BY <3>1, <3>2
    <2>7. phase' \in {"start", "gc", "up", "failed"}
      BY <1>7 DEF Reject, StoreTypes
    <2>8. CASE t.again
      <3> DEFINE u == [t EXCEPT !.pc = "erase", !.again = FALSE]
      <3>1. /\ u \in Task /\ u.pc = "erase" /\ ~ u.again
            /\ u.op = t.op /\ u.id = t.id /\ u.ids = t.ids
            /\ u.found = t.found /\ u.must = t.must /\ u.clean = t.clean
        BY <1>t DEF Task, Steps
      <3>2. task' = [task EXCEPT ![p] = u]
        <4>1. task' = [task EXCEPT ![p].pc = "erase", ![p].again = FALSE]
          BY <1>7, <2>8 DEF Reject
        <4> QED
          BY <4>1 DEF StoreTypes
      <3> HIDE DEF u
      <3>3. InDelete(t) /\ t.op # "set" /\ ~ t.clean
        BY <1>t, <2>8 DEF InDelete, Adding
      <3>4. StoreTypes'
        BY <2>1, <2>2, <2>4, <2>5, <2>7, <3>1, <3>2, OneTask DEF StoreTypes
      <3>5. StoreInv'
        BY <1>t, <2>1, <2>3, <2>4, <2>6, <3>1, <3>2, <3>3, QuietStep DEF StoreTypes
      <3> QED
        BY <3>4, <3>5
    <2>9. CASE ~ t.again
      <3>1. task' = [task EXCEPT ![p] = Idle]
        BY <1>7, <2>9 DEF Reject
      <3>2. StoreTypes'
        BY <2>1, <2>2, <2>4, <2>5, <2>7, <3>1, IdleType, OneTask DEF StoreTypes
      <3>3. StoreInv'
        BY <2>1, <2>3, <2>4, <2>6, <3>1, IdleType, QuietStep DEF InDelete, StoreTypes
      <3> QED
        BY <3>2, <3>3
    <2> QED
      BY <2>8, <2>9
  <1> QED
    BY <1>1, <1>2, <1>3, <1>4, <1>5, <1>6, <1>7 DEF Step

LEMMA StoreInit == Init => StoreInv
  <1> SUFFICES ASSUME Init PROVE StoreInv
    OBVIOUS
  <1>1. \A p \in Procs : task[p] = Idle
    BY DEF Init
  <1>2. OnlyHolderWrites /\ CallShape /\ CleanHasRecord /\ RemovedIsNotSaved
    BY <1>1, IdleType
    DEF OnlyHolderWrites, CallShape, CleanHasRecord, RemovedIsNotSaved, InDelete
  <1>3. MustIsSaved /\ ListIsComplete
    BY <1>1, IdleType DEF MustIsSaved, ListIsComplete
  <1>4. NoLostEntry
    BY DEF Init, NoLostEntry
  <1> QED
    BY <1>2, <1>3, <1>4 DEF StoreInv

LEMMA StoreNext == StoreTypes /\ StoreInv /\ [Next]_vars => StoreTypes' /\ StoreInv'
  <1> SUFFICES ASSUME StoreTypes, StoreInv, [Next]_vars PROVE StoreTypes' /\ StoreInv'
    OBVIOUS
  <1>1. CASE UNCHANGED vars
    <2>1. StoreTypes'
      BY <1>1 DEF vars, StoreTypes
    <2>2. OnlyHolderWrites' /\ CallShape' /\ CleanHasRecord' /\ RemovedIsNotSaved'
      BY <1>1 DEF vars, StoreInv, OnlyHolderWrites, CallShape, CleanHasRecord,
                  RemovedIsNotSaved, Holds, Removing, InDelete, Adding
    <2>3. MustIsSaved' /\ NoLostEntry' /\ ListIsComplete'
      BY <1>1 DEF vars, StoreInv, MustIsSaved, NoLostEntry, ListIsComplete
    <2> QED
      BY <2>1, <2>2, <2>3 DEF StoreInv
  <1>2. CASE GarbageCollect
    <2>1. /\ task' = [p \in Procs |-> IF p \in master THEN Begin("get", "look", p) ELSE task[p]]
          /\ UNCHANGED <<rec, master, lock, saved>> /\ phase' \in {"up", "gc"}
      BY <1>2 DEF GarbageCollect
    <2>2. \A p \in master : LET t == Begin("get", "look", p)
                            IN  /\ t \in Task /\ t.op = "get" /\ t.pc = "look" /\ t.must = {}
                                /\ ~ t.again /\ ~ t.clean
      BY BeginType DEF StoreTypes, Ops, Steps
    <2>3. \A p \in Procs :
            /\ task'[p] \in Task
            /\ \/ task'[p] = task[p]
               \/ /\ task'[p].op = "get" /\ task'[p].pc = "look" /\ task'[p].must = {}
                  /\ ~ task'[p].again /\ ~ task'[p].clean
      BY <2>1, <2>2 DEF StoreTypes
    <2>4. StoreTypes'
      BY <2>1, <2>3 DEF StoreTypes
    <2>5. \A i : Removing(i)' => Removing(i)
      BY <2>3 DEF Removing, InDelete, Adding
    <2>6. OnlyHolderWrites' /\ CallShape' /\ RemovedIsNotSaved'
      BY <2>1, <2>3 DEF StoreInv, OnlyHolderWrites, CallShape, RemovedIsNotSaved,
                        Holds, InDelete, Adding
    <2>7. CleanHasRecord'
      BY <2>1, <2>3, <2>5 DEF StoreInv, CleanHasRecord
    <2>8. MustIsSaved' /\ NoLostEntry' /\ ListIsComplete'
      BY <2>1, <2>3 DEF StoreInv, MustIsSaved, NoLostEntry, ListIsComplete
    <2> QED
      BY <2>4, <2>6, <2>7, <2>8 DEF StoreInv
  <1>3. ASSUME NEW p \in Callers, NEW i \in Ids, Set(p, i) PROVE StoreTypes' /\ StoreInv'
    <2> DEFINE b == ~ Removing(i)
               u == [Begin("set", "put", i) EXCEPT !.clean = b]
    <2>b. b \in BOOLEAN
      OBVIOUS
    <2>2. Call(p) /\ task' = [task EXCEPT ![p] = u] /\ saved' = saved
      BY <1>3 DEF Set
    <2> HIDE DEF b
    <2>1. /\ u \in Task /\ u.op = "set" /\ u.pc = "put" /\ u.id = i /\ u.clean = b
          /\ ~ u.again /\ u.must = {} /\ u.ids = {} /\ u.found = {}
      BY <2>b, BeginSet
    <2> HIDE DEF u
    <2>3. u.clean => ~ Removing(u.id)
      BY <2>1 DEF b
    <2> QED
      BY <2>1, <2>2, <2>3, CallStep
  <1>4. ASSUME NEW p \in Callers, NEW i \in Ids, Get(p, i) PROVE StoreTypes' /\ StoreInv'
    <2> DEFINE u == Begin("get", "look", i)
    <2>1. Call(p) /\ task' = [task EXCEPT ![p] = u] /\ saved' = saved
      BY <1>4 DEF Get
    <2>3. /\ u \in Task /\ u.op = "get" /\ u.pc = "look" /\ ~ u.again /\ ~ u.clean /\ u.must = {}
      BY BeginType DEF Ops, Steps
    <2> HIDE DEF u
    <2> QED
      BY <2>1, <2>3, CallStep
  <1>5. ASSUME NEW p \in Callers, List(p) PROVE StoreTypes' /\ StoreInv'
    <2> DEFINE u == Begin("list", "ids", AnId)
    <2>1. Call(p) /\ task' = [task EXCEPT ![p] = u] /\ saved' = saved
      BY <1>5 DEF List
    <2>2. AnId \in Ids
      BY AnIdType, IdsAssumption
    <2>3. /\ u \in Task /\ u.op = "list" /\ u.pc = "ids" /\ ~ u.again /\ ~ u.clean /\ u.must = {}
      BY <2>2, BeginType DEF Ops, Steps
    <2> HIDE DEF u
    <2> QED
      BY <2>1, <2>3, CallStep
  <1>6. ASSUME NEW p \in Callers, NEW i \in Ids, Delete(p, i) PROVE StoreTypes' /\ StoreInv'
    <2> DEFINE u == Begin("delete", "erase", i)
    <2>1. /\ task' = Doubt([task EXCEPT ![p] = u], i) /\ saved' = saved \ {i}
          /\ UNCHANGED <<rec, master, lock, phase>> /\ p \in Procs
      BY <1>6 DEF Delete, Call, Procs
    <2>2. /\ u \in Task /\ u.op = "delete" /\ u.pc = "erase" /\ u.id = i
          /\ ~ u.clean /\ u.must = {}
      BY BeginType DEF Ops, Steps
    <2> HIDE DEF u
    <2>3. /\ task' \in [Procs -> Task]
          /\ StillPromised(u, task'[p], i)
          /\ \A q \in Procs \ {p} : StillPromised(task[q], task'[q], i)
      BY <2>1, <2>2, DoubtedTasks
    <2>4. StoreTypes'
      BY <2>1, <2>3 DEF StoreTypes
    <2>5. StoreInv'
      BY <2>1, <2>2, <2>3, RemovalStep
    <2> QED
      BY <2>4, <2>5
  <1>7. ASSUME NEW p \in Procs, Step(p) PROVE StoreTypes' /\ StoreInv'
    BY <1>7, StepNext
  <1>8. ASSUME NEW i \in Ids, Expire(i) PROVE StoreTypes' /\ StoreInv'
    <2>1. /\ rec' \in [Ids -> Records] /\ UNCHANGED <<master, lock, task, phase, saved>>
          /\ \A j \in Ids : rec'[j] = "none" => rec[j] = "none"
      BY <1>8 DEF Expire, StoreTypes, Records
    <2>2. StoreTypes'
      BY <2>1 DEF StoreTypes
    <2>3. OnlyHolderWrites' /\ CallShape' /\ RemovedIsNotSaved' /\ MustIsSaved' /\ ListIsComplete'
      BY <2>1 DEF StoreInv, OnlyHolderWrites, CallShape, RemovedIsNotSaved, MustIsSaved,
                  ListIsComplete, Holds, InDelete, Adding
    <2>4. CleanHasRecord'
      BY <2>1, FieldTypes DEF StoreInv, CleanHasRecord, Removing, InDelete, Adding, StoreTypes
    <2>5. NoLostEntry'
      BY <2>1 DEF StoreInv, NoLostEntry, StoreTypes
    <2> QED
      BY <2>2, <2>3, <2>4, <2>5 DEF StoreInv
  <1>9. CASE Crash
    <2>1. /\ \A p \in Procs : task'[p] = Idle
          /\ task' \in [Procs -> Task] /\ lock' \in Seq(Procs)
          /\ UNCHANGED <<rec, master, saved>> /\ phase' = "start"
      BY <1>9, IdleType DEF Crash
    <2>2. StoreTypes'
      BY <2>1 DEF StoreTypes
    <2>3. OnlyHolderWrites' /\ CallShape' /\ CleanHasRecord' /\ RemovedIsNotSaved'
      BY <2>1, IdleType
      DEF OnlyHolderWrites, CallShape, CleanHasRecord, RemovedIsNotSaved, InDelete
    <2>4. MustIsSaved' /\ ListIsComplete' /\ NoLostEntry'
      BY <2>1, IdleType DEF StoreInv, MustIsSaved, ListIsComplete, NoLostEntry
    <2> QED
      BY <2>2, <2>3, <2>4 DEF StoreInv
  <1> QED
    BY <1>1, <1>2, <1>3, <1>4, <1>5, <1>6, <1>7, <1>8, <1>9 DEF Next

-----------------------------------------------------------------------------
(* What a step is, of all the calls together *)

\* A call that has asked for the mutex and not yet left it.
Waits(t) == t.pc \in {"read", "write"}

\* What two states of a call have in common while others step.
SamePlace(t, u) == u.op = t.op /\ u.pc = t.pc /\ u.id = t.id

\* set() and delete() reach the record and ask for the mutex in one step ...
Enters(p) ==
  /\ task[p].pc \in {"put", "erase"}
  /\ task'[p].pc = "read" /\ task'[p].op = task[p].op /\ task'[p].id = task[p].id
  /\ rec' = [rec EXCEPT ![task[p].id] = IF Adding(task[p]) THEN "live" ELSE "none"]
  /\ lock' = Append(lock, p)
  /\ UNCHANGED <<master, phase, hurt>>

\* ... leave the list as it is while they hold it ...
Takes(p) ==
  /\ task[p].pc = "read"
  /\ task'[p].pc = "write" /\ task'[p].op = task[p].op /\ task'[p].id = task[p].id
  /\ UNCHANGED <<rec, master, lock, phase, hurt>>

\* ... and leave the mutex with the list changed by their one id.
Leaves(p) ==
  /\ Waits(task[p]) /\ Holds(p)
  /\ ~ Waits(task'[p]) /\ task'[p].pc # "erase"
  /\ lock' = Tail(lock)
  /\ master' = IF Adding(task[p]) THEN master \union {task[p].id} ELSE master \ {task[p].id}
  /\ phase' = Phase(task')
  /\ UNCHANGED <<rec, hurt>>

\* Reading ids or a record changes only the call that reads; what cannot be
\* read is about to be erased.
Reads(p) ==
  /\ task[p].pc \in {"ids", "look"}
  /\ task'[p].pc \in {"idle", "look", "erase"}
  /\ task[p].pc = "look" /\ task[p].op = "get" /\ rec[task[p].id] = "corrupt" =>
       task'[p].pc = "erase" /\ task'[p].op = "get" /\ task'[p].id = task[p].id
  /\ phase' \in {phase, Phase(task')}
  /\ UNCHANGED <<rec, master, lock, hurt>>

\* A rejection may leave everything but the call as it was.
Rejects(p) ==
  /\ hurt'
  /\ \A i \in Ids : rec'[i] \in {rec[i], "live", "none"}
  /\ \A i \in master : i \in master' \/ (InDelete(task[p]) /\ task[p].pc = "write" /\ i = task[p].id)
  /\ \/ /\ InDelete(task[p])
        /\ task'[p].op = task[p].op /\ task'[p].pc = "erase" /\ task'[p].id = task[p].id
        /\ phase' = phase
     \/ /\ task'[p].pc = "idle"
        /\ phase' = IF phase = "gc" /\ p \in Ids THEN "failed" ELSE phase

LEMMA StepShape ==
  ASSUME StoreTypes, StoreInv, NEW p \in Procs, Step(p)
  PROVE  /\ \A q \in Procs \ {p} : SamePlace(task[q], task'[q])
         /\ Enters(p) \/ Takes(p) \/ Leaves(p) \/ Reads(p) \/ Rejects(p)
  <1> DEFINE t == task[p]
             Others == \A q \in Procs \ {p} : SamePlace(task[q], task'[q])
  <1>t. /\ t \in Task /\ t.id \in Ids /\ t.ids \subseteq Ids
        /\ t.op = "set" => t.pc \in {"put", "read", "write"} /\ ~ t.again
        /\ t.pc = "put" => t.op = "set"
        /\ t.again => InDelete(t)
        /\ t.pc = "write" => t.view = master
    BY FieldTypes DEF StoreTypes, StoreInv, CallShape, OnlyHolderWrites
  <1>o. ASSUME NEW u \in Task, task' = [task EXCEPT ![p] = u]
        PROVE  task'[p] = u /\ Others
    BY <1>o, OneTask DEF SamePlace
  <1>f. ASSUME Finish(p), t.pc \in {"read", "write"}
        PROVE  /\ Others /\ lock' = Tail(lock) /\ phase' = Phase(task')
               /\ task'[p].pc \in {"idle", "look"}
    <2>1. /\ task' = [task EXCEPT ![p] = After(t)]
          /\ lock' = Tail(lock) /\ phase' = Phase(task')
      BY <1>f DEF Finish
    <2>2. After(t) \in Task /\ After(t).pc \in {"idle", "look"}
      BY <1>t, AfterType, IdleType
    <2> QED
      BY <1>o, <2>1, <2>2
  <1>1. CASE Put(p) \/ Erase(p)
    <2> DEFINE u == [t EXCEPT !.pc = "read"]
    <2>1. u \in Task /\ u.pc = "read" /\ u.op = t.op /\ u.id = t.id
      BY <1>t, StepTo DEF Steps
    <2>2. /\ task' = [task EXCEPT ![p] = u]
          /\ lock' = Append(lock, p) /\ t.pc \in {"put", "erase"}
          /\ rec' = [rec EXCEPT ![t.id] = IF t.pc = "put" THEN "live" ELSE "none"]
          /\ UNCHANGED <<master, phase, hurt>>
      BY <1>1 DEF Put, Erase
    <2> HIDE DEF u
    <2>3. t.pc = "put" <=> Adding(t)
      BY <1>t, <2>2 DEF Adding
    <2> QED
      BY <1>o, <2>1, <2>2, <2>3 DEF Enters
  <1>2. CASE ReadIds(p)
    <2> DEFINE v == [t EXCEPT !.ids = master, !.must = saved]
               u == After(v)
    <2>1. v \in Task
      BY <1>t DEF StoreTypes, Task
    <2>2. task' = [task EXCEPT ![p] = u] /\ t.pc = "ids" /\ UNCHANGED <<rec, master, lock, phase, hurt>>
      BY <1>2 DEF ReadIds
    <2> HIDE DEF v
    <2>3. u \in Task /\ u.pc \in {"idle", "look"}
      BY <2>1, AfterType, IdleType
    <2> HIDE DEF u
    <2> QED
      BY <1>o, <2>2, <2>3 DEF Reads
  <1>3. CASE Look(p)
    <2>1. PICK i \in IF t.op = "list" THEN t.ids ELSE {t.id} :
            LET v == [t EXCEPT !.id = i, !.ids = @ \ {i}]
            IN  \/ /\ rec[i] \in {"none", "live"}
                   /\ task' = [task EXCEPT ![p] = After(
                        [v EXCEPT !.found = IF rec[i] = "live" THEN @ \union {i} ELSE @])]
                   /\ UNCHANGED saved
                \/ /\ rec[i] \in {"expired", "corrupt"}
                   /\ task' = Doubt([task EXCEPT ![p] =
                        [v EXCEPT !.pc = "erase", !.again = rec[i] = "expired"]], i)
                   /\ saved' = saved \ {i}
      BY <1>3 DEF Look
    <2>2. /\ t.pc = "look" /\ phase' = Phase(task') /\ UNCHANGED <<rec, master, lock, hurt>>
          /\ i \in Ids /\ t.op = "get" => i = t.id
      BY <1>t, <1>3, <2>1 DEF Look
    <2>i. i \in Ids
      BY <1>t, <2>1
    <2> DEFINE v == [t EXCEPT !.id = i, !.ids = @ \ {i}]
    <2>4. CASE rec[i] \in {"none", "live"}
      <3> DEFINE g == IF rec[i] = "live" THEN t.found \union {i} ELSE t.found
                 w == [v EXCEPT !.found = g]
                 u == After(w)
      <3>1. task' = [task EXCEPT ![p] = u]
        BY <2>1, <2>4
      <3>2. g \in SUBSET Ids
        BY <1>t, <2>i, FieldTypes
      <3> HIDE DEF g
      <3>3. w \in Task
        BY <1>t, <2>i, <3>2 DEF Task
      <3> HIDE DEF w
      <3>4. u \in Task /\ u.pc \in {"idle", "look"}
        BY <3>3, AfterType, IdleType
      <3> HIDE DEF u
      <3>5. Reads(p)
        BY <1>o, <2>2, <2>4, <2>i, <3>1, <3>4 DEF Reads
      <3> QED
        BY <1>o, <3>1, <3>4, <3>5
    <2>5. CASE rec[i] \in {"expired", "corrupt"}
      <3> DEFINE u == [v EXCEPT !.pc = "erase", !.again = rec[i] = "expired"]
      <3>1. task' = Doubt([task EXCEPT ![p] = u], i)
        BY <2>1, <2>5
      <3>2. u \in Task /\ u.id = i /\ u.pc = "erase" /\ u.op = t.op
        BY <1>t, <2>i DEF Task, Steps
      <3> HIDE DEF u
      <3>3. /\ StillPromised(u, task'[p], i)
            /\ \A q \in Procs \ {p} : StillPromised(task[q], task'[q], i)
        BY <2>i, <3>1, <3>2, DoubtedTasks
      <3>4. Others
        BY <3>3 DEF StillPromised, SamePlace
      <3>5. task'[p].pc = "erase" /\ task'[p].op = t.op /\ task'[p].id = i
        BY <3>2, <3>3 DEF StillPromised
      <3> QED
        BY <2>2, <2>i, <3>4, <3>5 DEF Reads
    <2> QED
      BY <2>1, <2>4, <2>5
  <1>4. CASE ReadList(p)
    <2>1. t.pc = "read" /\ Holds(p) /\ UNCHANGED <<rec, master, hurt>>
      BY <1>4 DEF ReadList
    <2>2. CASE t.op = "set" /\ t.id \in master /\ Finish(p)
      BY <1>f, <2>1, <2>2 DEF Leaves, Waits, Adding
    <2>3. CASE /\ task' = [task EXCEPT ![p].pc = "write", ![p].view = master]
               /\ UNCHANGED <<lock, saved, phase>>
      <3> DEFINE u == [t EXCEPT !.pc = "write", !.view = master]
      <3>1. u \in Task /\ u.pc = "write" /\ u.op = t.op /\ u.id = t.id
        BY <1>t DEF StoreTypes, Task, Steps
      <3>2. task' = [task EXCEPT ![p] = u]
        BY <2>3 DEF StoreTypes
      <3> HIDE DEF u
      <3> QED
        BY <1>o, <2>1, <2>3, <3>1, <3>2 DEF Takes
    <2> QED
      BY <1>4, <2>2, <2>3 DEF ReadList, Adding
  <1>5. CASE WriteList(p)
    <2>1. /\ t.pc = "write" /\ Holds(p) /\ Finish(p) /\ UNCHANGED <<rec, hurt>>
          /\ master' = WrittenList(t) /\ t.view = master
      BY <1>t, <1>5 DEF WriteList
    <2> QED
      BY <1>f, <2>1 DEF Leaves, Waits, WrittenList
  <1>6. CASE Reject(p)
    <2>1. /\ hurt' /\ t.pc # "idle"
          /\ \A i \in Ids : rec'[i] \in {rec[i], "live", "none"}
      BY <1>t, <1>6 DEF Reject, StoreTypes
    <2>2. \A i \in master : i \in master' \/ (InDelete(t) /\ t.pc = "write" /\ i = t.id)
      BY <1>t, <1>6 DEF Reject, WrittenList, InDelete
    <2>3. CASE t.again
      <3> DEFINE u == [t EXCEPT !.pc = "erase", !.again = FALSE]
      <3>1. u \in Task /\ u.pc = "erase" /\ u.op = t.op /\ u.id = t.id
        BY <1>t DEF Task, Steps
      <3>2. task' = [task EXCEPT ![p].pc = "erase", ![p].again = FALSE] /\ phase' = phase
        BY <1>6, <2>3 DEF Reject
      <3>3. task' = [task EXCEPT ![p] = u]
        BY <3>2 DEF StoreTypes
      <3> HIDE DEF u
      <3> QED
        BY <1>o, <1>t, <2>1, <2>2, <2>3, <3>1, <3>2, <3>3 DEF Rejects
    <2>4. CASE ~ t.again
      <3>1. /\ task' = [task EXCEPT ![p] = Idle]
            /\ phase' = IF phase = "gc" /\ p \in Ids THEN "failed" ELSE phase
        BY <1>6, <2>4 DEF Reject
      <3> QED
        BY <1>o, <2>1, <2>2, <3>1, IdleType DEF Rejects
    <2> QED
      BY <2>3, <2>4
  <1> QED
    BY <1>1, <1>2, <1>3, <1>4, <1>5, <1>6 DEF Step

\* A call of the store changes only what its caller is in, and waits for
\* nothing yet.
LEMMA CallShapes ==
  ASSUME StoreTypes, NEW p \in Callers,
         List(p) \/ \E i \in Ids : Set(p, i) \/ Get(p, i) \/ Delete(p, i)
  PROVE  /\ ~ Waits(task'[p])
         /\ \A q \in Procs \ {p} : SamePlace(task[q], task'[q])
  <1>p. p \in Procs
    BY DEF Procs
  <1>o. ASSUME NEW u \in Task, ~ Waits(u), task' = [task EXCEPT ![p] = u]
        PROVE  /\ ~ Waits(task'[p])
               /\ \A q \in Procs \ {p} : SamePlace(task[q], task'[q])
    BY <1>o, <1>p, OneTask DEF SamePlace
  <1>1. CASE List(p)
    <2> DEFINE u == Begin("list", "ids", AnId)
    <2>1. u \in Task /\ u.pc = "ids"
      BY AnIdType, IdsAssumption, BeginType DEF Ops, Steps
    <2>2. task' = [task EXCEPT ![p] = u]
      BY <1>1 DEF List
    <2> QED
      BY <1>o, <2>1, <2>2 DEF Waits
  <1>2. ASSUME NEW i \in Ids, Set(p, i)
        PROVE  /\ ~ Waits(task'[p])
               /\ \A q \in Procs \ {p} : SamePlace(task[q], task'[q])
    <2> DEFINE b == ~ Removing(i)
               u == [Begin("set", "put", i) EXCEPT !.clean = b]
    <2>1. b \in BOOLEAN /\ task' = [task EXCEPT ![p] = u]
      BY <1>2 DEF Set
    <2> HIDE DEF b
    <2>2. u \in Task /\ u.pc = "put"
      BY <2>1, BeginSet
    <2> QED
      BY <1>o, <2>1, <2>2 DEF Waits
  <1>3. ASSUME NEW i \in Ids, Get(p, i)
        PROVE  /\ ~ Waits(task'[p])
               /\ \A q \in Procs \ {p} : SamePlace(task[q], task'[q])
    <2> DEFINE u == Begin("get", "look", i)
    <2>1. u \in Task /\ u.pc = "look"
      BY BeginType DEF Ops, Steps
    <2>2. task' = [task EXCEPT ![p] = u]
      BY <1>3 DEF Get
    <2> QED
      BY <1>o, <2>1, <2>2 DEF Waits
  <1>4. ASSUME NEW i \in Ids, Delete(p, i)
        PROVE  /\ ~ Waits(task'[p])
               /\ \A q \in Procs \ {p} : SamePlace(task[q], task'[q])
    <2> DEFINE u == Begin("delete", "erase", i)
    <2>1. task' = Doubt([task EXCEPT ![p] = u], i)
      BY <1>4 DEF Delete
    <2>2. u \in Task /\ u.pc = "erase"
      BY BeginType DEF Ops, Steps
    <2> HIDE DEF u
    <2>3. /\ StillPromised(u, task'[p], i)
          /\ \A q \in Procs \ {p} : StillPromised(task[q], task'[q], i)
      BY <1>p, <2>1, <2>2, DoubtedTasks
    <2> QED
      BY <2>2, <2>3 DEF StillPromised, Waits, SamePlace
  <1> QED
    BY <1>1, <1>2, <1>3, <1>4

-----------------------------------------------------------------------------
(* Unreadable records, and the collection that erases them *)

\* An unreadable record is in the master list, since nothing unreadable is ever
\* written and a removal erases the record before it changes the list; while
\* the collection runs, its own get() has still to erase it.
Unreadable ==
  /\ \A i \in Ids : rec[i] = "corrupt" => i \in master
  /\ \A p \in Procs : InDelete(task[p]) /\ Waits(task[p]) => rec[task[p].id] # "corrupt"
  /\ phase = "up" => \A i \in Ids : rec[i] # "corrupt"
  /\ phase = "gc" => \A i \in Ids : rec[i] = "corrupt" =>
       task[i].pc \in {"look", "erase"} /\ task[i].op = "get" /\ task[i].id = i

LEMMA UnreadableStep ==
  ASSUME StoreTypes, StoreInv, Unreadable, NEW p \in Procs, Step(p)
  PROVE  Unreadable'
  <1> DEFINE t == task[p]
  <1>1. /\ \A q \in Procs \ {p} : SamePlace(task[q], task'[q])
        /\ Enters(p) \/ Takes(p) \/ Leaves(p) \/ Reads(p) \/ Rejects(p)
    BY StepShape
  <1>2. \A q \in Procs : task[q].id \in Ids
    BY FieldTypes DEF StoreTypes
  <1>3. \A i \in Ids : rec'[i] = "corrupt" => rec[i] = "corrupt"
    BY <1>1, <1>2 DEF Enters, Takes, Leaves, Reads, Rejects, StoreTypes
  <1>4. \A i \in Ids : rec'[i] = "corrupt" => i \in master'
    <2> SUFFICES ASSUME NEW i \in Ids, rec'[i] = "corrupt" PROVE i \in master'
      OBVIOUS
    <2>1. i \in master /\ (InDelete(t) /\ Waits(t) => i # t.id)
      BY <1>3 DEF Unreadable
    <2>2. CASE Enters(p) \/ Takes(p) \/ Reads(p)
      BY <2>1, <2>2 DEF Enters, Takes, Reads
    <2>3. CASE Leaves(p)
      BY <2>1, <2>3 DEF Leaves, InDelete, Waits
    <2>4. CASE Rejects(p)
      BY <2>1, <2>4 DEF Rejects, Waits
    <2> QED
      BY <1>1, <2>2, <2>3, <2>4
  <1>5. \A q \in Procs : InDelete(task'[q]) /\ Waits(task'[q]) => rec'[task'[q].id] # "corrupt"
    <2> SUFFICES ASSUME NEW q \in Procs, InDelete(task'[q]), Waits(task'[q])
                 PROVE  rec'[task'[q].id] # "corrupt"
      OBVIOUS
    <2>1. CASE q # p
      BY <1>1, <1>2, <1>3, <2>1 DEF Unreadable, SamePlace, InDelete, Adding, Waits
    <2>2. CASE q = p /\ Enters(p)
      BY <1>2, <2>2 DEF Enters, StoreTypes
    <2>3. CASE q = p /\ Takes(p)
      BY <2>3 DEF Takes, Unreadable, InDelete, Adding, Waits
    <2>4. CASE q = p /\ (Leaves(p) \/ Reads(p) \/ Rejects(p))
      BY <2>4 DEF Leaves, Reads, Rejects, Waits, SamePlace
    <2> QED
      BY <1>1, <2>1, <2>2, <2>3, <2>4
  <1>6. phase = "gc" /\ phase' # "failed" =>
          \A i \in Ids : rec'[i] = "corrupt" =>
            task'[i].pc \in {"look", "erase"} /\ task'[i].op = "get" /\ task'[i].id = i
    <2> SUFFICES ASSUME phase = "gc", phase' # "failed", NEW i \in Ids, rec'[i] = "corrupt"
                 PROVE  task'[i].pc \in {"look", "erase"} /\ task'[i].op = "get" /\ task'[i].id = i
      OBVIOUS
    <2>1. /\ rec[i] = "corrupt" /\ i \in Procs
          /\ task[i].pc \in {"look", "erase"} /\ task[i].op = "get" /\ task[i].id = i
      BY <1>3 DEF Unreadable, Procs
    <2>2. CASE i # p
      BY <1>1, <2>1, <2>2 DEF SamePlace
    <2>3. CASE i = p
      <3>1. ~ Enters(p)
        BY <2>1, <2>3 DEF Enters, StoreTypes, Adding
      <3>2. ~ Takes(p) /\ ~ Leaves(p)
        BY <2>1, <2>3 DEF Takes, Leaves, Waits
      <3>3. CASE Reads(p)
        BY <2>1, <2>3, <3>3 DEF Reads
      <3>4. CASE Rejects(p)
        BY <2>1, <2>3, <3>4 DEF Rejects
      <3> QED
        BY <1>1, <3>1, <3>2, <3>3, <3>4
    <2> QED
      BY <2>2, <2>3
  <1>7. phase' \in {phase, Phase(task'), "failed"}
    BY <1>1 DEF Enters, Takes, Leaves, Reads, Rejects
  <1>8. phase' = "up" => \A i \in Ids : rec'[i] # "corrupt"
    <2> SUFFICES ASSUME phase' = "up", NEW i \in Ids, rec'[i] = "corrupt" PROVE FALSE
      OBVIOUS
    <2>1. phase # "up"
      BY <1>3 DEF Unreadable
    <2>2. phase = "gc" /\ \A j \in Ids : task'[j].pc = "idle"
      BY <1>7, <2>1 DEF Phase, Collecting
    <2> QED
      BY <1>6, <2>2
  <1>9. phase' = "gc" => phase = "gc"
    BY <1>7 DEF Phase
  <1> QED
    BY <1>4, <1>5, <1>6, <1>8, <1>9 DEF Unreadable

LEMMA UnreadableInit == Init => Unreadable
  BY IdleType DEF Init, Unreadable, Waits

\* A call of the store: nothing is written, and no call waits that did not.
LEMMA UnreadableCall ==
  ASSUME StoreTypes, Unreadable, UNCHANGED <<rec, master, phase>>, phase = "up",
         \A p \in Procs : Waits(task'[p]) => SamePlace(task[p], task'[p])
  PROVE  Unreadable'
  BY DEF Unreadable, InDelete, Adding, Waits, SamePlace

LEMMA UnreadableNext ==
  StoreTypes /\ StoreInv /\ Unreadable /\ [Next]_vars => Unreadable'
  <1> SUFFICES ASSUME StoreTypes, StoreInv, Unreadable, [Next]_vars PROVE Unreadable'
    OBVIOUS
  <1>1. CASE UNCHANGED vars
    BY <1>1 DEF vars, Unreadable, InDelete, Adding, Waits
  <1>2. CASE GarbageCollect
    <2>1. /\ task' = [p \in Procs |-> IF p \in master THEN Begin("get", "look", p) ELSE task[p]]
          /\ UNCHANGED <<rec, master>> /\ phase' = IF master = {} THEN "up" ELSE "gc"
      BY <1>2 DEF GarbageCollect
    <2>2. \A p \in master : LET t == Begin("get", "look", p)
                            IN  t.op = "get" /\ t.pc = "look" /\ t.id = p
      BY BeginType DEF StoreTypes, Ops, Steps
    <2>3. /\ \A p \in Procs \ master : task'[p] = task[p]
          /\ \A p \in Procs \intersect master :
               task'[p].op = "get" /\ task'[p].pc = "look" /\ task'[p].id = p
      BY <2>1, <2>2
    <2> QED
      BY <2>1, <2>3 DEF Unreadable, InDelete, Adding, Waits, Procs
  <1>3. ASSUME NEW p \in Callers,
               List(p) \/ \E i \in Ids : Set(p, i) \/ Get(p, i) \/ Delete(p, i)
        PROVE  Unreadable'
    <2>1. UNCHANGED <<rec, master, phase>> /\ phase = "up"
      BY <1>3 DEF List, Set, Get, Delete, Call
    <2>2. \A q \in Procs : Waits(task'[q]) => SamePlace(task[q], task'[q])
      BY <1>3, CallShapes
    <2> QED
      BY <2>1, <2>2, UnreadableCall
  <1>4. ASSUME NEW p \in Procs, Step(p) PROVE Unreadable'
    BY <1>4, UnreadableStep
  <1>5. ASSUME NEW i \in Ids, Expire(i) PROVE Unreadable'
    <2>1. /\ UNCHANGED <<master, task, phase>>
          /\ \A j \in Ids : rec'[j] = "corrupt" => rec[j] = "corrupt"
      BY <1>5 DEF Expire, StoreTypes
    <2>2. \A p \in Procs : task[p].id \in Ids
      BY FieldTypes DEF StoreTypes
    <2> QED
      BY <2>1, <2>2 DEF Unreadable, InDelete, Adding, Waits
  <1>6. CASE Crash
    BY <1>6, IdleType DEF Crash, Unreadable, Waits
  <1> QED
    BY <1>1, <1>2, <1>3, <1>4, <1>5, <1>6 DEF Next

-----------------------------------------------------------------------------
(* Turns at the mutex *)

Last(n) == \A m \in DOMAIN lock : m > n => task[lock[m]].id # task[lock[n]].id

\* Who waits is in the queue once.  A record is there if the last in the queue
\* for its id adds it; if nobody is, record and list agree.  So the list comes
\* to what the last of overlapping calls made of the record.
Turns ==
  /\ \A m, n \in DOMAIN lock : lock[m] = lock[n] => m = n
  /\ \A p \in Procs : Waits(task[p]) <=> \E n \in DOMAIN lock : lock[n] = p
  /\ \A i \in Ids : (\A n \in DOMAIN lock : task[lock[n]].id # i) =>
       (rec[i] # "none" <=> i \in master)
  /\ \A n \in DOMAIN lock : Last(n) =>
       (Adding(task[lock[n]]) <=> rec[task[lock[n]].id] # "none")

\* Before the collection no call is under way.
NobodyYet == phase = "start" => \A p \in Procs : task[p].pc = "idle"

LEMMA AppendFacts ==
  ASSUME NEW S, NEW q \in Seq(S), NEW e \in S
  PROVE  /\ DOMAIN q = 1 .. Len(q) /\ Len(q) \in Nat
         /\ DOMAIN Append(q, e) = 1 .. (Len(q) + 1)
         /\ Append(q, e)[Len(q) + 1] = e
         /\ \A n \in DOMAIN q : Append(q, e)[n] = q[n]
  OBVIOUS

LEMMA TailFacts ==
  ASSUME NEW S, NEW q \in Seq(S), q # <<>>
  PROVE  /\ DOMAIN q = 1 .. Len(q) /\ Len(q) \in Nat \ {0}
         /\ DOMAIN Tail(q) = 1 .. (Len(q) - 1)
         /\ Head(q) = q[1]
         /\ \A n \in DOMAIN Tail(q) : Tail(q)[n] = q[n + 1]
  OBVIOUS

LEMMA QueuedTypes ==
  ASSUME StoreTypes
  PROVE  /\ \A n \in DOMAIN lock : lock[n] \in Procs /\ task[lock[n]].id \in Ids
         /\ DOMAIN lock \subseteq Nat
  <1>1. DOMAIN lock = 1 .. Len(lock) /\ \A n \in DOMAIN lock : lock[n] \in Procs
    BY DEF StoreTypes
  <1> QED
    BY <1>1, FieldTypes DEF StoreTypes

\* Steps at which nobody joins or leaves the queue.
LEMMA TurnsKept ==
  ASSUME StoreTypes, Turns, UNCHANGED <<master, lock>>,
         \A i \in Ids : rec'[i] = "none" <=> rec[i] = "none",
         \A p \in Procs : /\ Waits(task'[p]) <=> Waits(task[p])
                          /\ Waits(task[p]) => /\ task'[p].op = task[p].op
                                               /\ task'[p].id = task[p].id
  PROVE  Turns'
  <1>1. \A n \in DOMAIN lock : /\ lock[n] \in Procs /\ Waits(task[lock[n]])
                               /\ task[lock[n]].id \in Ids
                               /\ task'[lock[n]].op = task[lock[n]].op
                               /\ task'[lock[n]].id = task[lock[n]].id
    BY QueuedTypes DEF Turns
  <1>2. \A n \in DOMAIN lock : Last(n)' => Last(n)
    BY <1>1 DEF Last
  <1>3. (\A n \in DOMAIN lock : Last(n) =>
           (Adding(task[lock[n]]) <=> rec[task[lock[n]].id] # "none"))'
    BY <1>1, <1>2 DEF Turns, Adding
  <1>4. (\A i \in Ids : (\A n \in DOMAIN lock : task[lock[n]].id # i) =>
           (rec[i] # "none" <=> i \in master))'
    BY <1>1 DEF Turns
  <1> QED
    BY <1>3, <1>4 DEF Turns

\* set() or delete() reaches its record and joins the queue.
LEMMA TurnsJoined ==
  ASSUME StoreTypes, Turns, NEW p \in Procs, Enters(p),
         \A q \in Procs \ {p} : SamePlace(task[q], task'[q])
  PROVE  Turns'
  <1> DEFINE i == task[p].id
             l == Len(lock)
  <1>1. /\ DOMAIN lock = 1 .. l /\ l \in Nat
        /\ DOMAIN lock' = 1 .. (l + 1) /\ lock'[l + 1] = p
        /\ \A n \in DOMAIN lock : lock'[n] = lock[n]
    BY AppendFacts DEF StoreTypes, Enters
  <1>2. /\ i \in Ids
        /\ ~ Waits(task[p]) /\ Waits(task'[p]) /\ task'[p].id = i /\ task'[p].op = task[p].op
        /\ master' = master
        /\ rec'[i] # "none" <=> Adding(task[p])
        /\ \A j \in Ids \ {i} : rec'[j] = rec[j]
    BY FieldTypes DEF Enters, StoreTypes, Waits
  <1> HIDE DEF l, i
  <1>3. \A n \in DOMAIN lock : lock[n] \in Procs \ {p} /\ task[lock[n]].id \in Ids
    BY <1>2, QueuedTypes DEF Turns
  <1>4. \A n \in DOMAIN lock : /\ task'[lock'[n]].id = task[lock[n]].id
                               /\ task'[lock'[n]].op = task[lock[n]].op
    BY <1>1, <1>3 DEF SamePlace
  <1>5. (\A m, n \in DOMAIN lock : lock[m] = lock[n] => m = n)'
    <2> SUFFICES ASSUME NEW m \in DOMAIN lock', NEW n \in DOMAIN lock', lock'[m] = lock'[n]
                 PROVE  m = n
      OBVIOUS
    <2>1. (m \in DOMAIN lock \/ m = l + 1) /\ (n \in DOMAIN lock \/ n = l + 1)
      BY <1>1
    <2> QED
      BY <1>1, <1>3, <2>1 DEF Turns
  <1>6. (\A q \in Procs : Waits(task[q]) <=> \E n \in DOMAIN lock : lock[n] = q)'
    <2> SUFFICES ASSUME NEW q \in Procs
                 PROVE  Waits(task'[q]) <=> \E n \in DOMAIN lock' : lock'[n] = q
      OBVIOUS
    <2>1. CASE q = p
      BY <1>1, <1>2, <2>1
    <2>2. CASE q # p
      <3>1. Waits(task'[q]) <=> \E n \in DOMAIN lock : lock[n] = q
        BY <2>2 DEF Turns, SamePlace, Waits
      <3>2. \A n \in DOMAIN lock' : lock'[n] = q => n \in DOMAIN lock
        BY <1>1, <2>2
      <3>3. DOMAIN lock \subseteq DOMAIN lock'
        BY <1>1
      <3> QED
        BY <1>1, <3>1, <3>2, <3>3
    <2> QED
      BY <2>1, <2>2
  <1>7. (\A j \in Ids : (\A n \in DOMAIN lock : task[lock[n]].id # j) =>
           (rec[j] # "none" <=> j \in master))'
    <2> SUFFICES ASSUME NEW j \in Ids, \A n \in DOMAIN lock' : task'[lock'[n]].id # j
                 PROVE  rec'[j] # "none" <=> j \in master
      BY <1>2
    <2>1. DOMAIN lock \subseteq DOMAIN lock' /\ l + 1 \in DOMAIN lock'
      BY <1>1
    <2>2. j # i
      BY <1>1, <1>2, <2>1
    <2>3. \A n \in DOMAIN lock : task[lock[n]].id # j
      BY <1>4, <2>1
    <2> QED
      BY <1>2, <2>2, <2>3 DEF Turns
  <1>8. (\A n \in DOMAIN lock : Last(n) =>
           (Adding(task[lock[n]]) <=> rec[task[lock[n]].id] # "none"))'
    <2> SUFFICES ASSUME NEW n \in DOMAIN lock',
                        \A m \in DOMAIN lock' : m > n => task'[lock'[m]].id # task'[lock'[n]].id
                 PROVE  Adding(task'[lock'[n]]) <=> rec'[task'[lock'[n]].id] # "none"
      BY DEF Last
    <2>1. DOMAIN lock \subseteq DOMAIN lock' /\ l + 1 \in DOMAIN lock'
      BY <1>1
    <2>2. CASE n = l + 1
      BY <1>1, <1>2, <2>2 DEF Adding
    <2>3. CASE n # l + 1
      <3>1. n \in DOMAIN lock /\ l + 1 > n
        BY <1>1, <2>3
      <3>2. task[lock[n]].id # i
        BY <1>1, <1>2, <1>4, <2>1, <3>1
      <3>3. Last(n)
        BY <1>4, <2>1, <3>1 DEF Last
      <3>4. Adding(task[lock[n]]) <=> rec[task[lock[n]].id] # "none"
        BY <3>1, <3>3 DEF Turns
      <3> QED
        BY <1>2, <1>3, <1>4, <3>1, <3>2, <3>4 DEF Adding
    <2> QED
      BY <2>2, <2>3
  <1> QED
    BY <1>5, <1>6, <1>7, <1>8 DEF Turns

\* The head of the queue has changed the list by its id.
LEMMA TurnsLeft ==
  ASSUME StoreTypes, Turns, NEW p \in Procs, Leaves(p),
         \A q \in Procs \ {p} : SamePlace(task[q], task'[q])
  PROVE  Turns'
  <1> DEFINE i == task[p].id
             l == Len(lock)
  <1>0. lock \in Seq(Procs) /\ lock # <<>> /\ lock' = Tail(lock) /\ Head(lock) = p
    BY DEF Leaves, Holds, StoreTypes
  <1>1. /\ DOMAIN lock = 1 .. l /\ l \in Nat \ {0} /\ lock[1] = p
        /\ DOMAIN lock' = 1 .. (l - 1)
        /\ \A n \in DOMAIN lock' : lock'[n] = lock[n + 1]
    BY <1>0, TailFacts
  <1>2. /\ i \in Ids /\ ~ Waits(task'[p]) /\ rec' = rec
        /\ master' = IF Adding(task[p]) THEN master \union {i} ELSE master \ {i}
    BY FieldTypes DEF Leaves, StoreTypes
  <1> HIDE DEF l, i
  <1>3. \A n \in DOMAIN lock' : n + 1 \in DOMAIN lock /\ n + 1 # 1 /\ n \in Nat
    BY <1>1
  <1>4. \A n \in DOMAIN lock : n # 1 => n - 1 \in DOMAIN lock' /\ lock'[n - 1] = lock[n]
    BY <1>1
  <1>5. \A n \in DOMAIN lock' : lock'[n] \in Procs \ {p}
    BY <1>1, <1>3, QueuedTypes DEF Turns
  <1>6. \A n \in DOMAIN lock' : /\ task'[lock'[n]].id = task[lock[n + 1]].id
                                /\ task'[lock'[n]].op = task[lock[n + 1]].op
    BY <1>1, <1>5 DEF SamePlace
  <1>7. (\A m, n \in DOMAIN lock : lock[m] = lock[n] => m = n)'
    <2> SUFFICES ASSUME NEW m \in DOMAIN lock', NEW n \in DOMAIN lock', lock'[m] = lock'[n]
                 PROVE  m = n
      OBVIOUS
    <2>1. m + 1 = n + 1
      BY <1>1, <1>3 DEF Turns
    <2> QED
      BY <1>3, <2>1
  <1>8. (\A q \in Procs : Waits(task[q]) <=> \E n \in DOMAIN lock : lock[n] = q)'
    <2> SUFFICES ASSUME NEW q \in Procs
                 PROVE  Waits(task'[q]) <=> \E n \in DOMAIN lock' : lock'[n] = q
      OBVIOUS
    <2>1. CASE q = p
      BY <1>2, <1>5, <2>1
    <2>2. CASE q # p
      <3>1. Waits(task'[q]) <=> \E n \in DOMAIN lock : lock[n] = q
        BY <2>2 DEF Turns, SamePlace, Waits
      <3> QED
        BY <1>1, <1>3, <1>4, <2>2, <3>1
    <2> QED
      BY <2>1, <2>2
  <1>9. (\A j \in Ids : (\A n \in DOMAIN lock : task[lock[n]].id # j) =>
           (rec[j] # "none" <=> j \in master))'
    <2> SUFFICES ASSUME NEW j \in Ids, \A n \in DOMAIN lock' : task'[lock'[n]].id # j
                 PROVE  rec[j] # "none" <=> j \in master'
      BY <1>2
    <2>1. \A n \in DOMAIN lock : n # 1 => task[lock[n]].id # j
      <3> SUFFICES ASSUME NEW n \in DOMAIN lock, n # 1 PROVE task[lock[n]].id # j
        OBVIOUS
      <3>1. n - 1 \in DOMAIN lock' /\ (n - 1) + 1 = n
        BY <1>1, <1>4
      <3> QED
        BY <1>6, <3>1
    <2>2. CASE j = i
      <3>1. 1 \in DOMAIN lock /\ task[lock[1]].id = i
        BY <1>1 DEF i
      <3>2. Last(1)
        BY <1>1, <2>1, <2>2, <3>1 DEF Last
      <3>3. Adding(task[p]) <=> rec[i] # "none"
        BY <1>1, <3>1, <3>2 DEF Turns
      <3> QED
        BY <1>2, <2>2, <3>3
    <2>3. CASE j # i
      <3>1. \A n \in DOMAIN lock : task[lock[n]].id # j
        BY <1>1, <2>1, <2>3 DEF i
      <3> QED
        BY <1>2, <2>3, <3>1 DEF Turns
    <2> QED
      BY <2>2, <2>3
  <1>10. (\A n \in DOMAIN lock : Last(n) =>
            (Adding(task[lock[n]]) <=> rec[task[lock[n]].id] # "none"))'
    <2> SUFFICES ASSUME NEW n \in DOMAIN lock',
                        \A m \in DOMAIN lock' : m > n => task'[lock'[m]].id # task'[lock'[n]].id
                 PROVE  Adding(task'[lock'[n]]) <=> rec[task'[lock'[n]].id] # "none"
      BY <1>2 DEF Last
    <2>1. n + 1 \in DOMAIN lock /\ n \in Nat
      BY <1>3
    <2>2. \A m \in DOMAIN lock : m > n + 1 => task[lock[m]].id # task[lock[n + 1]].id
      <3> SUFFICES ASSUME NEW m \in DOMAIN lock, m > n + 1
                   PROVE  task[lock[m]].id # task[lock[n + 1]].id
        OBVIOUS
      <3>1. m - 1 \in DOMAIN lock' /\ (m - 1) + 1 = m /\ m - 1 > n
        BY <1>1, <1>4, <2>1
      <3> QED
        BY <1>6, <3>1
    <2>3. Last(n + 1)
      BY <2>2 DEF Last
    <2> QED
      BY <1>6, <2>1, <2>3 DEF Turns, Adding
  <1> QED
    BY <1>7, <1>8, <1>9, <1>10 DEF Turns

LEMMA TurnsInit == Init => NobodyYet /\ Turns
  <1> SUFFICES ASSUME Init PROVE NobodyYet /\ Turns
    OBVIOUS
  <1>1. /\ lock = <<>> /\ \A p \in Procs : task[p].pc = "idle"
        /\ \A i \in Ids : i \in master <=> rec[i] # "none"
    BY IdleType DEF Init
  <1> QED
    BY <1>1 DEF NobodyYet, Turns, Waits

\* Nothing begins before the collection, and only it ends that time.
LEMMA NobodyYetNext ==
  StoreTypes /\ StoreInv /\ NobodyYet /\ [Next]_vars => NobodyYet'
  <1> SUFFICES ASSUME StoreTypes, StoreInv, NobodyYet, [Next]_vars, phase' = "start"
               PROVE  \A p \in Procs : task'[p].pc = "idle"
    BY DEF NobodyYet
  <1>1. CASE Crash
    BY <1>1, IdleType DEF Crash
  <1>2. CASE UNCHANGED vars \/ \E i \in Ids : Expire(i)
    BY <1>2 DEF vars, Expire, NobodyYet
  <1>3. ASSUME NEW p \in Procs, Step(p) PROVE FALSE
    <2>1. phase = "start"
      BY <1>3, StepShape DEF Enters, Takes, Leaves, Reads, Rejects, Phase
    <2>2. task[p].pc = "idle"
      BY <2>1 DEF NobodyYet
    <2>3. task[p].pc # "idle"
      BY <1>3 DEF Step, Put, ReadIds, Look, Erase, ReadList, WriteList, Reject
    <2> QED
      BY <2>2, <2>3
  <1>4. CASE GarbageCollect \/ \E p \in Callers : List(p) \/ \E i \in Ids : Set(p, i) \/ Get(p, i) \/ Delete(p, i)
    BY <1>4 DEF GarbageCollect, List, Set, Get, Delete, Call
  <1> QED
    BY <1>1, <1>2, <1>3, <1>4 DEF Next

LEMMA TurnsNext ==
  StoreTypes /\ StoreInv /\ NobodyYet /\ (~ hurt => Turns) /\ [Next]_vars => (~ hurt' => Turns')
  <1> SUFFICES ASSUME StoreTypes, StoreInv, NobodyYet, ~ hurt => Turns, [Next]_vars, ~ hurt'
               PROVE  Turns'
    OBVIOUS
  <1>h. ~ hurt
    BY DEF Next, vars, GarbageCollect, Call, List, Set, Get, Delete, Step, Put, ReadIds, Look,
           Erase, ReadList, WriteList, Reject, Expire, Crash
  <1>1. CASE UNCHANGED vars
    BY <1>h, <1>1, TurnsKept DEF vars
  <1>2. CASE GarbageCollect
    <2>1. /\ task' = [p \in Procs |-> IF p \in master THEN Begin("get", "look", p) ELSE task[p]]
          /\ UNCHANGED <<rec, master, lock>> /\ phase = "start"
      BY <1>2 DEF GarbageCollect
    <2>2. \A p \in master : Begin("get", "look", p).pc = "look"
      BY BeginType DEF StoreTypes, Ops, Steps
    <2>3. \A p \in Procs : ~ Waits(task[p]) /\ ~ Waits(task'[p])
      BY <2>1, <2>2 DEF NobodyYet, Waits
    <2> QED
      BY <1>h, <2>1, <2>3, TurnsKept
  <1>3. ASSUME NEW p \in Callers,
               List(p) \/ \E i \in Ids : Set(p, i) \/ Get(p, i) \/ Delete(p, i)
        PROVE  Turns'
    <2>1. /\ UNCHANGED <<rec, master, lock>> /\ p \in Procs /\ ~ Waits(task[p])
      BY <1>3 DEF List, Set, Get, Delete, Call, Procs, Waits
    <2>2. /\ ~ Waits(task'[p])
          /\ \A q \in Procs \ {p} : SamePlace(task[q], task'[q])
      BY <1>3, CallShapes
    <2> QED
      BY <1>h, <2>1, <2>2, TurnsKept DEF SamePlace, Waits
  <1>4. ASSUME NEW p \in Procs, Step(p) PROVE Turns'
    <2>1. /\ \A q \in Procs \ {p} : SamePlace(task[q], task'[q])
          /\ Enters(p) \/ Takes(p) \/ Leaves(p) \/ Reads(p)
      BY <1>4, StepShape DEF Rejects
    <2>2. CASE Enters(p)
      BY <1>h, <2>1, <2>2, TurnsJoined
    <2>3. CASE Leaves(p)
      BY <1>h, <2>1, <2>3, TurnsLeft
    <2>4. CASE Takes(p) \/ Reads(p)
      <3>1. UNCHANGED <<rec, master, lock>>
        BY <2>4 DEF Takes, Reads
      <3>2. /\ Waits(task'[p]) <=> Waits(task[p])
            /\ Waits(task[p]) => task'[p].op = task[p].op /\ task'[p].id = task[p].id
        BY <2>4 DEF Takes, Reads, Waits
      <3> QED
        BY <1>h, <2>1, <3>1, <3>2, TurnsKept DEF SamePlace, Waits
    <2> QED
      BY <2>1, <2>2, <2>3, <2>4
  <1>5. ASSUME NEW i \in Ids, Expire(i) PROVE Turns'
    <2>1. UNCHANGED <<master, lock, task>> /\ \A j \in Ids : rec'[j] = "none" <=> rec[j] = "none"
      BY <1>5 DEF Expire, StoreTypes
    <2> QED
      BY <1>h, <2>1, TurnsKept
  <1>6. ~ Crash
    BY DEF Crash
  <1> QED
    BY <1>1, <1>2, <1>3, <1>4, <1>5, <1>6 DEF Next

-----------------------------------------------------------------------------
\* Every reachable state of the store is well typed.
THEOREM TypeCorrect == Spec => []TypeOK
  <1>1. Spec => []StoreTypes
    BY TypeInit, StoreInit, StoreNext, PTL DEF Spec
  <1>2. Init => hurt \in BOOLEAN
    BY DEF Init
  <1>3. hurt \in BOOLEAN /\ [Next]_vars => (hurt \in BOOLEAN)'
    BY DEF Next, vars, GarbageCollect, Call, List, Set, Get, Delete, Step, Put, ReadIds, Look,
           Erase, ReadList, WriteList, Reject, Expire, Crash
  <1>4. StoreTypes /\ hurt \in BOOLEAN => TypeOK
    BY DEF TypeOK
  <1> QED
    BY <1>1, <1>2, <1>3, <1>4, PTL DEF Spec

\* What makes the next two inductive holds always: nobody but the holder of the
\* mutex is about to write the list, and what it read is still the list.
THEOREM MutexOrders == Spec => []StoreInv
  BY TypeInit, StoreInit, StoreNext, PTL DEF Spec

\* A session whose set() completed keeps its record and its place in the
\* master list until something begins to remove it, whatever overlaps, rejects
\* or dies (set, addToMasterList, removeFromMasterList, garbageCollect).
THEOREM SavedIsKept == Spec => []NoLostEntry
  <1>1. Spec => []StoreInv
    BY MutexOrders
  <1>2. StoreInv => NoLostEntry
    BY DEF StoreInv
  <1> QED
    BY <1>1, <1>2, PTL

\* list() returns every session that stayed saved while it ran (list, get).
THEOREM ListMissesNothing == Spec => []ListIsComplete
  <1>1. Spec => []StoreInv
    BY MutexOrders
  <1>2. StoreInv => ListIsComplete
    BY DEF StoreInv
  <1> QED
    BY <1>1, <1>2, PTL

\* create() hands out the store only once no record is unreadable: what
\* garbageCollect could not read it erased, and nothing unreadable is written
\* later (create, garbageCollect, get, delete).
THEOREM NothingUnreadableIsUsed == Spec => []UsedAfterGc
  <1>1. Spec => []Unreadable
    BY TypeInit, StoreInit, StoreNext, UnreadableInit, UnreadableNext, PTL DEF Spec
  <1>2. Unreadable => UsedAfterGc
    BY DEF Unreadable, UsedAfterGc
  <1> QED
    BY <1>1, <1>2, PTL

\* While nothing fails, list and records agree whenever the store is at rest,
\* in whatever order set() and delete() of one session overlapped
\* (addToMasterList, removeFromMasterList, under one mutex).
THEOREM RestingStoreAgrees == Spec => []ListMatchesRecords
  <1>1. Spec => [](StoreTypes /\ StoreInv /\ NobodyYet /\ (~ hurt => Turns))
    BY TypeInit, StoreInit, StoreNext, TurnsInit, NobodyYetNext, TurnsNext, PTL DEF Spec
  <1>2. StoreTypes /\ (~ hurt => Turns) => ListMatchesRecords
    <2> SUFFICES ASSUME StoreTypes, Turns, AtRest PROVE master = {i \in Ids : rec[i] # "none"}
      BY DEF ListMatchesRecords
    <2>1. \A n \in DOMAIN lock : FALSE
      BY QueuedTypes DEF AtRest, Turns, Waits
    <2> QED
      BY <2>1 DEF Turns, StoreTypes
  <1> QED
    BY <1>1, <1>2, PTL
=============================================================================
