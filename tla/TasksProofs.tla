---------------------------- MODULE TasksProofs ----------------------------
(***************************************************************************)
(* Proofs about tasks, the scheduler and the worker pool, for any finite   *)
(* non-empty pool, any finite set of Task objects, any initial capacity of *)
(* the table, with and without nested SPAWNs, when a handle is waited for  *)
(* only by the context it was returned to and only until a wait uses it up *)
(* (Shared = FALSE).  When handles are shared the pointer sigil_wait keeps *)
(* can dangle: that is the violation of PointersLive, found by TLC.        *)
(***************************************************************************)
EXTENDS Tasks, FiniteSetTheorems, SequenceTheorems, TLAPS

(* Task k has been entered in the table under its own handle. *)
InTable(k) == id[k] \in 1 .. capacity - 1 /\ table[id[k]] = k

Busy == {"created", "discard", "enqueue", "asleep", "woken", "destroy"}
Outside == {"created", "discard", "destroy"}
Waiting == {"asleep", "woken", "any", "anyAsleep"}
Leaving == {"broadcast", "join", "joined", "down"}

(* The table only holds live tasks, each in the slot its id names, and a   *)
(* live task that is not there is being created or destroyed.              *)
TableSound ==
    /\ \A i \in 1 .. capacity - 1 :
         table[i] # None => heap[table[i]] = "live" /\ id[table[i]] = i
    /\ \A k \in Tasks : heap[k] = "live" =>
         InTable(k) \/ \E c \in Contexts : pc[c] \in Outside /\ ptr[c] = k

(* A context keeps a pointer exactly while it is inside SPAWN or WAIT, and *)
(* it points at a live task, in the table while the task has its slot.     *)
PtrSound ==
    /\ \A c \in Contexts : pc[c] \in Busy <=> ptr[c] # None
    /\ \A c \in Contexts : ptr[c] # None => heap[ptr[c]] = "live"
    /\ \A c \in Contexts : pc[c] \in {"enqueue", "asleep", "woken"} => InTable(ptr[c])

(* A task reaped and about to be destroyed has completed; it has left the  *)
(* table, and one just created has not entered it.                         *)
DestroySound ==
    \A c \in Contexts :
        /\ pc[c] = "destroy" => state[ptr[c]] = "completed"
        /\ pc[c] \in Outside => \A i \in 1 .. capacity - 1 : table[i] # ptr[c]

(* WAIT keeps the one handle of the task it sleeps on, WAIT_ANY handles    *)
(* that are still held.                                                    *)
WantSound ==
    /\ \A c \in Contexts : pc[c] \in {"asleep", "woken"} => want[c] = {<<id[ptr[c]], ptr[c]>>}
    /\ \A c \in Contexts : pc[c] \in {"any", "anyAsleep"} => want[c] \subseteq held[c]
    /\ \A c \in Contexts : pc[c] \notin Waiting => want[c] = {}

(* A task is in the hands of one context at most: of one that holds its    *)
(* handle, or of one that keeps its pointer.                               *)
OneOwner ==
    /\ \A c, d \in Contexts : \A e \in held[c], f \in held[d] :
         e[2] # None /\ e[2] = f[2] => c = d /\ e = f
    /\ \A c, d \in Contexts : \A e \in held[c] : e[2] # None => e[2] # ptr[d]
    /\ \A c, d \in Contexts : ptr[c] # None /\ ptr[c] = ptr[d] => c = d

(* Until the table is torn down a handle is 0, or the id of a task in the  *)
(* table.                                                                  *)
HandlesValid ==
    pc[Main] # "down" => \A c \in Contexts : \A e \in held[c] :
        \/ e = <<0, None>>
        \/ e[2] \in Tasks /\ e[1] = id[e[2]] /\ InTable(e[2]) /\ heap[e[2]] = "live"

(* Every task on its way is live and in the state its place implies. *)
PlacesTyped ==
    /\ \A w \in Workers : wtask[w] # None <=> wpc[w] \in {"start", "run"}
    /\ \A c \in Contexts : pc[c] \in Spawning => state[ptr[c]] = "pending"
    /\ \A i \in 1 .. Len(queue) : heap[queue[i]] = "live" /\ state[queue[i]] = "pending"
    /\ \A w \in Workers : wtask[w] # None =>
         heap[wtask[w]] = "live" /\ state[wtask[w]] = IF wpc[w] = "start" THEN "pending" ELSE "running"

(* No task is in two places. *)
PlacesApart ==
    /\ \A i, j \in 1 .. Len(queue) : queue[i] = queue[j] => i = j
    /\ \A v, w \in Workers : wtask[v] # None /\ wtask[v] = wtask[w] => v = w
    /\ \A i \in 1 .. Len(queue), w \in Workers : queue[i] # wtask[w]
    /\ \A i \in 1 .. Len(queue), c \in Contexts : pc[c] \in Spawning => queue[i] # ptr[c]
    /\ \A w \in Workers, c \in Contexts : pc[c] \in Spawning => wtask[w] # ptr[c]

(* Every live task that has not completed is in some place. *)
Placed ==
    \A k \in Tasks : heap[k] = "live" /\ state[k] # "completed" =>
        \/ \E c \in Contexts : pc[c] \in Spawning /\ ptr[c] = k
        \/ \E i \in 1 .. Len(queue) : queue[i] = k
        \/ \E w \in Workers : wtask[w] = k

(* A task's code runs only while a worker runs the task; only the main     *)
(* thread shuts the runtime down; workers leave only then, and the last    *)
(* one to leave leaves an empty queue.                                     *)
PoolSound ==
    /\ pc[Main] # "off"
    /\ \A k \in Tasks : pc[k] \notin Leaving
    /\ \A k \in Tasks : pc[k] # "off" => \E w \in Workers : wpc[w] = "run" /\ wtask[w] = k
    /\ shutdown <=> pc[Main] \in Leaving
    /\ \A w \in Workers : wpc[w] = "exited" => shutdown
    /\ (\A w \in Workers : wpc[w] = "exited") => queue = <<>>
    /\ pc[Main] \in {"joined", "down"} => \A w \in Workers : wpc[w] = "exited"
    /\ pc[Main] = "down" => \A k \in Tasks : heap[k] # "live"

(* Whoever sleeps sleeps on tasks that have not completed. *)
SleepSound ==
    /\ \A c \in Contexts : pc[c] = "asleep" => state[ptr[c]] # "completed"
    /\ \A c \in Contexts : pc[c] = "anyAsleep" =>
         \A e \in want[c] : e[2] # None => state[e[2]] # "completed"

IInv ==
    /\ TasksTypeOK /\ TableSound /\ PtrSound /\ DestroySound /\ WantSound
    /\ OneOwner /\ HandlesValid
    /\ PlacesTyped /\ PlacesApart /\ Placed /\ PoolSound /\ SleepSound

-----------------------------------------------------------------------------
(* The contexts are the tasks and the main thread. *)
LEMMA ContextFacts ==
    /\ Contexts = Tasks \cup {Main} /\ Main \in Contexts /\ Tasks \subseteq Contexts
    /\ Main \notin Tasks /\ None \notin Tasks
  BY TasksAssumption DEF Contexts

(* A step that leaves the queue and the workers' tasks alone, lets no      *)
(* spawner go and adds no unfinished task keeps every task in its place.   *)
LEMMA PlacedKeep ==
    ASSUME Placed, queue' = queue, wtask' = wtask,
           \A c \in Contexts : pc[c] \in Spawning => pc'[c] \in Spawning /\ ptr'[c] = ptr[c],
           \A k \in Tasks : heap'[k] = "live" /\ state'[k] # "completed" =>
                              heap[k] = "live" /\ state[k] # "completed"
    PROVE  Placed'
  BY DEF Placed

(* While some context still runs, the pool has not been joined. *)
LEMMA StillUp ==
    ASSUME IInv, NEW c \in Contexts, pc[c] \notin {"off", "joined", "down"}
    PROVE  pc[Main] \notin {"joined", "down"}
  BY ContextFacts DEF IInv, PoolSound

(* What task_table_insert does: the task gets a slot that was free,        *)
(* perhaps in the new half of a doubled table, and no other task moves.    *)
Inserted(k) ==
    /\ id' \in [Tasks -> Nat] /\ \A m \in Tasks : m # k => id'[m] = id[m]
    /\ capacity' \in Nat \ {0} /\ capacity <= capacity'
    /\ table' \in [1 .. capacity' - 1 -> Tasks \cup {None}]
    /\ id'[k] \in 1 .. capacity' - 1 /\ table'[id'[k]] = k
    /\ id'[k] \in 1 .. capacity - 1 => table[id'[k]] = None
    /\ \A j \in 1 .. capacity - 1 : j # id'[k] => table'[j] = table[j]
    /\ \A j \in 1 .. capacity' - 1 : j # id'[k] /\ table'[j] # None => j \in 1 .. capacity - 1

(* task_table_insert (task.c:46-75) does that. *)
LEMMA InsertFacts == ASSUME TasksTypeOK, NEW k \in Tasks, Insert(k) PROVE Inserted(k)
<1>1. ASSUME NEW i \in FreeSlots, id' = [id EXCEPT ![k] = i],
             table' = [table EXCEPT ![i] = k], UNCHANGED capacity
      PROVE  Inserted(k)
  <2>1. i \in 1 .. capacity - 1 /\ table[i] = None
    BY DEF FreeSlots
  <2>2. id' \in [Tasks -> Nat] /\ id'[k] = i /\ \A m \in Tasks : m # k => id'[m] = id[m]
    BY <1>1, <2>1 DEF TasksTypeOK
  <2>3. table' \in [1 .. capacity - 1 -> Tasks \cup {None}] /\ table'[i] = k
    BY <1>1, <2>1 DEF TasksTypeOK
  <2>4. \A j \in 1 .. capacity - 1 : j # i => table'[j] = table[j]
    BY <1>1, <2>1 DEF TasksTypeOK
  <2> QED
    BY <1>1, <2>1, <2>2, <2>3, <2>4 DEF TasksTypeOK, Inserted
<1>2. ASSUME id' = [id EXCEPT ![k] = capacity], capacity' = 2 * capacity,
             table' = [j \in 1 .. 2 * capacity - 1 |->
                         IF j < capacity THEN table[j] ELSE IF j = capacity THEN k ELSE None]
      PROVE  Inserted(k)
  <2>1. capacity \in Nat \ {0} /\ capacity' \in Nat \ {0} /\ capacity <= capacity' /\ capacity \in 1 .. capacity' - 1
    BY <1>2 DEF TasksTypeOK
  <2>2. id' \in [Tasks -> Nat] /\ id'[k] = capacity /\ \A m \in Tasks : m # k => id'[m] = id[m]
    BY <1>2 DEF TasksTypeOK
  <2>3. \A j \in 1 .. capacity - 1 : table[j] \in Tasks \cup {None}
    BY DEF TasksTypeOK
  <2>4. table' \in [1 .. capacity' - 1 -> Tasks \cup {None}] /\ table'[capacity] = k
    BY <1>2, <2>1, <2>3
  <2>5. \A j \in 1 .. capacity - 1 : table'[j] = table[j]
    BY <1>2, <2>1
  <2>6. \A j \in 1 .. capacity' - 1 : j # capacity /\ table'[j] # None => j \in 1 .. capacity - 1
    BY <1>2, <2>1
  <2>7. id'[k] \notin 1 .. capacity - 1 /\ id'[k] \in 1 .. capacity' - 1 /\ table'[id'[k]] = k
    <3>1. capacity \notin 1 .. capacity - 1
      BY <2>1
    <3> QED
      BY <3>1, <2>1, <2>2, <2>4, Zenon
  <2>8. \A j \in 1 .. capacity - 1 : j # id'[k] => table'[j] = table[j]
    BY <2>5
  <2>9. \A j \in 1 .. capacity' - 1 : j # id'[k] /\ table'[j] # None => j \in 1 .. capacity - 1
    BY <2>2, <2>6
  <2> QED
    BY <2>1, <2>2, <2>4, <2>7, <2>8, <2>9, Zenon DEF Inserted
<1> QED
  BY <1>1, <1>2 DEF Insert

(* A worker that finds nothing to do prepares to sleep                     *)
(* (scheduler.c:56-60).                                                    *)
LEMMA DequeueEmptyStep ==
    ASSUME IInv, NEW w \in Workers, DequeueEmpty(w)
    PROVE  IInv'
<1> USE ContextFacts DEF Spawning, Outside
<1>1. TasksTypeOK'
  BY DEF IInv, TasksTypeOK, DequeueEmpty, taskVars, ctxVars
<1>2. TableSound'
  BY DEF IInv, TableSound, InTable, DequeueEmpty, taskVars, ctxVars
<1>3. PtrSound'
  BY DEF IInv, PtrSound, InTable, Busy, DequeueEmpty, taskVars, ctxVars
<1>4. DestroySound'
  BY DEF IInv, DestroySound, DequeueEmpty, taskVars, ctxVars
<1>5. WantSound'
  BY DEF IInv, WantSound, Waiting, DequeueEmpty, taskVars, ctxVars
<1>6. OneOwner'
  BY DEF IInv, OneOwner, DequeueEmpty, taskVars, ctxVars
<1>7. HandlesValid'
  BY DEF IInv, HandlesValid, InTable, DequeueEmpty, taskVars, ctxVars
<1>8. PlacesTyped'
  BY DEF IInv, PlacesTyped, DequeueEmpty, taskVars, ctxVars
<1>9. PlacesApart'
  BY DEF IInv, PlacesApart, DequeueEmpty, taskVars, ctxVars
<1>10. Placed'
  BY PlacedKeep DEF IInv, TasksTypeOK, DequeueEmpty, taskVars, ctxVars
<1>11. PoolSound'
  BY DEF IInv, PoolSound, Leaving, DequeueEmpty, taskVars, ctxVars
<1>12. SleepSound'
  BY DEF IInv, SleepSound, DequeueEmpty, taskVars, ctxVars
<1> QED
  BY <1>1, <1>2, <1>3, <1>4, <1>5, <1>6, <1>7, <1>8, <1>9, <1>10, <1>11, <1>12 DEF IInv

(* A worker goes to sleep on queue_not_empty.                              *)
LEMMA DequeueWaitStep ==
    ASSUME IInv, NEW w \in Workers, DequeueWait(w)
    PROVE  IInv'
<1> USE ContextFacts DEF Spawning, Outside
<1>1. TasksTypeOK'
  BY DEF IInv, TasksTypeOK, DequeueWait, taskVars, ctxVars
<1>2. TableSound'
  BY DEF IInv, TableSound, InTable, DequeueWait, taskVars, ctxVars
<1>3. PtrSound'
  BY DEF IInv, PtrSound, InTable, Busy, DequeueWait, taskVars, ctxVars
<1>4. DestroySound'
  BY DEF IInv, DestroySound, DequeueWait, taskVars, ctxVars
<1>5. WantSound'
  BY DEF IInv, WantSound, Waiting, DequeueWait, taskVars, ctxVars
<1>6. OneOwner'
  BY DEF IInv, OneOwner, DequeueWait, taskVars, ctxVars
<1>7. HandlesValid'
  BY DEF IInv, HandlesValid, InTable, DequeueWait, taskVars, ctxVars
<1>8. PlacesTyped'
  BY DEF IInv, PlacesTyped, DequeueWait, taskVars, ctxVars
<1>9. PlacesApart'
  BY DEF IInv, PlacesApart, DequeueWait, taskVars, ctxVars
<1>10. Placed'
  BY PlacedKeep DEF IInv, TasksTypeOK, DequeueWait, taskVars, ctxVars
<1>11. PoolSound'
  BY DEF IInv, PoolSound, Leaving, DequeueWait, taskVars, ctxVars
<1>12. SleepSound'
  BY DEF IInv, SleepSound, DequeueWait, taskVars, ctxVars
<1> QED
  BY <1>1, <1>2, <1>3, <1>4, <1>5, <1>6, <1>7, <1>8, <1>9, <1>10, <1>11, <1>12 DEF IInv

(* A worker leaves; the last one to leave has seen an empty queue.         *)
LEMMA DequeueExitStep ==
    ASSUME IInv, NEW w \in Workers, DequeueExit(w)
    PROVE  IInv'
<1> USE ContextFacts DEF Spawning, Outside
<1>1. TasksTypeOK'
  BY DEF IInv, TasksTypeOK, DequeueExit, taskVars, ctxVars
<1>2. TableSound'
  BY DEF IInv, TableSound, InTable, DequeueExit, taskVars, ctxVars
<1>3. PtrSound'
  BY DEF IInv, PtrSound, InTable, Busy, DequeueExit, taskVars, ctxVars
<1>4. DestroySound'
  BY DEF IInv, DestroySound, DequeueExit, taskVars, ctxVars
<1>5. WantSound'
  BY DEF IInv, WantSound, Waiting, DequeueExit, taskVars, ctxVars
<1>6. OneOwner'
  BY DEF IInv, OneOwner, DequeueExit, taskVars, ctxVars
<1>7. HandlesValid'
  BY DEF IInv, HandlesValid, InTable, DequeueExit, taskVars, ctxVars
<1>8. PlacesTyped'
  BY DEF IInv, PlacesTyped, DequeueExit, taskVars, ctxVars
<1>9. PlacesApart'
  BY DEF IInv, PlacesApart, DequeueExit, taskVars, ctxVars
<1>10. Placed'
  BY PlacedKeep DEF IInv, TasksTypeOK, DequeueExit, taskVars, ctxVars
<1>11. PoolSound'
  BY DEF IInv, PoolSound, Leaving, DequeueExit, taskVars, ctxVars
<1>12. SleepSound'
  BY DEF IInv, SleepSound, DequeueExit, taskVars, ctxVars
<1> QED
  BY <1>1, <1>2, <1>3, <1>4, <1>5, <1>6, <1>7, <1>8, <1>9, <1>10, <1>11, <1>12 DEF IInv

(* A worker takes the task at the head: it moves from the queue to the     *)
(* worker.                                                                 *)
LEMMA DequeueTakeStep ==
    ASSUME IInv, NEW w \in Workers, DequeueTake(w)
    PROVE  IInv'
<1> USE ContextFacts DEF Spawning, Outside
<1>a. /\ wpc[w] = "fetch" /\ wtask[w] = None
      /\ wtask' = [wtask EXCEPT ![w] = Head(queue)]
      /\ wpc' = [wpc EXCEPT ![w] = "start"]
  BY DEF DequeueTake, IInv, PlacesTyped
<1>b. /\ Head(queue) = queue[1] /\ queue[1] \in Tasks /\ 1 \in 1 .. Len(queue)
      /\ Len(queue') = Len(queue) - 1
      /\ \A i \in 1 .. Len(queue') : i + 1 \in 1 .. Len(queue) /\ queue'[i] = queue[i + 1]
      /\ queue' \in Seq(Tasks)
  BY DEF DequeueTake, IInv, TasksTypeOK
<1>c. \A v \in Workers : wtask'[v] = IF v = w THEN queue[1] ELSE wtask[v]
  BY <1>a, <1>b DEF IInv, TasksTypeOK
<1>1. TasksTypeOK'
  BY DEF IInv, TasksTypeOK, DequeueTake, taskVars, ctxVars
<1>2. TableSound'
  BY DEF IInv, TableSound, InTable, DequeueTake, taskVars, ctxVars
<1>3. PtrSound'
  BY DEF IInv, PtrSound, InTable, Busy, DequeueTake, taskVars, ctxVars
<1>4. DestroySound'
  BY DEF IInv, DestroySound, DequeueTake, taskVars, ctxVars
<1>5. WantSound'
  BY DEF IInv, WantSound, Waiting, DequeueTake, taskVars, ctxVars
<1>6. OneOwner'
  BY DEF IInv, OneOwner, DequeueTake, taskVars, ctxVars
<1>7. HandlesValid'
  BY DEF IInv, HandlesValid, InTable, DequeueTake, taskVars, ctxVars
<1>8. PlacesTyped'
  BY DEF IInv, TasksTypeOK, PlacesTyped, DequeueTake, QueueUnlocked, taskVars, ctxVars
<1>9. PlacesApart'
  <2>1. \A i, j \in 1 .. Len(queue') : queue'[i] = queue'[j] => i = j
    BY <1>b DEF IInv, PlacesApart
  <2>2. \A u, v \in Workers : wtask'[u] # None /\ wtask'[u] = wtask'[v] => u = v
    BY <1>b, <1>c DEF IInv, PlacesApart
  <2>3. \A i \in 1 .. Len(queue'), v \in Workers : queue'[i] # wtask'[v]
    BY <1>b, <1>c DEF IInv, PlacesApart
  <2>4. \A i \in 1 .. Len(queue'), c \in Contexts : pc'[c] \in Spawning => queue'[i] # ptr'[c]
    BY <1>b DEF IInv, PlacesApart, DequeueTake, ctxVars
  <2>5. \A v \in Workers, c \in Contexts : pc'[c] \in Spawning => wtask'[v] # ptr'[c]
    BY <1>b, <1>c DEF IInv, PlacesApart, DequeueTake, ctxVars
  <2> QED
    BY <2>1, <2>2, <2>3, <2>4, <2>5 DEF PlacesApart
<1>10. Placed'
  <2> SUFFICES ASSUME NEW k \in Tasks, heap[k] = "live", state[k] # "completed"
               PROVE  \/ \E c \in Contexts : pc[c] \in Spawning /\ ptr[c] = k
                      \/ \E i \in 1 .. Len(queue') : queue'[i] = k
                      \/ \E v \in Workers : wtask'[v] = k
    BY DEF DequeueTake, Placed, taskVars, ctxVars
  <2>1. ASSUME NEW i \in 1 .. Len(queue), queue[i] = k
        PROVE  (\E j \in 1 .. Len(queue') : queue'[j] = k) \/ (\E v \in Workers : wtask'[v] = k)
    <3>1. CASE i = 1
      BY <3>1, <2>1, <1>c
    <3>2. CASE i # 1
      <4>1. i - 1 \in 1 .. Len(queue') /\ queue'[i - 1] = k
        BY <3>2, <2>1, <1>b, SMTT(60) DEF IInv, TasksTypeOK
      <4> QED
        BY <4>1
    <3> QED
      BY <3>1, <3>2
  <2>2. ASSUME NEW v \in Workers, wtask[v] = k PROVE wtask'[v] = k
    BY <2>2, <1>a, <1>c
  <2> QED
    BY <2>1, <2>2 DEF IInv, Placed
<1>11. PoolSound'
  BY DEF IInv, PoolSound, Leaving, DequeueTake, taskVars, ctxVars
<1>12. SleepSound'
  BY DEF IInv, SleepSound, DequeueTake, taskVars, ctxVars
<1> QED
  BY <1>1, <1>2, <1>3, <1>4, <1>5, <1>6, <1>7, <1>8, <1>9, <1>10, <1>11, <1>12 DEF IInv

(* The worker starts its task, whose code was not running before.          *)
LEMMA StartTaskStep ==
    ASSUME IInv, NEW w \in Workers, StartTask(w)
    PROVE  IInv'
<1> USE ContextFacts DEF Spawning, Outside
<1>a. PICK k \in Tasks : k = wtask[w]
  BY DEF StartTask, IInv, TasksTypeOK, PlacesTyped
<1>b. /\ wpc[w] = "start" /\ heap[k] = "live" /\ state[k] = "pending" /\ pc[k] = "off" /\ ptr[k] = None
  <2>1. wpc[w] = "start" /\ heap[k] = "live" /\ state[k] = "pending"
    BY <1>a DEF StartTask, IInv, PlacesTyped
  <2>2. pc[k] = "off"
    BY <2>1, <1>a DEF IInv, PoolSound, PlacesApart
  <2> QED
    BY <2>1, <2>2 DEF IInv, PtrSound, Busy
<1>c. /\ state' = [state EXCEPT ![k] = "running"] /\ state'[k] = "running"
      /\ \A m \in Tasks : m # k => state'[m] = state[m]
      /\ pc' = [pc EXCEPT ![k] = "run"] /\ pc'[k] = "run"
      /\ \A d \in Contexts : d # k => pc'[d] = pc[d]
      /\ wpc' = [wpc EXCEPT ![w] = "run"] /\ wpc'[w] = "run"
      /\ \A v \in Workers : v # w => wpc'[v] = wpc[v]
  BY <1>a DEF StartTask, IInv, TasksTypeOK
<1>d. UNCHANGED <<heap, id, capacity, table, queue, shutdown, wtask, ptr, want, held>>
  BY DEF StartTask
<1>1. TasksTypeOK'
  BY <1>a, <1>b, <1>c, <1>d DEF IInv, TasksTypeOK
<1>2. TableSound'
  BY <1>a, <1>b, <1>c, <1>d DEF IInv, TasksTypeOK, TableSound, InTable
<1>3. PtrSound'
  BY <1>a, <1>b, <1>c, <1>d DEF IInv, TasksTypeOK, PtrSound, InTable, Busy
<1>4. DestroySound'
  BY <1>a, <1>b, <1>c, <1>d DEF IInv, TasksTypeOK, DestroySound, PtrSound, Busy
<1>5. WantSound'
  BY <1>a, <1>b, <1>c, <1>d, ZenonT(60) DEF IInv, TasksTypeOK, WantSound, Waiting
<1>6. OneOwner'
  BY <1>d DEF IInv, OneOwner
<1>7. HandlesValid'
  BY <1>a, <1>b, <1>c, <1>d DEF IInv, TasksTypeOK, HandlesValid, InTable
<1>8. PlacesTyped'
  <2>1. \A v \in Workers : wtask[v] = k => v = w
    BY <1>a DEF IInv, PlacesApart
  <2>2. \A i \in 1 .. Len(queue) : queue[i] # k
    BY <1>a DEF IInv, PlacesApart
  <2>3. \A c \in Contexts : pc[c] \in Spawning => ptr[c] # k
    BY <1>a DEF IInv, PlacesApart
  <2>4. \A i \in 1 .. Len(queue) : queue[i] \in Tasks
    BY DEF IInv, TasksTypeOK
  <2>5. \A c \in Contexts : pc'[c] \in Spawning => state'[ptr'[c]] = "pending"
    BY <1>c, <1>d, <2>3 DEF IInv, TasksTypeOK, PlacesTyped, PtrSound, Busy
  <2>6. \A i \in 1 .. Len(queue') : heap'[queue'[i]] = "live" /\ state'[queue'[i]] = "pending"
    BY <1>c, <1>d, <2>2, <2>4 DEF IInv, PlacesTyped
  <2>7. \A v \in Workers : wtask'[v] # None <=> wpc'[v] \in {"start", "run"}
    BY <1>a, <1>b, <1>c, <1>d DEF IInv, PlacesTyped
  <2>8. ASSUME NEW v \in Workers, wtask'[v] # None
        PROVE  heap'[wtask'[v]] = "live" /\ state'[wtask'[v]] = IF wpc'[v] = "start" THEN "pending" ELSE "running"
    BY <1>a, <1>b, <1>c, <1>d, <2>1, <2>8 DEF IInv, TasksTypeOK, PlacesTyped
  <2> QED
    BY <2>5, <2>6, <2>7, <2>8 DEF PlacesTyped
<1>9. PlacesApart'
  BY <1>a, <1>b, <1>c, <1>d DEF IInv, TasksTypeOK, PlacesApart
<1>10. Placed'
  BY <1>a, <1>b, <1>c, <1>d, PlacedKeep DEF IInv
<1>11. PoolSound'
  BY <1>a, <1>b, <1>c, <1>d DEF IInv, TasksTypeOK, PoolSound, Leaving
<1>12. SleepSound'
  BY <1>a, <1>b, <1>c, <1>d DEF IInv, TasksTypeOK, SleepSound, PtrSound, WantSound, HandlesValid, Busy, Waiting
<1> QED
  BY <1>1, <1>2, <1>3, <1>4, <1>5, <1>6, <1>7, <1>8, <1>9, <1>10, <1>11, <1>12 DEF IInv

(* A task completes: it leaves the worker, and its sleepers are woken.     *)
LEMMA FinishTaskStep ==
    ASSUME IInv, NEW w \in Workers, FinishTask(w)
    PROVE  IInv'
<1> USE ContextFacts DEF Spawning, Outside
<1>a. PICK k \in Tasks : k = wtask[w]
  BY DEF FinishTask, IInv, TasksTypeOK, PlacesTyped
<1>b. /\ wpc[w] = "run" /\ pc[k] = "run" /\ ptr[k] = None /\ heap[k] = "live" /\ state[k] = "running"
  BY <1>a DEF FinishTask, IInv, PlacesTyped, PtrSound, Busy
<1>c. /\ state'[k] = "completed" /\ \A m \in Tasks : m # k => state'[m] = state[m]
      /\ state' \in [Tasks -> {"pending", "running", "completed"}]
  BY <1>a DEF FinishTask, IInv, TasksTypeOK
<1>d. /\ pc'[k] = "off"
      /\ \A c \in Contexts : c # k =>
           pc'[c] = IF pc[c] = "asleep" /\ ptr[c] = k THEN "woken"
                    ELSE IF pc[c] = "anyAsleep" THEN "any" ELSE pc[c]
      /\ DOMAIN pc' = Contexts
  BY <1>a DEF FinishTask
<1>e. /\ wpc' = [wpc EXCEPT ![w] = "fetch"] /\ wtask' = [wtask EXCEPT ![w] = None]
      /\ wpc'[w] = "fetch" /\ \A v \in Workers : v # w => wpc'[v] = wpc[v]
      /\ wtask'[w] = None /\ \A v \in Workers : v # w => wtask'[v] = wtask[v]
  BY DEF FinishTask, IInv, TasksTypeOK
<1>f. UNCHANGED <<heap, id, capacity, table, queue, shutdown, ptr, want, held>>
  BY DEF FinishTask
<1>g. /\ \A v \in Workers : wtask[v] = k => v = w
      /\ \A i \in 1 .. Len(queue) : queue[i] # k
      /\ \A c \in Contexts : pc[c] \in Spawning => ptr[c] # k
      /\ \A c \in Contexts : pc[c] \in Outside => ptr[c] # k
  BY <1>a, <1>b DEF IInv, PlacesApart, DestroySound
<1>1. TasksTypeOK'
  <2>1. pc' \in [Contexts -> {"off", "run", "created", "discard", "enqueue", "asleep", "woken", "any", "anyAsleep",
                              "destroy", "broadcast", "join", "joined", "down"}]
    BY <1>a DEF FinishTask, IInv, TasksTypeOK
  <2> QED
    BY <2>1, <1>c, <1>e, <1>f DEF IInv, TasksTypeOK
<1>2. TableSound'
  <2>1. ASSUME NEW c \in Contexts, pc[c] \in Outside PROVE pc'[c] \in Outside /\ ptr'[c] = ptr[c]
    BY <2>1, <1>b, <1>d, <1>f
  <2> QED
    BY <2>1, <1>f DEF IInv, TableSound, InTable
<1>3. PtrSound'
  <2>1. \A c \in Contexts : pc'[c] \in Busy <=> pc[c] \in Busy
    BY <1>b, <1>d DEF Busy
  <2>2. \A c \in Contexts : pc'[c] \in {"enqueue", "asleep", "woken"} => pc[c] \in {"enqueue", "asleep", "woken"}
    BY <1>b, <1>d
  <2> QED
    BY <2>1, <2>2, <1>f DEF IInv, PtrSound, InTable
<1>4. DestroySound'
  <2> SUFFICES ASSUME NEW c \in Contexts, pc'[c] \in Outside
               PROVE  /\ pc'[c] = "destroy" => state'[ptr[c]] = "completed"
                      /\ \A i \in 1 .. capacity - 1 : table[i] # ptr[c]
    BY <1>f DEF DestroySound
  <2>1. pc[c] \in Outside /\ pc'[c] = pc[c]
    BY <1>b, <1>d
  <2>2. ptr[c] \in Tasks \ {k}
    BY <2>1, <1>g DEF IInv, TasksTypeOK, PtrSound, Busy
  <2> QED
    BY <2>1, <2>2, <1>c DEF IInv, DestroySound
<1>5. WantSound'
  <2>1. \A c \in Contexts : pc'[c] \in {"asleep", "woken"} => pc[c] \in {"asleep", "woken"}
    BY <1>b, <1>d
  <2>2. \A c \in Contexts : pc'[c] \in {"any", "anyAsleep"} => pc[c] \in {"any", "anyAsleep"}
    BY <1>b, <1>d
  <2>3. \A c \in Contexts : pc'[c] \notin Waiting => pc[c] \notin Waiting
    BY <1>b, <1>d DEF Waiting
  <2> QED
    BY <2>1, <2>2, <2>3, <1>f DEF IInv, WantSound
<1>6. OneOwner'
  BY <1>f DEF IInv, OneOwner
<1>7. HandlesValid'
  BY <1>a, <1>d, <1>f DEF IInv, HandlesValid, InTable
<1>8. PlacesTyped'
  <2>1. \A c \in Contexts : pc'[c] \in Spawning => pc[c] \in Spawning
    BY <1>b, <1>d
  <2>2. \A c \in Contexts : pc'[c] \in Spawning => state'[ptr'[c]] = "pending"
    BY <2>1, <1>c, <1>f, <1>g DEF IInv, TasksTypeOK, PlacesTyped, PtrSound, Busy
  <2>3. \A i \in 1 .. Len(queue) : queue[i] \in Tasks
    BY DEF IInv, TasksTypeOK
  <2>4. \A i \in 1 .. Len(queue') : heap'[queue'[i]] = "live" /\ state'[queue'[i]] = "pending"
    BY <2>3, <1>c, <1>f, <1>g DEF IInv, PlacesTyped
  <2>5. \A v \in Workers : wtask'[v] # None <=> wpc'[v] \in {"start", "run"}
    BY <1>e DEF IInv, PlacesTyped
  <2>6. ASSUME NEW v \in Workers, wtask'[v] # None
        PROVE  heap'[wtask'[v]] = "live" /\ state'[wtask'[v]] = IF wpc'[v] = "start" THEN "pending" ELSE "running"
    BY <2>6, <1>c, <1>e, <1>f, <1>g DEF IInv, TasksTypeOK, PlacesTyped
  <2> QED
    BY <2>2, <2>4, <2>5, <2>6 DEF PlacesTyped
<1>9. PlacesApart'
  <2>1. \A c \in Contexts : pc'[c] \in Spawning => pc[c] \in Spawning /\ ptr[c] # None
    BY <1>b, <1>d DEF IInv, PtrSound, Busy
  <2>2. \A v \in Workers : wtask'[v] # None => wtask'[v] = wtask[v]
    BY <1>e
  <2>3. \A i \in 1 .. Len(queue) : queue[i] # None
    BY DEF IInv, TasksTypeOK
  <2> QED
    BY <2>1, <2>2, <2>3, <1>f DEF IInv, PlacesApart
<1>10. Placed'
  <2> SUFFICES ASSUME NEW m \in Tasks, heap[m] = "live", state'[m] # "completed"
               PROVE  \/ \E c \in Contexts : pc'[c] \in Spawning /\ ptr[c] = m
                      \/ \E i \in 1 .. Len(queue) : queue[i] = m
                      \/ \E v \in Workers : wtask'[v] = m
    BY <1>f DEF Placed
  <2>1. m # k /\ state[m] # "completed"
    BY <1>c
  <2>2. \A c \in Contexts : pc[c] \in Spawning => pc'[c] \in Spawning
    BY <1>b, <1>d
  <2>3. \A v \in Workers : wtask[v] = m => wtask'[v] = m
    BY <2>1, <1>a, <1>e
  <2> QED
    BY <2>1, <2>2, <2>3 DEF IInv, Placed
<1>11. PoolSound'
  <2>1. pc'[Main] \in Leaving <=> pc[Main] \in Leaving
    BY <1>d DEF Leaving
  <2>2. pc'[Main] \in {"joined", "down"} <=> pc[Main] \in {"joined", "down"}
    BY <1>d
  <2>3. pc[Main] \notin {"joined", "down"} /\ pc'[Main] # "off"
    BY <1>b, <1>d, StillUp DEF IInv, PoolSound
  <2>4. ASSUME NEW m \in Tasks, pc'[m] # "off" PROVE \E v \in Workers : wpc'[v] = "run" /\ wtask'[v] = m
    <3>1. m # k /\ pc[m] # "off"
      BY <2>4, <1>d
    <3>2. PICK v \in Workers : wpc[v] = "run" /\ wtask[v] = m
      BY <3>1 DEF IInv, PoolSound
    <3>3. v # w
      BY <3>1, <3>2, <1>a
    <3> QED
      BY <3>2, <3>3, <1>e
  <2>5. \A m \in Tasks : pc'[m] \notin Leaving
    BY <1>d DEF IInv, PoolSound, Leaving
  <2>6. \A v \in Workers : wpc'[v] = "exited" => wpc[v] = "exited"
    BY <1>e
  <2>7. ~ \A v \in Workers : wpc'[v] = "exited"
    BY <1>e
  <2> QED
    BY <2>1, <2>2, <2>3, <2>4, <2>5, <2>6, <2>7, <1>f DEF IInv, PoolSound
<1>12. SleepSound'
  <2>1. ASSUME NEW c \in Contexts, pc'[c] = "asleep" PROVE state'[ptr'[c]] # "completed"
    <3>1. pc[c] = "asleep" /\ ptr[c] # k
      BY <2>1, <1>b, <1>d
    <3>2. ptr[c] \in Tasks
      BY <3>1 DEF IInv, TasksTypeOK, PtrSound, Busy
    <3> QED
      BY <3>1, <3>2, <1>c, <1>f DEF IInv, SleepSound
  <2>2. \A c \in Contexts : pc'[c] # "anyAsleep"
    BY <1>d
  <2> QED
    BY <2>1, <2>2 DEF SleepSound
<1> QED
  BY <1>1, <1>2, <1>3, <1>4, <1>5, <1>6, <1>7, <1>8, <1>9, <1>10, <1>11, <1>12 DEF IInv

(* A SPAWN without memory returns handle 0, which denotes no task.         *)
LEMMA SpawnCreateFailsStep ==
    ASSUME IInv, NEW c \in Contexts, SpawnCreateFails(c)
    PROVE  IInv'
<1> USE ContextFacts DEF Spawning, Outside
<1>1. TasksTypeOK'
  BY DEF IInv, TasksTypeOK, Handles, SpawnCreateFails, Program, taskVars, schedVars
<1>2. TableSound'
  BY DEF IInv, TableSound, InTable, SpawnCreateFails, taskVars, schedVars
<1>3. PtrSound'
  BY DEF IInv, PtrSound, InTable, Busy, SpawnCreateFails, taskVars, schedVars
<1>4. DestroySound'
  BY DEF IInv, DestroySound, SpawnCreateFails, taskVars, schedVars
<1>5. WantSound'
  BY DEF IInv, WantSound, Waiting, SpawnCreateFails, taskVars, schedVars
<1>6. OneOwner'
  BY DEF IInv, OneOwner, SpawnCreateFails, taskVars, schedVars
<1>7. HandlesValid'
  BY DEF IInv, HandlesValid, InTable, SpawnCreateFails, taskVars, schedVars
<1>8. PlacesTyped'
  BY DEF IInv, PlacesTyped, SpawnCreateFails, taskVars, schedVars
<1>9. PlacesApart'
  BY DEF IInv, PlacesApart, SpawnCreateFails, taskVars, schedVars
<1>10. Placed'
  BY PlacedKeep DEF IInv, TasksTypeOK, SpawnCreateFails, Program, taskVars, schedVars
<1>11. PoolSound'
  BY DEF IInv, PoolSound, Leaving, SpawnCreateFails, taskVars, schedVars
<1>12. SleepSound'
  BY DEF IInv, SleepSound, SpawnCreateFails, taskVars, schedVars
<1> QED
  BY <1>1, <1>2, <1>3, <1>4, <1>5, <1>6, <1>7, <1>8, <1>9, <1>10, <1>11, <1>12 DEF IInv

(* task_destroy: the task is completed, out of the table and in no other   *)
(* hands.                                                                  *)
LEMMA DestroyStep ==
    ASSUME IInv, NEW c \in Contexts, DestroyTask(c)
    PROVE  IInv'
<1> USE ContextFacts DEF Spawning, Outside
<1>1. TasksTypeOK'
  BY DEF IInv, TasksTypeOK, DestroyTask, schedVars
<1>2. TableSound'
  BY DEF IInv, TasksTypeOK, TableSound, PtrSound, DestroySound, InTable, DestroyTask, schedVars
<1>3. PtrSound'
  BY DEF IInv, TasksTypeOK, PtrSound, TableSound, OneOwner, HandlesValid, PoolSound, InTable,
         Busy, DestroyTask, schedVars
<1>4. DestroySound'
  BY DEF IInv, TasksTypeOK, DestroySound, DestroyTask, schedVars
<1>5. WantSound'
  BY DEF IInv, WantSound, Waiting, DestroyTask, schedVars
<1>6. OneOwner'
  BY DEF IInv, OneOwner, DestroyTask, schedVars
<1>7. HandlesValid'
  BY DEF IInv, TasksTypeOK, HandlesValid, TableSound, OneOwner, PtrSound, WantSound, PoolSound,
         InTable, Busy, Waiting, Leaving, DestroyTask, schedVars
<1>8. PlacesTyped'
  <2>1. PICK k \in Tasks : k = ptr[c]
    BY DEF DestroyTask, IInv, TasksTypeOK, PtrSound, Busy
  <2>2. state[k] = "completed"
    BY <2>1 DEF DestroyTask, IInv, DestroySound
  <2>3. /\ \A m \in Tasks : m # k => heap'[m] = heap[m]
        /\ \A d \in Contexts : pc'[d] \in Spawning => pc[d] \in Spawning /\ ptr'[d] = ptr[d]
        /\ UNCHANGED <<state, queue, wpc, wtask>>
    BY <2>1 DEF DestroyTask, IInv, TasksTypeOK, schedVars
  <2>4. \A i \in 1 .. Len(queue) : queue[i] \in Tasks \ {k}
    BY <2>2 DEF IInv, TasksTypeOK, PlacesTyped
  <2>5. \A w \in Workers : wtask[w] # None => wtask[w] \in Tasks \ {k}
    BY <2>2, SMTT(60) DEF IInv, TasksTypeOK, PlacesTyped
  <2> QED
    BY <2>3, <2>4, <2>5 DEF IInv, PlacesTyped
<1>9. PlacesApart'
  BY DEF IInv, PlacesApart, DestroyTask, schedVars
<1>10. Placed'
  BY PlacedKeep DEF IInv, TasksTypeOK, DestroyTask, schedVars
<1>11. PoolSound'
  BY DEF IInv, PoolSound, Leaving, DestroyTask, schedVars
<1>12. SleepSound'
  BY DEF IInv, SleepSound, DestroyTask, schedVars
<1> QED
  BY <1>1, <1>2, <1>3, <1>4, <1>5, <1>6, <1>7, <1>8, <1>9, <1>10, <1>11, <1>12 DEF IInv

(* WAIT on handle 0 returns at once.                                       *)
LEMMA WaitInvalidStep ==
    ASSUME IInv, Shared = FALSE, NEW c \in Contexts, NEW e \in held[c], WaitInvalid(c, e)
    PROVE  IInv'
<1> USE ContextFacts DEF Spawning, Outside
<1>1. TasksTypeOK'
  BY DEF IInv, TasksTypeOK, WaitInvalid, Program, UsedUp, Lookup, taskVars, schedVars
<1>2. TableSound'
  BY DEF IInv, TableSound, InTable, WaitInvalid, taskVars, schedVars
<1>3. PtrSound'
  BY DEF IInv, PtrSound, InTable, Busy, WaitInvalid, taskVars, schedVars
<1>4. DestroySound'
  BY DEF IInv, DestroySound, WaitInvalid, taskVars, schedVars
<1>5. WantSound'
  BY DEF IInv, TasksTypeOK, WantSound, Waiting, WaitInvalid, Program, UsedUp, Lookup, taskVars,
         schedVars
<1>6. OneOwner'
  BY DEF IInv, TasksTypeOK, OneOwner, WaitInvalid, Program, UsedUp, Lookup, taskVars, schedVars
<1>7. HandlesValid'
  BY DEF IInv, TasksTypeOK, HandlesValid, InTable, WaitInvalid, Program, UsedUp, Lookup,
         taskVars, schedVars
<1>8. PlacesTyped'
  BY DEF IInv, PlacesTyped, WaitInvalid, taskVars, schedVars
<1>9. PlacesApart'
  BY DEF IInv, PlacesApart, WaitInvalid, taskVars, schedVars
<1>10. Placed'
  BY PlacedKeep DEF IInv, TasksTypeOK, WaitInvalid, Program, taskVars, schedVars
<1>11. PoolSound'
  BY DEF IInv, PoolSound, Leaving, WaitInvalid, taskVars, schedVars
<1>12. SleepSound'
  BY DEF IInv, SleepSound, WaitInvalid, taskVars, schedVars
<1> QED
  BY <1>1, <1>2, <1>3, <1>4, <1>5, <1>6, <1>7, <1>8, <1>9, <1>10, <1>11, <1>12 DEF IInv

(* WAIT on a completed task, and WAIT_ANY that finds one: the slot is      *)
(* cleared, and the caller is left with the only pointer to the task.      *)
LEMMA ReapStep ==
    ASSUME IInv, NEW c \in Contexts, NEW e \in held[c], pc[c] \in {"run", "any"},
           Lookup(e[1]) # None, state[Lookup(e[1])] = "completed",
           Reap(c, e[1]), held' = [held EXCEPT ![c] = @ \ {e}],
           want' = [want EXCEPT ![c] = {}], UNCHANGED schedVars
    PROVE  IInv'
<1> USE ContextFacts DEF Spawning, Outside
<1>a. PICK k \in Tasks : /\ e = <<id[k], k>> /\ InTable(k) /\ heap[k] = "live"
                         /\ Lookup(e[1]) = k /\ table[e[1]] = k /\ state[k] = "completed"
  <2>1. pc[Main] # "down"
    BY StillUp
  <2>2. e # <<0, None>>
    BY DEF Lookup
  <2>3. e[2] \in Tasks /\ e[1] = id[e[2]] /\ InTable(e[2]) /\ heap[e[2]] = "live"
    BY <2>1, <2>2 DEF IInv, HandlesValid
  <2>4. e = <<e[1], e[2]>>
    BY DEF IInv, TasksTypeOK, Handles
  <2>5. Lookup(e[1]) = e[2] /\ table[e[1]] = e[2]
    BY <2>3 DEF Lookup, InTable, IInv, TasksTypeOK
  <2> QED
    BY <2>3, <2>4, <2>5
<1>b. id[k] \in 1 .. capacity - 1 /\ table[id[k]] = k /\ e[1] = id[k] /\ e[2] = k
  BY <1>a DEF InTable
<1>c. /\ table' = [table EXCEPT ![id[k]] = None] /\ table'[id[k]] = None
      /\ \A i \in 1 .. capacity - 1 : i # id[k] => table'[i] = table[i]
      /\ ptr' = [ptr EXCEPT ![c] = k] /\ ptr'[c] = k
      /\ \A d \in Contexts : d # c => ptr'[d] = ptr[d]
      /\ pc' = [pc EXCEPT ![c] = "destroy"] /\ pc'[c] = "destroy"
      /\ \A d \in Contexts : d # c => pc'[d] = pc[d]
      /\ held'[c] = held[c] \ {e} /\ \A d \in Contexts : d # c => held'[d] = held[d]
      /\ want'[c] = {} /\ \A d \in Contexts : d # c => want'[d] = want[d]
  BY <1>b DEF Reap, IInv, TasksTypeOK
<1>d. UNCHANGED <<heap, state, id, capacity, queue, shutdown, wpc, wtask>>
  BY DEF Reap, schedVars
<1>e. \A m \in Tasks : m # k /\ InTable(m) => InTable(m)'
  BY <1>b, <1>c, <1>d DEF InTable
<1>f. /\ \A d \in Contexts : ptr[d] # k
      /\ \A d \in Contexts : \A f \in held'[d] : f \in held[d] /\ f[2] # k
  BY <1>b, <1>c DEF IInv, OneOwner
<1>g. \A i \in 1 .. capacity - 1 : i # id[k] => table[i] # k
  BY <1>a, <1>b DEF IInv, TableSound
<1>1. TasksTypeOK'
  BY <1>b, <1>c, <1>d DEF IInv, TasksTypeOK
<1>2. TableSound'
  <2>1. \A i \in 1 .. capacity' - 1 : table'[i] # None => heap'[table'[i]] = "live" /\ id'[table'[i]] = i
    BY <1>c, <1>d DEF IInv, TableSound
  <2>2. ASSUME NEW m \in Tasks, heap'[m] = "live"
        PROVE  InTable(m)' \/ \E d \in Contexts : pc'[d] \in Outside /\ ptr'[d] = m
    <3>1. CASE m = k
      BY <3>1, <1>c
    <3>2. ASSUME NEW d \in Contexts, pc[d] \in Outside, ptr[d] = m
          PROVE  pc'[d] \in Outside /\ ptr'[d] = m
      BY <3>2, <1>c
    <3> QED
      BY <3>1, <3>2, <2>2, <1>d, <1>e DEF IInv, TableSound
  <2> QED
    BY <2>1, <2>2 DEF TableSound
<1>3. PtrSound'
  <2> SUFFICES ASSUME NEW d \in Contexts
               PROVE  /\ pc'[d] \in Busy <=> ptr'[d] # None
                      /\ ptr'[d] # None => heap'[ptr'[d]] = "live"
                      /\ pc'[d] \in {"enqueue", "asleep", "woken"} => InTable(ptr[d])'
    BY DEF PtrSound, InTable
  <2>1. CASE d = c
    BY <2>1, <1>a, <1>c, <1>d DEF Busy
  <2>2. CASE d # c
    <3>1. ASSUME pc[d] \in {"enqueue", "asleep", "woken"} PROVE InTable(ptr[d])'
      <4>1. PICK m \in Tasks : m = ptr[d] /\ m # k
        BY <3>1, <1>f DEF IInv, TasksTypeOK, PtrSound, Busy
      <4>2. InTable(m)'
        BY <4>1, <3>1, <1>e DEF IInv, PtrSound
      <4> QED
        BY <4>1, <4>2, <2>2, <1>c DEF InTable
    <3> QED
      BY <2>2, <3>1, <1>c, <1>d DEF IInv, PtrSound
  <2> QED
    BY <2>1, <2>2
<1>4. DestroySound'
  <2> SUFFICES ASSUME NEW d \in Contexts, pc'[d] \in Outside
               PROVE  /\ pc'[d] = "destroy" => state[ptr'[d]] = "completed"
                      /\ \A i \in 1 .. capacity - 1 : table'[i] # ptr'[d]
    BY <1>d DEF DestroySound
  <2>1. CASE d = c
    BY <2>1, <1>a, <1>c, <1>g
  <2>2. CASE d # c
    <3>1. pc[d] \in Outside /\ pc'[d] = pc[d] /\ ptr'[d] = ptr[d] /\ ptr[d] # None
      BY <2>2, <1>c DEF IInv, PtrSound, Busy
    <3> QED
      BY <3>1, <1>c DEF IInv, DestroySound
  <2> QED
    BY <2>1, <2>2
<1>5. WantSound'
  <2>1. \A d \in Contexts : d # c /\ pc'[d] \in {"asleep", "woken"} => want'[d] = {<<id'[ptr'[d]], ptr'[d]>>}
    BY <1>c, <1>d DEF IInv, WantSound
  <2>2. \A d \in Contexts : d # c /\ pc'[d] \in {"any", "anyAsleep"} => want'[d] \subseteq held'[d]
    BY <1>c DEF IInv, WantSound
  <2>3. \A d \in Contexts : d # c /\ pc'[d] \notin Waiting => want'[d] = {}
    BY <1>c DEF IInv, WantSound
  <2> QED
    BY <2>1, <2>2, <2>3, <1>c DEF WantSound
<1>6. OneOwner'
  <2>1. \A d \in Contexts : held'[d] \subseteq held[d]
    BY <1>c
  <2> QED
    BY <2>1, <1>c, <1>f DEF IInv, OneOwner
<1>7. HandlesValid'
  <2> SUFFICES ASSUME NEW d \in Contexts, NEW f \in held'[d], f # <<0, None>>, pc'[Main] # "down"
               PROVE  f[2] \in Tasks /\ f[1] = id[f[2]] /\ InTable(f[2])' /\ heap[f[2]] = "live"
    BY <1>d DEF HandlesValid, InTable
  <2>1. f \in held[d] /\ f[2] # k /\ pc[Main] # "down"
    BY <1>f, StillUp
  <2>2. f[2] \in Tasks /\ f[1] = id[f[2]] /\ InTable(f[2]) /\ heap[f[2]] = "live"
    BY <2>1 DEF IInv, HandlesValid
  <2> QED
    BY <2>1, <2>2, <1>e, <1>c DEF InTable
<1>8. PlacesTyped'
  BY <1>c, <1>d DEF IInv, PlacesTyped
<1>9. PlacesApart'
  BY <1>c, <1>d DEF IInv, PlacesApart
<1>10. Placed'
  BY <1>c, <1>d, PlacedKeep DEF IInv
<1>11. PoolSound'
  <2>1. /\ pc'[Main] \in Leaving <=> pc[Main] \in Leaving
        /\ pc'[Main] \notin {"joined", "down", "off"}
    BY <1>c, StillUp DEF IInv, PoolSound, Leaving
  <2>2. \A m \in Tasks : pc'[m] # "off" => pc[m] # "off"
    BY <1>c
  <2>3. \A m \in Tasks : pc'[m] \notin Leaving
    BY <1>c DEF IInv, PoolSound, Leaving
  <2> QED
    BY <2>1, <2>2, <2>3, <1>d DEF IInv, PoolSound
<1>12. SleepSound'
  BY <1>c, <1>d DEF IInv, SleepSound
<1> QED
  BY <1>1, <1>2, <1>3, <1>4, <1>5, <1>6, <1>7, <1>8, <1>9, <1>10, <1>11, <1>12 DEF IInv

(* WAIT on a completed task.                                               *)
LEMMA WaitCompletedStep ==
    ASSUME IInv, Shared = FALSE, NEW c \in Contexts, NEW e \in held[c], WaitCompleted(c, e)
    PROVE  IInv'
<1> USE ContextFacts DEF Spawning, Outside
<1>1. held' = [held EXCEPT ![c] = @ \ {e}] /\ UNCHANGED schedVars /\ Reap(c, e[1])
  BY DEF WaitCompleted, UsedUp
<1>2. pc[c] = "run" /\ Lookup(e[1]) # None /\ state[Lookup(e[1])] = "completed"
  BY DEF WaitCompleted, Program
<1>3. want' = [want EXCEPT ![c] = {}]
  BY <1>2 DEF WaitCompleted, IInv, TasksTypeOK, WantSound, Waiting
<1> QED
  BY <1>1, <1>2, <1>3, ReapStep

(* WAIT goes to sleep: the caller gives up the handle and keeps the        *)
(* pointer.                                                                *)
LEMMA WaitSleepStep ==
    ASSUME IInv, Shared = FALSE, NEW c \in Contexts, NEW e \in held[c], WaitSleep(c, e)
    PROVE  IInv'
<1> USE ContextFacts DEF Spawning, Outside
<1>a. pc[Main] # "down" /\ pc[c] = "run"
  BY StillUp DEF WaitSleep, Program
<1>b. PICK k \in Tasks : /\ e = <<id[k], k>> /\ InTable(k) /\ heap[k] = "live"
                         /\ Lookup(e[1]) = k /\ state[k] # "completed"
  <2>1. e # <<0, None>>
    BY DEF WaitSleep, Lookup
  <2>2. e[2] \in Tasks /\ e[1] = id[e[2]] /\ InTable(e[2]) /\ heap[e[2]] = "live"
    BY <2>1, <1>a DEF IInv, HandlesValid
  <2>3. e = <<e[1], e[2]>>
    BY DEF IInv, TasksTypeOK, Handles
  <2>4. Lookup(e[1]) = e[2]
    BY <2>2 DEF Lookup, InTable, IInv, TasksTypeOK
  <2> QED
    BY <2>2, <2>3, <2>4 DEF WaitSleep
<1>c. /\ ptr'[c] = k /\ \A d \in Contexts : d # c => ptr'[d] = ptr[d]
      /\ pc'[c] = "asleep" /\ \A d \in Contexts : d # c => pc'[d] = pc[d]
      /\ held'[c] = held[c] \ {e} /\ \A d \in Contexts : d # c => held'[d] = held[d]
      /\ want'[c] = {e} /\ \A d \in Contexts : d # c => want'[d] = want[d]
  BY <1>b DEF WaitSleep, UsedUp, IInv, TasksTypeOK
<1>d. UNCHANGED <<heap, state, id, capacity, table, queue, shutdown, wpc, wtask>>
  BY DEF WaitSleep, taskVars, schedVars
<1>e. /\ \A d \in Contexts : ptr[d] # k
      /\ \A d \in Contexts : \A f \in held'[d] : f \in held[d] /\ f[2] # k
  BY <1>b, <1>c DEF IInv, OneOwner
<1>1. TasksTypeOK'
  BY DEF IInv, TasksTypeOK, Handles, WaitSleep, Program, UsedUp, Lookup, taskVars, schedVars
<1>2. TableSound'
  BY <1>a, <1>c, <1>d DEF IInv, TableSound, InTable
<1>3. PtrSound'
  BY <1>a, <1>b, <1>c, <1>d DEF IInv, PtrSound, InTable, Busy
<1>4. DestroySound'
  BY <1>c, <1>d DEF IInv, DestroySound
<1>5. WantSound'
  BY <1>b, <1>c, <1>d DEF IInv, WantSound, Waiting
<1>6. OneOwner'
  <2>1. \A d \in Contexts : held'[d] \subseteq held[d]
    BY <1>c
  <2> QED
    BY <2>1, <1>c, <1>e DEF IInv, OneOwner
<1>7. HandlesValid'
  BY DEF IInv, TasksTypeOK, HandlesValid, InTable, WaitSleep, Program, UsedUp, Lookup,
         taskVars, schedVars
<1>8. PlacesTyped'
  BY DEF IInv, TasksTypeOK, PlacesTyped, WaitSleep, Program, UsedUp, Lookup, taskVars,
         schedVars
<1>9. PlacesApart'
  BY DEF IInv, TasksTypeOK, PlacesApart, WaitSleep, Program, UsedUp, Lookup, taskVars,
         schedVars
<1>10. Placed'
  BY PlacedKeep DEF IInv, TasksTypeOK, WaitSleep, Program, taskVars, schedVars
<1>11. PoolSound'
  BY DEF IInv, TasksTypeOK, PoolSound, Leaving, WaitSleep, Program, UsedUp, Lookup, taskVars,
         schedVars
<1>12. SleepSound'
  BY DEF IInv, TasksTypeOK, SleepSound, WaitSleep, Program, UsedUp, Lookup, taskVars, schedVars
<1> QED
  BY <1>1, <1>2, <1>3, <1>4, <1>5, <1>6, <1>7, <1>8, <1>9, <1>10, <1>11, <1>12 DEF IInv

(* WAIT wakes: it goes back to sleep, or clears the slot of its own task.  *)
LEMMA WaitWokenStep ==
    ASSUME IInv, NEW c \in Contexts, WaitWoken(c)
    PROVE  IInv'
<1> USE ContextFacts DEF Spawning, Outside
<1>a. PICK k \in Tasks : k = ptr[c]
  BY DEF WaitWoken, IInv, TasksTypeOK, PtrSound, Busy
<1>b. /\ pc[c] = "woken" /\ heap[k] = "live" /\ InTable(k) /\ want[c] = {<<id[k], k>>}
      /\ id[k] \in 1 .. capacity - 1 /\ table[id[k]] = k
  BY <1>a DEF WaitWoken, IInv, PtrSound, WantSound, InTable
<1>c. UNCHANGED <<heap, state, id, capacity, queue, shutdown, wpc, wtask, ptr, held>>
  BY DEF WaitWoken, schedVars
<1>d. CASE state[k] # "completed"
  <2>1. /\ pc' = [pc EXCEPT ![c] = "asleep"] /\ table' = table /\ want' = want
        /\ pc'[c] = "asleep" /\ \A d \in Contexts : d # c => pc'[d] = pc[d]
    BY <1>a, <1>d DEF WaitWoken, IInv, TasksTypeOK
  <2>2. TasksTypeOK'
    BY <2>1, <1>c DEF IInv, TasksTypeOK
  <2>3. TableSound' /\ DestroySound' /\ OneOwner' /\ HandlesValid'
    <3>1. TableSound'
      BY <2>1, <1>b, <1>c DEF IInv, TableSound, InTable
    <3>2. DestroySound'
      BY <2>1, <1>b, <1>c DEF IInv, DestroySound
    <3>3. OneOwner'
      BY <1>c DEF IInv, OneOwner
    <3>4. HandlesValid'
      BY <2>1, <1>b, <1>c, StillUp DEF IInv, HandlesValid, InTable
    <3> QED
      BY <3>1, <3>2, <3>3, <3>4
  <2>4. PtrSound' /\ WantSound'
    <3>1. PtrSound'
      BY <2>1, <1>b, <1>c DEF IInv, PtrSound, Busy, InTable
    <3>2. WantSound'
      BY <2>1, <1>b, <1>c DEF IInv, WantSound, Waiting
    <3> QED
      BY <3>1, <3>2
  <2>5. PlacesTyped' /\ PlacesApart' /\ Placed'
    <3>1. PlacesTyped'
      BY <2>1, <1>b, <1>c DEF IInv, PlacesTyped
    <3>2. PlacesApart'
      BY <2>1, <1>b, <1>c DEF IInv, PlacesApart
    <3>3. Placed'
      BY <2>1, <1>b, <1>c, PlacedKeep DEF IInv
    <3> QED
      BY <3>1, <3>2, <3>3
  <2>6. PoolSound'
    <3>1. /\ pc'[Main] \in Leaving <=> pc[Main] \in Leaving
          /\ pc'[Main] \notin {"joined", "down", "off"}
      BY <2>1, <1>b, StillUp DEF IInv, PoolSound, Leaving
    <3>2. \A m \in Tasks : pc'[m] # "off" => pc[m] # "off"
      BY <2>1, <1>b
    <3>3. \A m \in Tasks : pc'[m] \notin Leaving
      BY <2>1 DEF IInv, PoolSound, Leaving
    <3> QED
      BY <3>1, <3>2, <3>3, <1>c DEF IInv, PoolSound
  <2>7. SleepSound'
    BY <2>1, <1>a, <1>c, <1>d DEF IInv, SleepSound
  <2> QED
    BY <2>2, <2>3, <2>4, <2>5, <2>6, <2>7 DEF IInv
<1>e. CASE state[k] = "completed"
  <2>1. /\ pc' = [pc EXCEPT ![c] = "destroy"]
        /\ table' = [table EXCEPT ![id[k]] = None]
        /\ want' = [want EXCEPT ![c] = {}]
    BY <1>a, <1>b, <1>e DEF WaitWoken
  <2>2. /\ pc'[c] = "destroy" /\ \A d \in Contexts : d # c => pc'[d] = pc[d]
        /\ table'[id[k]] = None /\ \A i \in 1 .. capacity - 1 : i # id[k] => table'[i] = table[i]
        /\ want'[c] = {} /\ \A d \in Contexts : d # c => want'[d] = want[d]
    BY <2>1, <1>b DEF IInv, TasksTypeOK
  <2>3. \A m \in Tasks : m # k /\ InTable(m) => InTable(m)'
    BY <2>2, <1>b, <1>c DEF InTable
  <2>4. /\ \A d \in Contexts : d # c => ptr[d] # k
        /\ \A d \in Contexts : \A f \in held[d] : f[2] # k
    BY <1>a DEF IInv, OneOwner
  <2>5. TasksTypeOK'
    BY <2>1, <1>b, <1>c DEF IInv, TasksTypeOK
  <2>6. TableSound'
    <3>1. \A i \in 1 .. capacity' - 1 : table'[i] # None => heap'[table'[i]] = "live" /\ id'[table'[i]] = i
      BY <2>2, <1>c DEF IInv, TableSound
    <3>2. ASSUME NEW m \in Tasks, heap'[m] = "live"
          PROVE  InTable(m)' \/ \E d \in Contexts : pc'[d] \in Outside /\ ptr'[d] = m
      <4>1. CASE m = k
        BY <4>1, <2>2, <1>a, <1>c
      <4>2. ASSUME NEW d \in Contexts, pc[d] \in Outside, ptr[d] = m
            PROVE  pc'[d] \in Outside /\ ptr'[d] = m
        BY <4>2, <2>2, <1>c
      <4> QED
        BY <4>1, <4>2, <3>2, <2>3, <1>c DEF IInv, TableSound
    <3> QED
      BY <3>1, <3>2 DEF TableSound
  <2>7. PtrSound'
    <3> SUFFICES ASSUME NEW d \in Contexts
                 PROVE  /\ pc'[d] \in Busy <=> ptr[d] # None
                        /\ ptr[d] # None => heap[ptr[d]] = "live"
                        /\ pc'[d] \in {"enqueue", "asleep", "woken"} => InTable(ptr[d])'
      BY <1>c DEF PtrSound, InTable
    <3>1. CASE d = c
      BY <3>1, <2>2, <1>a, <1>b DEF Busy
    <3>2. CASE d # c
      <4>1. ASSUME pc[d] \in {"enqueue", "asleep", "woken"} PROVE InTable(ptr[d])'
        <5>1. PICK m \in Tasks : m = ptr[d] /\ m # k
          BY <4>1, <3>2, <2>4 DEF IInv, TasksTypeOK, PtrSound, Busy
        <5>2. InTable(m)'
          BY <5>1, <4>1, <2>3 DEF IInv, PtrSound
        <5> QED
          BY <5>1, <5>2, <1>c DEF InTable
      <4> QED
        BY <3>2, <4>1, <2>2 DEF IInv, PtrSound
    <3> QED
      BY <3>1, <3>2
  <2>8. DestroySound'
    <3>1. \A i \in 1 .. capacity - 1 : i # id[k] => table[i] # k
      BY <1>b DEF IInv, TableSound
    <3>2. \A d \in Contexts : pc'[d] \in Outside => ptr[d] # None
      BY <2>2, <1>a DEF IInv, PtrSound, Busy
    <3> QED
      BY <3>1, <3>2, <2>2, <1>a, <1>c, <1>e DEF IInv, DestroySound
  <2>9. WantSound'
    <3>1. \A d \in Contexts : d # c /\ pc'[d] \in {"asleep", "woken"} => want'[d] = {<<id'[ptr'[d]], ptr'[d]>>}
      BY <2>2, <1>c DEF IInv, WantSound
    <3>2. \A d \in Contexts : d # c /\ pc'[d] \in {"any", "anyAsleep"} => want'[d] \subseteq held'[d]
      BY <2>2, <1>c DEF IInv, WantSound
    <3>3. \A d \in Contexts : d # c /\ pc'[d] \notin Waiting => want'[d] = {}
      BY <2>2 DEF IInv, WantSound
    <3> QED
      BY <3>1, <3>2, <3>3, <2>2 DEF WantSound
  <2>10. OneOwner'
    BY <1>c DEF IInv, OneOwner
  <2>11. HandlesValid'
    <3> SUFFICES ASSUME NEW d \in Contexts, NEW f \in held[d], f # <<0, None>>, pc'[Main] # "down"
                 PROVE  f[2] \in Tasks /\ f[1] = id[f[2]] /\ InTable(f[2])' /\ heap[f[2]] = "live"
      BY <1>c DEF HandlesValid, InTable
    <3>1. f[2] # k /\ pc[Main] # "down"
      BY <2>4, <1>b, StillUp
    <3>2. f[2] \in Tasks /\ f[1] = id[f[2]] /\ InTable(f[2]) /\ heap[f[2]] = "live"
      BY <3>1 DEF IInv, HandlesValid
    <3> QED
      BY <3>1, <3>2, <2>3
  <2>12. PlacesTyped' /\ PlacesApart' /\ Placed'
    <3>1. PlacesTyped'
      BY <2>2, <1>c DEF IInv, PlacesTyped
    <3>2. PlacesApart'
      BY <2>2, <1>c DEF IInv, PlacesApart
    <3>3. Placed'
      BY <2>2, <1>b, <1>c, PlacedKeep DEF IInv
    <3> QED
      BY <3>1, <3>2, <3>3
  <2>13. PoolSound'
    <3>1. /\ pc'[Main] \in Leaving <=> pc[Main] \in Leaving
          /\ pc'[Main] \notin {"joined", "down", "off"}
      BY <2>2, <1>b, StillUp DEF IInv, PoolSound, Leaving
    <3>2. \A m \in Tasks : pc'[m] # "off" => pc[m] # "off"
      BY <2>2, <1>b
    <3>3. \A m \in Tasks : pc'[m] \notin Leaving
      BY <2>2 DEF IInv, PoolSound, Leaving
    <3> QED
      BY <3>1, <3>2, <3>3, <1>c DEF IInv, PoolSound
  <2>14. SleepSound'
    BY <2>2, <1>c DEF IInv, SleepSound
  <2> QED
    BY <2>5, <2>6, <2>7, <2>8, <2>9, <2>10, <2>11, <2>12, <2>13, <2>14 DEF IInv
<1> QED
  BY <1>d, <1>e

(* WAIT_ANY is called with handles of the caller.                          *)
LEMMA WaitAnyCallStep ==
    ASSUME IInv, NEW c \in Contexts, NEW E \in SUBSET held[c], WaitAnyCall(c, E)
    PROVE  IInv'
<1> USE ContextFacts DEF Spawning, Outside
<1>1. TasksTypeOK'
  BY DEF IInv, TasksTypeOK, WaitAnyCall, taskVars, schedVars
<1>2. TableSound'
  BY DEF IInv, TasksTypeOK, TableSound, InTable, WaitAnyCall, Program, taskVars, schedVars
<1>3. PtrSound'
  BY DEF IInv, TasksTypeOK, PtrSound, InTable, Busy, WaitAnyCall, Program, taskVars, schedVars
<1>4. DestroySound'
  BY DEF IInv, DestroySound, WaitAnyCall, taskVars, schedVars
<1>5. WantSound'
  BY DEF IInv, TasksTypeOK, WantSound, Waiting, WaitAnyCall, Program, taskVars, schedVars
<1>6. OneOwner'
  BY DEF IInv, OneOwner, WaitAnyCall, taskVars, schedVars
<1>7. HandlesValid'
  BY DEF IInv, TasksTypeOK, HandlesValid, InTable, WaitAnyCall, Program, taskVars, schedVars
<1>8. PlacesTyped'
  BY DEF IInv, PlacesTyped, WaitAnyCall, taskVars, schedVars
<1>9. PlacesApart'
  BY DEF IInv, PlacesApart, WaitAnyCall, taskVars, schedVars
<1>10. Placed'
  BY PlacedKeep DEF IInv, TasksTypeOK, WaitAnyCall, Program, taskVars, schedVars
<1>11. PoolSound'
  BY DEF IInv, TasksTypeOK, PoolSound, Leaving, WaitAnyCall, Program, taskVars, schedVars
<1>12. SleepSound'
  BY DEF IInv, TasksTypeOK, SleepSound, WaitAnyCall, Program, taskVars, schedVars
<1> QED
  BY <1>1, <1>2, <1>3, <1>4, <1>5, <1>6, <1>7, <1>8, <1>9, <1>10, <1>11, <1>12 DEF IInv

(* WAIT_ANY reaps a completed task.                                        *)
LEMMA WaitAnyTakeStep ==
    ASSUME IInv, Shared = FALSE, NEW c \in Contexts, WaitAnyTake(c)
    PROVE  IInv'
<1> USE ContextFacts DEF Spawning, Outside
<1>1. PICK e \in Completed(c) : Reap(c, e[1]) /\ UsedUp(c, e)
  BY DEF WaitAnyTake
<1>2. pc[c] = "any" /\ want' = [want EXCEPT ![c] = {}] /\ UNCHANGED schedVars
  BY DEF WaitAnyTake
<1>3. e \in held[c] /\ Lookup(e[1]) # None /\ state[Lookup(e[1])] = "completed"
  BY <1>2 DEF Completed, IInv, WantSound
<1>4. held' = [held EXCEPT ![c] = @ \ {e}]
  BY <1>1 DEF UsedUp
<1> QED
  BY <1>1, <1>2, <1>3, <1>4, ReapStep

(* WAIT_ANY goes to sleep: none of its tasks has completed.                *)
LEMMA WaitAnySleepStep ==
    ASSUME IInv, NEW c \in Contexts, WaitAnySleep(c)
    PROVE  IInv'
<1> USE ContextFacts DEF Spawning, Outside
<1>1. TasksTypeOK'
  BY DEF IInv, TasksTypeOK, WaitAnySleep, taskVars, schedVars
<1>2. TableSound'
  BY DEF IInv, TableSound, InTable, WaitAnySleep, taskVars, schedVars
<1>3. PtrSound'
  BY DEF IInv, PtrSound, InTable, Busy, WaitAnySleep, taskVars, schedVars
<1>4. DestroySound'
  BY DEF IInv, DestroySound, WaitAnySleep, taskVars, schedVars
<1>5. WantSound'
  BY DEF IInv, WantSound, Waiting, WaitAnySleep, taskVars, schedVars
<1>6. OneOwner'
  BY DEF IInv, OneOwner, WaitAnySleep, taskVars, schedVars
<1>7. HandlesValid'
  BY DEF IInv, HandlesValid, InTable, WaitAnySleep, taskVars, schedVars
<1>8. PlacesTyped'
  BY DEF IInv, PlacesTyped, WaitAnySleep, taskVars, schedVars
<1>9. PlacesApart'
  BY DEF IInv, PlacesApart, WaitAnySleep, taskVars, schedVars
<1>10. Placed'
  BY PlacedKeep DEF IInv, TasksTypeOK, WaitAnySleep, taskVars, schedVars
<1>11. PoolSound'
  BY DEF IInv, PoolSound, Leaving, WaitAnySleep, taskVars, schedVars
<1>12. SleepSound'
  <2>1. ASSUME NEW e \in want[c], e[2] # None PROVE state[e[2]] # "completed"
    <3>1. pc[Main] # "down" /\ pc[c] = "any" /\ Completed(c) = {}
      BY StillUp DEF WaitAnySleep
    <3>2. e[2] \in Tasks /\ e[1] = id[e[2]] /\ InTable(e[2])
      BY <2>1, <3>1 DEF IInv, WantSound, HandlesValid
    <3>3. Lookup(e[1]) = e[2] /\ Lookup(e[1]) # None
      BY <3>2 DEF Lookup, InTable, IInv, TasksTypeOK
    <3> QED
      BY <3>1, <3>3 DEF Completed
  <2>2. /\ pc'[c] = "anyAsleep" /\ \A d \in Contexts : d # c => pc'[d] = pc[d]
        /\ UNCHANGED <<state, want, ptr>>
    BY DEF WaitAnySleep, taskVars, IInv, TasksTypeOK
  <2> QED
    BY <2>1, <2>2 DEF IInv, SleepSound
<1> QED
  BY <1>1, <1>2, <1>3, <1>4, <1>5, <1>6, <1>7, <1>8, <1>9, <1>10, <1>11, <1>12 DEF IInv

(* SPAWN creates a task: nothing pointed at it before.                     *)
LEMMA SpawnCreateStep ==
    ASSUME IInv, NEW c \in Contexts, SpawnCreate(c)
    PROVE  IInv'
<1> USE ContextFacts DEF Spawning, Outside
<1>a. PICK k \in Tasks : k = Fresh /\ heap[k] = "unused"
  BY DEF SpawnCreate, Fresh
<1>b. /\ pc[c] = "run"
      /\ heap' = [heap EXCEPT ![k] = "live"]
      /\ state' = [state EXCEPT ![k] = "pending"]
      /\ ptr' = [ptr EXCEPT ![c] = k]
      /\ pc' = [pc EXCEPT ![c] = "created"]
      /\ UNCHANGED <<id, capacity, table, queue, shutdown, wpc, wtask, want, held>>
  BY <1>a DEF SpawnCreate, Program, schedVars
<1>c. pc[Main] # "down"
  BY <1>b, StillUp
<1>d. /\ heap'[k] = "live" /\ state'[k] = "pending" /\ ptr'[c] = k /\ pc'[c] = "created"
      /\ \A m \in Tasks : m # k => heap'[m] = heap[m] /\ state'[m] = state[m]
      /\ \A d \in Contexts : d # c => ptr'[d] = ptr[d] /\ pc'[d] = pc[d]
  BY <1>a, <1>b DEF IInv, TasksTypeOK
<1>e. /\ \A d \in Contexts : ptr[d] # k
      /\ \A d \in Contexts : \A e \in held[d] : e[2] # k
      /\ \A j \in 1 .. capacity - 1 : table[j] # k
      /\ \A j \in 1 .. Len(queue) : queue[j] # k
      /\ \A w \in Workers : wtask[w] # k
  <2>1. \A d \in Contexts : ptr[d] # k
    BY <1>a DEF IInv, PtrSound
  <2>2. \A d \in Contexts : \A e \in held[d] : e[2] # k
    BY <1>a, <1>c DEF IInv, HandlesValid
  <2>3. \A j \in 1 .. capacity - 1 : table[j] # k
    BY <1>a DEF IInv, TableSound
  <2>4. \A j \in 1 .. Len(queue) : queue[j] # k
    BY <1>a DEF IInv, PlacesTyped
  <2>5. \A w \in Workers : wtask[w] # k
    BY <1>a DEF IInv, PlacesTyped
  <2> QED
    BY <2>1, <2>2, <2>3, <2>4, <2>5
<1>1. TasksTypeOK'
  BY <1>a, <1>b DEF IInv, TasksTypeOK
<1>2. TableSound'
  <2>1. ASSUME NEW j \in 1 .. capacity - 1, table[j] # None
        PROVE  heap'[table[j]] = "live" /\ id[table[j]] = j
    <3>1. table[j] \in Tasks \ {k}
      BY <2>1, <1>e DEF IInv, TasksTypeOK
    <3> QED
      BY <3>1, <2>1, <1>d DEF IInv, TableSound
  <2>2. ASSUME NEW m \in Tasks, heap'[m] = "live"
        PROVE  InTable(m) \/ \E d \in Contexts : pc'[d] \in Outside /\ ptr'[d] = m
    <3>1. CASE m = k
      BY <3>1, <1>d
    <3>2. ASSUME NEW d \in Contexts, pc[d] \in Outside, ptr[d] = m
          PROVE  pc'[d] \in Outside /\ ptr'[d] = m
      BY <3>2, <1>b, <1>d
    <3> QED
      BY <3>1, <3>2, <2>2, <1>d DEF IInv, TableSound
  <2> QED
    BY <2>1, <2>2, <1>b DEF TableSound, InTable
<1>3. PtrSound'
  <2> SUFFICES ASSUME NEW d \in Contexts
               PROVE  /\ pc'[d] \in Busy <=> ptr'[d] # None
                      /\ ptr'[d] # None => heap'[ptr'[d]] = "live"
                      /\ pc'[d] \in {"enqueue", "asleep", "woken"} => InTable(ptr[d])'
    BY DEF PtrSound, InTable
  <2>1. CASE d = c
    BY <2>1, <1>a, <1>d DEF Busy
  <2>2. CASE d # c
    <3>1. ptr[d] \in Tasks \cup {None} /\ ptr[d] # k
      BY <1>e DEF IInv, TasksTypeOK
    <3> QED
      BY <2>2, <3>1, <1>b, <1>d DEF IInv, PtrSound, InTable
  <2> QED
    BY <2>1, <2>2
<1>4. DestroySound'
  <2> SUFFICES ASSUME NEW d \in Contexts, pc'[d] \in Outside
               PROVE  /\ pc'[d] = "destroy" => state'[ptr'[d]] = "completed"
                      /\ \A j \in 1 .. capacity - 1 : table[j] # ptr'[d]
    BY <1>b DEF DestroySound
  <2>1. CASE d = c
    BY <2>1, <1>d, <1>e
  <2>2. CASE d # c
    <3>1. pc[d] \in Outside /\ pc'[d] = pc[d] /\ ptr'[d] = ptr[d] /\ ptr[d] \in Tasks \ {k}
      BY <2>2, <1>d, <1>e DEF IInv, TasksTypeOK, PtrSound, Busy
    <3> QED
      BY <3>1, <1>d DEF IInv, DestroySound
  <2> QED
    BY <2>1, <2>2
<1>5. WantSound'
  BY <1>b, <1>d DEF IInv, WantSound, Waiting
<1>6. OneOwner'
  BY <1>b, <1>d, <1>e DEF IInv, OneOwner
<1>7. HandlesValid'
  <2> SUFFICES ASSUME NEW d \in Contexts, NEW e \in held[d], e # <<0, None>>
               PROVE  e[2] \in Tasks /\ e[1] = id[e[2]] /\ InTable(e[2]) /\ heap'[e[2]] = "live"
    BY <1>b DEF HandlesValid, InTable
  <2>1. e[2] \in Tasks /\ e[1] = id[e[2]] /\ InTable(e[2]) /\ heap[e[2]] = "live"
    BY <1>c DEF IInv, HandlesValid
  <2>2. e[2] # k
    BY <1>e
  <2> QED
    BY <2>1, <2>2, <1>d
<1>8. PlacesTyped'
  <2>1. \A d \in Contexts : pc'[d] \in Spawning => state'[ptr'[d]] = "pending"
    <3> SUFFICES ASSUME NEW d \in Contexts, pc'[d] \in Spawning PROVE state'[ptr'[d]] = "pending"
      OBVIOUS
    <3>1. CASE d = c
      BY <3>1, <1>d
    <3>2. CASE d # c
      BY <3>2, <1>d, <1>e DEF IInv, TasksTypeOK, PlacesTyped, PtrSound, Busy
    <3> QED
      BY <3>1, <3>2
  <2>2. \A i \in 1 .. Len(queue) : queue[i] \in Tasks \ {k}
    BY <1>e DEF IInv, TasksTypeOK
  <2>3. \A w \in Workers : wtask[w] # None => wtask[w] \in Tasks \ {k}
    BY <1>e DEF IInv, TasksTypeOK
  <2> QED
    BY <2>1, <2>2, <2>3, <1>b, <1>d DEF IInv, PlacesTyped
<1>9. PlacesApart'
  BY <1>b, <1>d, <1>e DEF IInv, PlacesApart
<1>10. Placed'
  <2> SUFFICES ASSUME NEW m \in Tasks, heap'[m] = "live", state'[m] # "completed"
               PROVE  \/ \E d \in Contexts : pc'[d] \in Spawning /\ ptr'[d] = m
                      \/ \E j \in 1 .. Len(queue) : queue[j] = m
                      \/ \E w \in Workers : wtask[w] = m
    BY <1>b DEF Placed
  <2>1. CASE m = k
    BY <2>1, <1>d
  <2>2. CASE m # k
    <3>1. heap[m] = "live" /\ state[m] # "completed"
      BY <2>2, <1>d
    <3>2. \A d \in Contexts : pc[d] \in Spawning => pc'[d] \in Spawning /\ ptr'[d] = ptr[d]
      BY <1>b, <1>d
    <3> QED
      BY <3>1, <3>2 DEF IInv, Placed
  <2> QED
    BY <2>1, <2>2
<1>11. PoolSound'
  BY <1>a, <1>b, <1>c, <1>d DEF IInv, TasksTypeOK, PoolSound, Leaving
<1>12. SleepSound'
  BY <1>a, <1>b, <1>c, <1>d, <1>e DEF IInv, TasksTypeOK, SleepSound, PtrSound, WantSound, HandlesValid, Busy
<1> QED
  BY <1>1, <1>2, <1>3, <1>4, <1>5, <1>6, <1>7, <1>8, <1>9, <1>10, <1>11, <1>12 DEF IInv

(* SPAWN enters its task in the table; no other task moves.                *)
LEMMA SpawnInsertStep ==
    ASSUME IInv, NEW c \in Contexts, SpawnInsert(c)
    PROVE  IInv'
<1> USE ContextFacts DEF Spawning, Outside
<1>a. PICK k \in Tasks : k = ptr[c]
  BY DEF SpawnInsert, IInv, TasksTypeOK, PtrSound, Busy
<1>b. Inserted(k)
  BY <1>a, InsertFacts DEF SpawnInsert, IInv
<1>c. /\ pc[c] = "created"
      /\ pc' = [pc EXCEPT ![c] = "enqueue"]
      /\ UNCHANGED <<heap, state, queue, shutdown, wpc, wtask, ptr, want, held>>
  BY DEF SpawnInsert, schedVars
<1>d. pc[Main] # "down"
  BY <1>c, StillUp
<1>e. /\ pc'[c] = "enqueue" /\ heap[k] = "live"
      /\ \A m \in Tasks : m # k => id'[m] = id[m]
      /\ \A d \in Contexts : d # c => pc'[d] = pc[d]
  BY <1>a, <1>b, <1>c DEF IInv, TasksTypeOK, PtrSound, Inserted
<1>f. \A m \in Tasks : InTable(m) => m # k /\ InTable(m)'
  <2> SUFFICES ASSUME NEW m \in Tasks, InTable(m) PROVE m # k /\ InTable(m)'
    OBVIOUS
  <2>1. m # k
    BY <1>a, <1>c DEF IInv, DestroySound, InTable
  <2>2. id[m] # id'[k] /\ id'[m] = id[m]
    BY <2>1, <1>b, <1>e DEF Inserted, InTable
  <2>3. id[m] \in 1 .. capacity - 1 /\ table'[id[m]] = m
    BY <2>2, <1>b DEF Inserted, InTable
  <2>4. id[m] \in 1 .. capacity' - 1
    BY <2>3, <1>b DEF IInv, TasksTypeOK, Inserted
  <2> QED
    BY <2>1, <2>2, <2>3, <2>4 DEF InTable
<1>g. InTable(k)'
  BY <1>b DEF Inserted, InTable
<1>h. /\ \A d \in Contexts : d # c => ptr[d] # k
      /\ \A d \in Contexts : \A e \in held[d] : e[2] # k
      /\ \A j \in 1 .. capacity - 1 : table[j] # k
  BY <1>a, <1>c DEF IInv, OneOwner, DestroySound
<1>1. TasksTypeOK'
  BY <1>b, <1>c DEF IInv, TasksTypeOK, Inserted
<1>2. TableSound'
  <2>1. ASSUME NEW j \in 1 .. capacity' - 1, table'[j] # None
        PROVE  heap[table'[j]] = "live" /\ id'[table'[j]] = j
    <3>1. CASE j = id'[k]
      BY <3>1, <1>b, <1>e DEF Inserted
    <3>2. CASE j # id'[k]
      <4>1. j \in 1 .. capacity - 1 /\ table'[j] = table[j]
        BY <3>2, <2>1, <1>b DEF Inserted
      <4>2. table[j] \in Tasks \ {k}
        BY <4>1, <2>1, <1>h DEF IInv, TasksTypeOK
      <4> QED
        BY <4>1, <4>2, <2>1, <1>e DEF IInv, TableSound
    <3> QED
      BY <3>1, <3>2
  <2>2. ASSUME NEW m \in Tasks, heap[m] = "live"
        PROVE  InTable(m)' \/ \E d \in Contexts : pc'[d] \in Outside /\ ptr[d] = m
    <3>1. CASE m = k
      BY <3>1, <1>g
    <3>2. ASSUME NEW d \in Contexts, pc[d] \in Outside, ptr[d] = m, m # k
          PROVE  pc'[d] \in Outside
      BY <3>2, <1>a, <1>e
    <3> QED
      BY <3>1, <3>2, <2>2, <1>f DEF IInv, TableSound
  <2> QED
    BY <2>1, <2>2, <1>c DEF TableSound
<1>3. PtrSound'
  <2>1. ASSUME NEW d \in Contexts, pc'[d] \in {"enqueue", "asleep", "woken"} PROVE InTable(ptr[d])'
    <3>1. CASE d = c
      BY <3>1, <1>a, <1>c, <1>g DEF InTable
    <3>2. CASE d # c
      <4>1. PICK m \in Tasks : m = ptr[d]
        BY <3>2, <2>1, <1>e DEF IInv, TasksTypeOK, PtrSound, Busy
      <4>2. InTable(m)'
        BY <4>1, <3>2, <2>1, <1>e, <1>f DEF IInv, PtrSound
      <4> QED
        BY <4>1, <4>2, <1>c DEF InTable
    <3> QED
      BY <3>1, <3>2
  <2>2. \A d \in Contexts : pc'[d] \in Busy <=> pc[d] \in Busy
    BY <1>c, <1>e DEF Busy
  <2> QED
    BY <2>1, <2>2, <1>c DEF IInv, PtrSound, InTable
<1>4. DestroySound'
  <2> SUFFICES ASSUME NEW d \in Contexts, pc'[d] \in Outside
               PROVE  /\ pc'[d] = "destroy" => state[ptr[d]] = "completed"
                      /\ \A j \in 1 .. capacity' - 1 : table'[j] # ptr[d]
    BY <1>c DEF DestroySound
  <2>1. d # c /\ pc'[d] = pc[d] /\ pc[d] \in Outside
    BY <1>e
  <2>2. ptr[d] \in Tasks \ {k}
    BY <2>1, <1>h DEF IInv, TasksTypeOK, PtrSound, Busy
  <2>3. ASSUME NEW j \in 1 .. capacity' - 1 PROVE table'[j] # ptr[d]
    <3>1. CASE j = id'[k]
      BY <3>1, <2>2, <1>b DEF Inserted
    <3>2. CASE j # id'[k] /\ table'[j] # None
      <4>1. j \in 1 .. capacity - 1 /\ table'[j] = table[j]
        BY <3>2, <1>b DEF Inserted
      <4> QED
        BY <4>1, <2>1 DEF IInv, DestroySound
    <3> QED
      BY <3>1, <3>2, <2>2
  <2> QED
    BY <2>1, <2>3 DEF IInv, DestroySound
<1>5. WantSound'
  <2>1. ASSUME NEW d \in Contexts, pc'[d] \in {"asleep", "woken"} PROVE want'[d] = {<<id'[ptr'[d]], ptr'[d]>>}
    <3>1. d # c /\ pc[d] \in {"asleep", "woken"} /\ ptr'[d] = ptr[d] /\ want'[d] = want[d]
      BY <2>1, <1>c, <1>e
    <3>2. ptr[d] \in Tasks \ {k}
      BY <3>1, <1>h DEF IInv, TasksTypeOK, PtrSound, Busy
    <3> QED
      BY <3>1, <3>2, <1>e DEF IInv, WantSound
  <2>2. \A d \in Contexts : pc'[d] \in {"any", "anyAsleep"} => want'[d] \subseteq held'[d]
    BY <1>c, <1>e DEF IInv, WantSound
  <2>3. \A d \in Contexts : pc'[d] \notin Waiting => want'[d] = {}
    BY <1>c, <1>e DEF IInv, WantSound, Waiting
  <2> QED
    BY <2>1, <2>2, <2>3 DEF WantSound
<1>6. OneOwner'
  BY <1>c DEF IInv, OneOwner
<1>7. HandlesValid'
  <2> SUFFICES ASSUME NEW d \in Contexts, NEW e \in held[d], e # <<0, None>>
               PROVE  e[2] \in Tasks /\ e[1] = id'[e[2]] /\ InTable(e[2])' /\ heap[e[2]] = "live"
    BY <1>c DEF HandlesValid, InTable
  <2>1. e[2] \in Tasks /\ e[1] = id[e[2]] /\ InTable(e[2]) /\ heap[e[2]] = "live"
    BY <1>d DEF IInv, HandlesValid
  <2> QED
    BY <2>1, <1>e, <1>f
<1>8. PlacesTyped'
  BY <1>c, <1>e DEF IInv, PlacesTyped
<1>9. PlacesApart'
  BY <1>c, <1>e DEF IInv, PlacesApart
<1>10. Placed'
  BY <1>c, <1>e, PlacedKeep DEF IInv
<1>11. PoolSound'
  BY <1>a, <1>c, <1>d, <1>e DEF IInv, TasksTypeOK, PoolSound, Leaving
<1>12. SleepSound'
  BY <1>c, <1>e DEF IInv, SleepSound
<1> QED
  BY <1>1, <1>2, <1>3, <1>4, <1>5, <1>6, <1>7, <1>8, <1>9, <1>10, <1>11, <1>12 DEF IInv

(* The table cannot grow: the task stays with its spawner, outside it.     *)
LEMMA SpawnInsertFailsStep ==
    ASSUME IInv, NEW c \in Contexts, SpawnInsertFails(c)
    PROVE  IInv'
<1> USE ContextFacts DEF Spawning, Outside
<1>a. /\ pc[c] = "created" /\ pc'[c] = "discard" /\ \A d \in Contexts : d # c => pc'[d] = pc[d]
      /\ UNCHANGED <<heap, state, id, capacity, table, queue, shutdown, wpc, wtask, ptr, want, held>>
  BY DEF SpawnInsertFails, taskVars, schedVars, IInv, TasksTypeOK
<1>1. TasksTypeOK'
  BY DEF IInv, TasksTypeOK, SpawnInsertFails, taskVars, schedVars
<1>2. TableSound'
  BY <1>a DEF IInv, TableSound, InTable
<1>3. PtrSound'
  BY <1>a DEF IInv, PtrSound, InTable, Busy
<1>4. DestroySound'
  BY <1>a DEF IInv, DestroySound
<1>5. WantSound'
  BY <1>a DEF IInv, WantSound, Waiting
<1>6. OneOwner'
  BY <1>a DEF IInv, OneOwner
<1>7. HandlesValid'
  BY <1>a, StillUp DEF IInv, HandlesValid, InTable
<1>8. PlacesTyped'
  BY <1>a DEF IInv, PlacesTyped
<1>9. PlacesApart'
  BY <1>a DEF IInv, PlacesApart
<1>10. Placed'
  BY <1>a, PlacedKeep DEF IInv
<1>11. PoolSound'
  BY <1>a DEF IInv, PoolSound, Leaving
<1>12. SleepSound'
  BY <1>a DEF IInv, SleepSound
<1> QED
  BY <1>1, <1>2, <1>3, <1>4, <1>5, <1>6, <1>7, <1>8, <1>9, <1>10, <1>11, <1>12 DEF IInv

(* The task that found no slot is freed: nobody else points at it, and it  *)
(* is in no queue and with no worker.                                      *)
LEMMA SpawnDiscardStep ==
    ASSUME IInv, NEW c \in Contexts, SpawnDiscard(c)
    PROVE  IInv'
<1> USE ContextFacts DEF Spawning, Outside
<1>a. PICK k \in Tasks : k = ptr[c]
  BY DEF SpawnDiscard, IInv, TasksTypeOK, PtrSound, Busy
<1>b. /\ pc[c] = "discard" /\ pc'[c] = "run" /\ \A d \in Contexts : d # c => pc'[d] = pc[d]
      /\ heap'[k] = "freed" /\ \A m \in Tasks : m # k => heap'[m] = heap[m]
      /\ ptr'[c] = None /\ \A d \in Contexts : d # c => ptr'[d] = ptr[d]
      /\ held'[c] = held[c] \cup {<<0, None>>} /\ \A d \in Contexts : d # c => held'[d] = held[d]
      /\ UNCHANGED <<state, id, capacity, table, queue, shutdown, wpc, wtask, want>>
  BY <1>a DEF SpawnDiscard, schedVars, IInv, TasksTypeOK
<1>c. /\ \A d \in Contexts : d # c => ptr[d] # k
      /\ \A d \in Contexts : \A e \in held[d] : e[2] # k
      /\ \A j \in 1 .. capacity - 1 : table[j] # k
      /\ \A j \in 1 .. Len(queue) : queue[j] # k
      /\ \A w \in Workers : wtask[w] # k
  BY <1>a, <1>b DEF IInv, OneOwner, DestroySound, PlacesApart
<1>d. pc[Main] \notin {"joined", "down"}
  BY <1>b, StillUp
<1>1. TasksTypeOK'
  BY <1>a DEF IInv, TasksTypeOK, Handles, SpawnDiscard, schedVars
<1>2. TableSound'
  <2>1. \A j \in 1 .. capacity - 1 : table[j] # None => table[j] \in Tasks \ {k}
    BY <1>c DEF IInv, TasksTypeOK
  <2>2. \A d \in Contexts : pc[d] \in Outside /\ ptr[d] # k => pc'[d] \in Outside /\ ptr'[d] = ptr[d]
    BY <1>a, <1>b
  <2> QED
    BY <2>1, <2>2, <1>b DEF IInv, TableSound, InTable
<1>3. PtrSound'
  <2>1. ASSUME NEW d \in Contexts, ptr'[d] # None
        PROVE  d # c /\ ptr'[d] = ptr[d] /\ heap'[ptr'[d]] = "live"
    <3>1. d # c /\ ptr'[d] = ptr[d] /\ ptr[d] \in Tasks \ {k}
      BY <2>1, <1>b, <1>c DEF IInv, TasksTypeOK
    <3> QED
      BY <3>1, <1>b DEF IInv, PtrSound
  <2>2. \A d \in Contexts : d # c => (pc'[d] \in Busy <=> ptr'[d] # None)
    BY <1>b DEF IInv, PtrSound
  <2>3. pc'[c] \notin Busy
    BY <1>b DEF Busy
  <2> QED
    BY <2>1, <2>2, <2>3, <1>b DEF IInv, PtrSound, InTable, Busy
<1>4. DestroySound'
  BY <1>b DEF IInv, DestroySound
<1>5. WantSound'
  BY <1>b DEF IInv, WantSound, Waiting
<1>6. OneOwner'
  <2>1. \A d \in Contexts : \A e \in held'[d] : e[2] # None => e \in held[d]
    BY <1>b
  <2>2. \A d \in Contexts : ptr'[d] # None => ptr'[d] = ptr[d]
    BY <1>b
  <2> QED
    BY <2>1, <2>2 DEF IInv, OneOwner
<1>7. HandlesValid'
  <2> SUFFICES ASSUME NEW d \in Contexts, NEW e \in held'[d], e # <<0, None>>
               PROVE  e[2] \in Tasks /\ e[1] = id[e[2]] /\ InTable(e[2]) /\ heap'[e[2]] = "live"
    BY <1>b DEF HandlesValid, InTable
  <2>1. e \in held[d]
    BY <1>b
  <2>2. e[2] \in Tasks /\ e[1] = id[e[2]] /\ InTable(e[2]) /\ heap[e[2]] = "live"
    BY <2>1, <1>d DEF IInv, HandlesValid
  <2> QED
    BY <2>1, <2>2, <1>b, <1>c
<1>8. PlacesTyped'
  <2>1. \A d \in Contexts : pc'[d] \in Spawning => pc[d] \in Spawning /\ ptr'[d] = ptr[d]
    BY <1>b
  <2>2. \A i \in 1 .. Len(queue) : queue[i] \in Tasks \ {k}
    BY <1>c DEF IInv, TasksTypeOK
  <2>3. \A w \in Workers : wtask[w] # None => wtask[w] \in Tasks \ {k}
    BY <1>c DEF IInv, TasksTypeOK
  <2> QED
    BY <2>1, <2>2, <2>3, <1>b DEF IInv, PlacesTyped
<1>9. PlacesApart'
  BY <1>b DEF IInv, PlacesApart
<1>10. Placed'
  <2> SUFFICES ASSUME NEW m \in Tasks, heap'[m] = "live", state[m] # "completed"
               PROVE  \/ \E d \in Contexts : pc'[d] \in Spawning /\ ptr'[d] = m
                      \/ \E j \in 1 .. Len(queue) : queue[j] = m
                      \/ \E w \in Workers : wtask[w] = m
    BY <1>b DEF Placed
  <2>1. m # k /\ heap[m] = "live"
    BY <1>b
  <2>2. ASSUME NEW d \in Contexts, pc[d] \in Spawning, ptr[d] = m
        PROVE  pc'[d] \in Spawning /\ ptr'[d] = m
    BY <2>1, <2>2, <1>a, <1>b
  <2> QED
    BY <2>1, <2>2 DEF IInv, Placed
<1>11. PoolSound'
  BY <1>b, <1>d DEF IInv, PoolSound, Leaving
<1>12. SleepSound'
  <2>1. \A d \in Contexts : pc'[d] \in {"asleep", "anyAsleep"} =>
           d # c /\ pc'[d] = pc[d] /\ ptr'[d] = ptr[d]
    BY <1>b
  <2> QED
    BY <2>1, <1>b DEF IInv, SleepSound
<1> QED
  BY <1>1, <1>2, <1>3, <1>4, <1>5, <1>6, <1>7, <1>8, <1>9, <1>10, <1>11, <1>12 DEF IInv

(* SPAWN queues the task and returns the handle to its caller alone.       *)
LEMMA SpawnEnqueueStep ==
    ASSUME IInv, NEW c \in Contexts, SpawnEnqueue(c)
    PROVE  IInv'
<1> USE ContextFacts DEF Spawning, Outside
<1>a. PICK k \in Tasks : k = ptr[c]
  BY DEF SpawnEnqueue, IInv, TasksTypeOK, PtrSound, Busy
<1>b. /\ pc[c] = "enqueue" /\ heap[k] = "live" /\ state[k] = "pending" /\ InTable(k) /\ id[k] \in Nat
      /\ want[c] = {}
  <2>1. pc[c] = "enqueue"
    BY DEF SpawnEnqueue
  <2>2. InTable(k) /\ heap[k] = "live"
    BY <2>1, <1>a DEF IInv, PtrSound
  <2>3. state[k] = "pending" /\ want[c] = {}
    BY <2>1, <1>a DEF IInv, PlacesTyped, WantSound, Waiting
  <2> QED
    BY <2>1, <2>2, <2>3 DEF IInv, TasksTypeOK
<1>c. /\ queue' = Append(queue, k) /\ queue' \in Seq(Tasks) /\ Len(queue') = Len(queue) + 1
      /\ queue'[Len(queue) + 1] = k
      /\ \A i \in 1 .. Len(queue) : queue'[i] = queue[i] /\ queue[i] \in Tasks
      /\ Len(queue) \in Nat
  BY <1>a DEF SpawnEnqueue, IInv, TasksTypeOK
<1>d. /\ held'[c] = held[c] \cup {<<id[k], k>>} /\ \A d \in Contexts : d # c => held'[d] = held[d]
      /\ held' \in [Contexts -> SUBSET Handles]
      /\ ptr'[c] = None /\ \A d \in Contexts : d # c => ptr'[d] = ptr[d]
      /\ pc'[c] = "run" /\ \A d \in Contexts : d # c => pc'[d] = pc[d]
  BY <1>a, <1>b DEF SpawnEnqueue, IInv, TasksTypeOK, Handles
<1>e. UNCHANGED <<heap, state, id, capacity, table, shutdown, wtask, want>>
  BY DEF SpawnEnqueue, taskVars
<1>f. /\ wpc' \in [Workers -> {"fetch", "checked", "asleep", "start", "run", "exited"}]
      /\ \A w \in Workers : wpc'[w] # wpc[w] => wpc[w] = "asleep" /\ wpc'[w] = "fetch"
  <2>1. WakeOne
    BY DEF SpawnEnqueue
  <2>2. CASE UNCHANGED wpc
    BY <2>2 DEF IInv, TasksTypeOK
  <2>3. ASSUME NEW w \in Workers, wpc[w] = "asleep", wpc' = [wpc EXCEPT ![w] = "fetch"]
        PROVE  /\ wpc' \in [Workers -> {"fetch", "checked", "asleep", "start", "run", "exited"}]
               /\ \A v \in Workers : wpc'[v] # wpc[v] => wpc[v] = "asleep" /\ wpc'[v] = "fetch"
    BY <2>3 DEF IInv, TasksTypeOK
  <2> QED
    BY <2>1, <2>2, <2>3 DEF WakeOne
<1>g. pc[Main] \notin {"joined", "down"}
  BY <1>b, StillUp
<1>1. TasksTypeOK'
  BY <1>c, <1>d, <1>e, <1>f DEF IInv, TasksTypeOK, SpawnEnqueue
<1>2. TableSound'
  <2>1. \A d \in Contexts : pc[d] \in Outside => pc'[d] \in Outside /\ ptr'[d] = ptr[d]
    BY <1>b, <1>d
  <2> QED
    BY <2>1, <1>e DEF IInv, TableSound, InTable
<1>3. PtrSound'
  BY <1>d, <1>e DEF IInv, PtrSound, InTable, Busy
<1>4. DestroySound'
  BY <1>d, <1>e DEF IInv, DestroySound
<1>5. WantSound'
  BY <1>b, <1>d, <1>e DEF IInv, WantSound, Waiting
<1>6. OneOwner'
  <2>1. /\ \A d \in Contexts : \A e \in held[d] : e[2] # k
        /\ \A d \in Contexts : d # c => ptr[d] # k
        /\ <<id[k], k>>[2] = k
    BY <1>a DEF IInv, OneOwner
  <2>2. \A d \in Contexts : \A e \in held'[d] :
           \/ e \in held[d] /\ e[2] # k
           \/ d = c /\ e = <<id[k], k>> /\ e[2] = k
    BY <2>1, <1>d
  <2>3. \A d \in Contexts : ptr'[d] # None => ptr'[d] = ptr[d] /\ ptr'[d] # k
    BY <2>1, <1>d
  <2> QED
    BY <2>2, <2>3 DEF IInv, OneOwner
<1>7. HandlesValid'
  <2> SUFFICES ASSUME NEW d \in Contexts, NEW e \in held'[d], e # <<0, None>>
               PROVE  e[2] \in Tasks /\ e[1] = id[e[2]] /\ InTable(e[2]) /\ heap[e[2]] = "live"
    BY <1>e DEF HandlesValid, InTable
  <2>1. CASE e = <<id[k], k>>
    BY <2>1, <1>b
  <2>2. CASE e \in held[d]
    BY <2>2, <1>g DEF IInv, HandlesValid
  <2> QED
    BY <2>1, <2>2, <1>d
<1>8. PlacesTyped'
  <2>1. \A i \in 1 .. Len(queue') : heap'[queue'[i]] = "live" /\ state'[queue'[i]] = "pending"
    <3> SUFFICES ASSUME NEW i \in 1 .. Len(queue')
                 PROVE  heap[queue'[i]] = "live" /\ state[queue'[i]] = "pending"
      BY <1>e
    <3>1. CASE i = Len(queue) + 1
      BY <3>1, <1>b, <1>c
    <3>2. CASE i \in 1 .. Len(queue)
      BY <3>2, <1>c DEF IInv, PlacesTyped
    <3> QED
      BY <3>1, <3>2, <1>c
  <2>2. \A w \in Workers : wpc'[w] \in {"start", "run"} <=> wpc[w] \in {"start", "run"}
    BY <1>f
  <2>3. \A w \in Workers : wpc'[w] = "start" <=> wpc[w] = "start"
    BY <1>f
  <2> QED
    BY <2>1, <2>2, <2>3, <1>d, <1>e DEF IInv, PlacesTyped
<1>9. PlacesApart'
  <2>1. /\ \A i \in 1 .. Len(queue) : queue[i] # k
        /\ \A w \in Workers : wtask[w] # k
        /\ \A d \in Contexts : d # c => ptr[d] # k
    BY <1>a, <1>b DEF IInv, PlacesApart, OneOwner
  <2>2. \A i \in 1 .. Len(queue') : i = Len(queue) + 1 \/ i \in 1 .. Len(queue)
    BY <1>c
  <2>3. \A i, j \in 1 .. Len(queue') : queue'[i] = queue'[j] => i = j
    BY <2>1, <2>2, <1>c DEF IInv, PlacesApart
  <2>4. \A i \in 1 .. Len(queue'), w \in Workers : queue'[i] # wtask'[w]
    BY <2>1, <2>2, <1>c, <1>e DEF IInv, PlacesApart
  <2>5. \A i \in 1 .. Len(queue'), d \in Contexts : pc'[d] \in Spawning => queue'[i] # ptr'[d]
    <3> SUFFICES ASSUME NEW i \in 1 .. Len(queue'), NEW d \in Contexts, pc'[d] \in Spawning
                 PROVE  queue'[i] # ptr'[d]
      OBVIOUS
    <3>1. d # c /\ ptr'[d] = ptr[d] /\ pc[d] \in Spawning
      BY <1>d
    <3> QED
      BY <3>1, <2>1, <2>2, <1>c DEF IInv, PlacesApart
  <2>6. \A w \in Workers, d \in Contexts : pc'[d] \in Spawning => wtask'[w] # ptr'[d]
    BY <1>d, <1>e DEF IInv, PlacesApart
  <2> QED
    BY <2>3, <2>4, <2>5, <2>6, <1>e DEF IInv, PlacesApart
<1>10. Placed'
  <2> SUFFICES ASSUME NEW m \in Tasks, heap[m] = "live", state[m] # "completed"
               PROVE  \/ \E d \in Contexts : pc'[d] \in Spawning /\ ptr'[d] = m
                      \/ \E i \in 1 .. Len(queue') : queue'[i] = m
                      \/ \E w \in Workers : wtask[w] = m
    BY <1>e DEF Placed
  <2>1. CASE m = k
    <3>1. Len(queue) + 1 \in 1 .. Len(queue')
      BY <1>c
    <3> QED
      BY <2>1, <3>1, <1>c
  <2>2. ASSUME NEW d \in Contexts, pc[d] \in Spawning, ptr[d] = m, m # k
        PROVE  pc'[d] \in Spawning /\ ptr'[d] = m
    BY <2>2, <1>a, <1>d
  <2>3. ASSUME NEW i \in 1 .. Len(queue), queue[i] = m
        PROVE  i \in 1 .. Len(queue') /\ queue'[i] = m
    BY <2>3, <1>c
  <2> QED
    BY <2>1, <2>2, <2>3 DEF IInv, Placed
<1>11. PoolSound'
  <2>1. /\ pc'[Main] \in Leaving <=> pc[Main] \in Leaving
        /\ pc'[Main] \notin {"joined", "down", "off"}
    BY <1>b, <1>d, <1>g DEF IInv, PoolSound, Leaving
  <2>2. \A m \in Tasks : pc'[m] # "off" => pc[m] # "off"
    BY <1>b, <1>d
  <2>3. \A m \in Tasks : pc'[m] \notin Leaving
    BY <1>d DEF IInv, PoolSound, Leaving
  <2>4. \A w \in Workers : (wpc[w] = "run" => wpc'[w] = "run") /\ (wpc'[w] = "exited" => wpc[w] = "exited")
    BY <1>f
  <2>5. ~ \A w \in Workers : wpc'[w] = "exited"
    <3>1. CASE c = Main
      BY <3>1, <2>4, <1>b, TasksAssumption DEF IInv, PoolSound, Leaving
    <3>2. CASE c \in Tasks
      BY <3>2, <2>4, <1>b DEF IInv, PoolSound
    <3> QED
      BY <3>1, <3>2
  <2> QED
    BY <2>1, <2>2, <2>3, <2>4, <2>5, <1>e DEF IInv, PoolSound
<1>12. SleepSound'
  BY <1>d, <1>e DEF IInv, SleepSound
<1> QED
  BY <1>1, <1>2, <1>3, <1>4, <1>5, <1>6, <1>7, <1>8, <1>9, <1>10, <1>11, <1>12 DEF IInv

(* The main thread sets the shutdown flag.                                 *)
LEMMA ShutdownFlagStep ==
    ASSUME IInv, ShutdownFlag
    PROVE  IInv'
<1> USE ContextFacts DEF Spawning, Outside
<1>1. TasksTypeOK'
  BY DEF IInv, TasksTypeOK, ShutdownFlag, taskVars
<1>2. TableSound'
  BY DEF IInv, TableSound, InTable, ShutdownFlag, taskVars
<1>3. PtrSound'
  BY DEF IInv, PtrSound, InTable, Busy, ShutdownFlag, taskVars
<1>4. DestroySound'
  BY DEF IInv, DestroySound, ShutdownFlag, taskVars
<1>5. WantSound'
  BY DEF IInv, WantSound, Waiting, ShutdownFlag, taskVars
<1>6. OneOwner'
  BY DEF IInv, OneOwner, ShutdownFlag, taskVars
<1>7. HandlesValid'
  BY DEF IInv, HandlesValid, InTable, ShutdownFlag, taskVars
<1>8. PlacesTyped'
  BY DEF IInv, PlacesTyped, ShutdownFlag, taskVars
<1>9. PlacesApart'
  BY DEF IInv, PlacesApart, ShutdownFlag, taskVars
<1>10. Placed'
  BY PlacedKeep DEF IInv, TasksTypeOK, ShutdownFlag, taskVars
<1>11. PoolSound'
  BY DEF IInv, TasksTypeOK, PoolSound, Leaving, ShutdownFlag, taskVars
<1>12. SleepSound'
  BY DEF IInv, SleepSound, ShutdownFlag, taskVars
<1> QED
  BY <1>1, <1>2, <1>3, <1>4, <1>5, <1>6, <1>7, <1>8, <1>9, <1>10, <1>11, <1>12 DEF IInv

(* The main thread wakes the sleeping workers.                             *)
LEMMA ShutdownBroadcastStep ==
    ASSUME IInv, ShutdownBroadcast
    PROVE  IInv'
<1> USE ContextFacts DEF Spawning, Outside
<1>1. TasksTypeOK'
  BY DEF IInv, TasksTypeOK, ShutdownBroadcast, taskVars
<1>2. TableSound'
  BY DEF IInv, TableSound, InTable, ShutdownBroadcast, taskVars
<1>3. PtrSound'
  <2>1. pc[Main] = "broadcast" /\ pc'[Main] = "join" /\ \A d \in Contexts : d # Main => pc'[d] = pc[d]
    BY DEF ShutdownBroadcast, IInv, TasksTypeOK
  <2> QED
    BY <2>1 DEF ShutdownBroadcast, IInv, PtrSound, InTable, Busy, taskVars
<1>4. DestroySound'
  BY DEF IInv, DestroySound, ShutdownBroadcast, taskVars
<1>5. WantSound'
  BY DEF IInv, WantSound, Waiting, ShutdownBroadcast, taskVars
<1>6. OneOwner'
  BY DEF IInv, OneOwner, ShutdownBroadcast, taskVars
<1>7. HandlesValid'
  BY DEF IInv, HandlesValid, InTable, ShutdownBroadcast, taskVars
<1>8. PlacesTyped'
  BY DEF IInv, PlacesTyped, ShutdownBroadcast, taskVars
<1>9. PlacesApart'
  BY DEF IInv, PlacesApart, ShutdownBroadcast, taskVars
<1>10. Placed'
  BY PlacedKeep DEF IInv, TasksTypeOK, ShutdownBroadcast, taskVars
<1>11. PoolSound'
  BY DEF IInv, PoolSound, Leaving, ShutdownBroadcast, taskVars
<1>12. SleepSound'
  BY DEF IInv, SleepSound, ShutdownBroadcast, taskVars
<1> QED
  BY <1>1, <1>2, <1>3, <1>4, <1>5, <1>6, <1>7, <1>8, <1>9, <1>10, <1>11, <1>12 DEF IInv

(* All workers have left, so the queue is empty when it is dropped.        *)
LEMMA ShutdownJoinStep ==
    ASSUME IInv, ShutdownJoin
    PROVE  IInv'
<1> USE ContextFacts DEF Spawning, Outside
<1>1. TasksTypeOK'
  BY DEF IInv, TasksTypeOK, ShutdownJoin, taskVars
<1>2. TableSound'
  BY DEF IInv, TableSound, InTable, ShutdownJoin, taskVars
<1>3. PtrSound'
  <2>1. pc[Main] = "join" /\ pc'[Main] = "joined" /\ \A d \in Contexts : d # Main => pc'[d] = pc[d]
    BY DEF ShutdownJoin, IInv, TasksTypeOK
  <2> QED
    BY <2>1 DEF ShutdownJoin, IInv, PtrSound, InTable, Busy, taskVars
<1>4. DestroySound'
  BY DEF IInv, DestroySound, ShutdownJoin, taskVars
<1>5. WantSound'
  BY DEF IInv, WantSound, Waiting, ShutdownJoin, taskVars
<1>6. OneOwner'
  BY DEF IInv, OneOwner, ShutdownJoin, taskVars
<1>7. HandlesValid'
  BY DEF IInv, HandlesValid, InTable, ShutdownJoin, taskVars
<1>8. PlacesTyped'
  BY DEF IInv, PlacesTyped, ShutdownJoin, taskVars
<1>9. PlacesApart'
  BY DEF IInv, PlacesApart, ShutdownJoin, taskVars
<1>10. Placed'
  <2>1. queue = <<>>
    BY DEF ShutdownJoin, IInv, PoolSound
  <2>2. /\ UNCHANGED <<heap, state, queue, wtask, ptr>>
        /\ \A d \in Contexts : pc[d] \in Spawning => pc'[d] \in Spawning
    BY <2>1 DEF ShutdownJoin, IInv, TasksTypeOK, taskVars
  <2> QED
    BY <2>2, PlacedKeep DEF IInv
<1>11. PoolSound'
  BY DEF IInv, PoolSound, Leaving, ShutdownJoin, taskVars
<1>12. SleepSound'
  BY DEF IInv, SleepSound, ShutdownJoin, taskVars
<1> QED
  BY <1>1, <1>2, <1>3, <1>4, <1>5, <1>6, <1>7, <1>8, <1>9, <1>10, <1>11, <1>12 DEF IInv

(* The table is torn down: nobody holds a task that is not in it.          *)
LEMMA ShutdownCleanupStep ==
    ASSUME IInv, ShutdownCleanup
    PROVE  IInv'
<1> USE ContextFacts DEF Spawning, Outside
<1>a. /\ pc[Main] = "joined" /\ pc'[Main] = "down" /\ \A d \in Contexts : d # Main => pc'[d] = pc[d]
      /\ heap' \in [Tasks -> {"unused", "live", "freed"}]
      /\ \A k \in Tasks : heap'[k] = "live" => heap[k] = "live" /\ \A i \in 1 .. capacity - 1 : table[i] # k
      /\ UNCHANGED <<state, id, capacity, queue, shutdown, wpc, wtask, ptr, want, held>>
  BY DEF ShutdownCleanup, IInv, TasksTypeOK, schedVars
<1>b. /\ \A w \in Workers : wpc[w] = "exited" /\ wtask[w] = None
      /\ queue = <<>>
      /\ \A k \in Tasks : pc[k] = "off"
  BY <1>a DEF IInv, PoolSound, PlacesTyped
<1>c. \A c \in Contexts : ptr[c] = None
  BY <1>a, <1>b DEF IInv, PtrSound, Busy
<1>d. \A k \in Tasks : heap'[k] # "live"
  <2>1. \A k \in Tasks : heap[k] = "live" => InTable(k)
    BY <1>a, <1>b DEF IInv, TableSound
  <2> QED
    BY <2>1, <1>a DEF InTable
<1>1. TasksTypeOK'
  <2>1. pc' \in [Contexts -> {"off", "run", "created", "discard", "enqueue", "asleep", "woken", "any", "anyAsleep",
                              "destroy", "broadcast", "join", "joined", "down"}]
    BY DEF ShutdownCleanup, IInv, TasksTypeOK
  <2> QED
    BY <2>1, <1>a DEF ShutdownCleanup, IInv, TasksTypeOK
<1>2. TableSound'
  BY <1>a, <1>d DEF ShutdownCleanup, IInv, TasksTypeOK, TableSound
<1>3. PtrSound'
  BY <1>a, <1>b, <1>c DEF PtrSound, Busy
<1>4. DestroySound'
  BY <1>a, <1>b DEF DestroySound
<1>5. WantSound'
  BY <1>a, <1>b DEF IInv, WantSound, Waiting
<1>6. OneOwner'
  BY <1>a DEF IInv, OneOwner
<1>7. HandlesValid'
  BY <1>a DEF HandlesValid
<1>8. PlacesTyped'
  <2>1. Len(queue') = 0
    BY <1>a, <1>b
  <2> QED
    BY <2>1, <1>a, <1>b DEF PlacesTyped
<1>9. PlacesApart'
  BY <1>a, <1>b DEF IInv, PlacesApart
<1>10. Placed'
  BY <1>d DEF Placed
<1>11. PoolSound'
  BY <1>a, <1>b, <1>d DEF IInv, PoolSound, Leaving
<1>12. SleepSound'
  BY <1>a, <1>b DEF SleepSound
<1> QED
  BY <1>1, <1>2, <1>3, <1>4, <1>5, <1>6, <1>7, <1>8, <1>9, <1>10, <1>11, <1>12 DEF IInv

(* A condition wait ends without a signal.                                 *)
LEMMA SpuriousWakeStep ==
    ASSUME IInv, SpuriousWakeup
    PROVE  IInv'
<1> USE ContextFacts DEF Spawning, Outside
<1>1. ASSUME NEW w \in Workers, wpc[w] = "asleep", wpc' = [wpc EXCEPT ![w] = "fetch"],
             UNCHANGED <<taskVars, queue, shutdown, wtask, ctxVars>>
      PROVE  IInv'
  <2>1. /\ UNCHANGED <<heap, state, id, capacity, table, queue, shutdown, wtask, pc, ptr, want, held>>
        /\ wpc'[w] = "fetch" /\ \A v \in Workers : v # w => wpc'[v] = wpc[v]
    BY <1>1 DEF taskVars, ctxVars, IInv, TasksTypeOK
  <2>2. TasksTypeOK'
    BY <1>1, <2>1 DEF IInv, TasksTypeOK
  <2>3. /\ TableSound' /\ PtrSound' /\ DestroySound' /\ WantSound'
        /\ OneOwner' /\ HandlesValid' /\ PlacesApart' /\ Placed' /\ SleepSound'
    BY <2>1 DEF IInv, TableSound, PtrSound, DestroySound, WantSound, OneOwner, HandlesValid,
                PlacesApart, Placed, SleepSound, InTable
  <2>4. PlacesTyped'
    BY <1>1, <2>1 DEF IInv, PlacesTyped
  <2>5. PoolSound'
    BY <1>1, <2>1 DEF IInv, PoolSound
  <2> QED
    BY <2>2, <2>3, <2>4, <2>5 DEF IInv
<1>2. ASSUME NEW c \in Contexts, NEW to, UNCHANGED <<taskVars, schedVars, ptr, want, held>>,
             \/ (pc[c] = "asleep" /\ to = "woken") \/ (pc[c] = "anyAsleep" /\ to = "any"),
             pc' = [pc EXCEPT ![c] = to]
      PROVE  IInv'
  <2>1. /\ UNCHANGED <<heap, state, id, capacity, table, queue, shutdown, wpc, wtask, ptr, want, held>>
        /\ pc'[c] = to /\ \A d \in Contexts : d # c => pc'[d] = pc[d]
        /\ (pc[c] = "asleep" /\ to = "woken") \/ (pc[c] = "anyAsleep" /\ to = "any")
    BY <1>2 DEF taskVars, schedVars, IInv, TasksTypeOK
  <2>2. TasksTypeOK'
    BY <1>2, <2>1 DEF IInv, TasksTypeOK
  <2>3. TableSound' /\ DestroySound' /\ OneOwner'
    BY <2>1 DEF IInv, TableSound, DestroySound, OneOwner, InTable
  <2>4. PtrSound'
    BY <2>1 DEF IInv, PtrSound, InTable, Busy
  <2>5. WantSound'
    BY <2>1 DEF IInv, WantSound, Waiting
  <2>6. HandlesValid'
    BY <2>1, StillUp DEF IInv, HandlesValid, InTable
  <2>7. PlacesTyped' /\ PlacesApart'
    BY <2>1 DEF IInv, PlacesTyped, PlacesApart
  <2>8. Placed'
    BY <2>1, PlacedKeep DEF IInv
  <2>9. PoolSound'
    <3>1. /\ pc'[Main] \in Leaving <=> pc[Main] \in Leaving
          /\ pc'[Main] \notin {"joined", "down", "off"}
      BY <2>1, StillUp DEF IInv, PoolSound, Leaving
    <3>2. \A m \in Tasks : pc'[m] # "off" => pc[m] # "off"
      BY <2>1
    <3>3. \A m \in Tasks : pc'[m] \notin Leaving
      BY <2>1 DEF IInv, PoolSound, Leaving
    <3> QED
      BY <3>1, <3>2, <3>3, <2>1 DEF IInv, PoolSound
  <2>10. SleepSound'
    BY <2>1 DEF IInv, SleepSound
  <2> QED
    BY <2>2, <2>3, <2>4, <2>5, <2>6, <2>7, <2>8, <2>9, <2>10 DEF IInv
<1> QED
  BY <1>1, <1>2 DEF SpuriousWakeup

-----------------------------------------------------------------------------
(* sigil_runtime_init establishes the invariant: nothing is allocated. *)
LEMMA InvInit == ASSUME TasksInit PROVE IInv
<1> USE ContextFacts, TasksAssumption DEF Spawning, Outside
<1>1. TasksTypeOK
  <2>1. /\ capacity \in Nat \ {0} /\ table \in [1 .. capacity - 1 -> Tasks \cup {None}]
        /\ heap \in [Tasks -> {"unused", "live", "freed"}]
        /\ state \in [Tasks -> {"pending", "running", "completed"}]
        /\ id \in [Tasks -> Nat]
    BY DEF TasksInit
  <2>2. /\ queue \in Seq(Tasks)
        /\ wpc \in [Workers -> {"fetch", "checked", "asleep", "start", "run", "exited"}]
        /\ wtask \in [Workers -> Tasks \cup {None}]
    BY DEF TasksInit
  <2>3. /\ pc \in [Contexts -> {"off", "run", "created", "discard", "enqueue", "asleep", "woken", "any", "anyAsleep",
                                "destroy", "broadcast", "join", "joined", "down"}]
        /\ ptr \in [Contexts -> Tasks \cup {None}]
        /\ want \in [Contexts -> SUBSET Handles] /\ held \in [Contexts -> SUBSET Handles]
    BY DEF TasksInit
  <2> QED
    BY <2>1, <2>2, <2>3 DEF TasksInit, TasksTypeOK
<1>2. TableSound /\ PtrSound /\ DestroySound /\ WantSound
  BY DEF TasksInit, TableSound, PtrSound, DestroySound, WantSound, Busy, Waiting
<1>3. OneOwner /\ HandlesValid
  BY DEF TasksInit, OneOwner, HandlesValid
<1>4. PlacesTyped /\ PlacesApart /\ Placed
  BY DEF TasksInit, PlacesTyped, PlacesApart, Placed
<1>5. PoolSound /\ SleepSound
  BY DEF TasksInit, PoolSound, SleepSound, Leaving
<1> QED
  BY <1>1, <1>2, <1>3, <1>4, <1>5 DEF IInv

(* Every step of the runtime and of the program keeps the invariant. *)
LEMMA InvStep == ASSUME IInv, Shared = FALSE, [TasksNext]_tasksVars PROVE IInv'
<1>1. ASSUME NEW c \in Contexts, Choose(c) PROVE IInv'
  BY <1>1, SpawnCreateStep, SpawnCreateFailsStep, WaitInvalidStep, WaitCompletedStep, WaitSleepStep,
     WaitAnyCallStep DEF Choose, Usable
<1>2. ASSUME NEW c \in Contexts, Continue(c) PROVE IInv'
  BY <1>2, SpawnInsertStep, SpawnInsertFailsStep, SpawnDiscardStep, SpawnEnqueueStep, WaitWokenStep,
     DestroyStep, WaitAnyTakeStep, WaitAnySleepStep DEF Continue
<1>3. ASSUME NEW w \in Workers, Serve(w) PROVE IInv'
  BY <1>3, DequeueEmptyStep, DequeueWaitStep, DequeueExitStep, DequeueTakeStep, StartTaskStep DEF Serve
<1>4. ASSUME NEW w \in Workers, FinishTask(w) PROVE IInv'
  BY <1>4, FinishTaskStep
<1>5. ASSUME Shutdown PROVE IInv'
  BY <1>5, ShutdownFlagStep, ShutdownBroadcastStep, ShutdownJoinStep, ShutdownCleanupStep DEF Shutdown
<1>6. ASSUME UNCHANGED tasksVars PROVE IInv'
  BY <1>6 DEF tasksVars, IInv, TasksTypeOK, TableSound, PtrSound, DestroySound, WantSound, OneOwner, HandlesValid,
              PlacesTyped, PlacesApart, Placed, PoolSound, SleepSound, InTable
<1> QED
  BY <1>1, <1>2, <1>3, <1>4, <1>5, <1>6, SpuriousWakeStep DEF TasksNext

(* The invariant holds in every reachable state. *)
LEMMA Invariance == ASSUME Shared = FALSE PROVE TasksSpec => []IInv
<1>1. TasksInit => IInv
  BY InvInit
<1>2. IInv /\ [TasksNext]_tasksVars => IInv'
  BY InvStep
<1> QED
  BY <1>1, <1>2, PTL DEF TasksSpec

-----------------------------------------------------------------------------
(* The places of a live, unfinished task are one; of any other task none. *)
LEMMA PlacesCounted ==
    ASSUME IInv, NEW k \in Tasks
    PROVE  Cardinality(Places(k)) = IF heap[k] = "live" /\ state[k] # "completed" THEN 1 ELSE 0
<1>1. CASE ~(heap[k] = "live" /\ state[k] # "completed")
  <2>1. \A c \in Contexts : ~(pc[c] \in Spawning /\ ptr[c] = k)
    BY <1>1 DEF IInv, PtrSound, PlacesTyped, Spawning, Busy
  <2>2. \A i \in 1 .. Len(queue) : queue[i] # k
    BY <1>1 DEF IInv, PlacesTyped, Spawning
  <2>3. \A w \in Workers : wtask[w] # k
    BY <1>1, ContextFacts DEF IInv, PlacesTyped, Spawning
  <2>4. Places(k) = {}
    BY <2>1, <2>2, <2>3 DEF Places
  <2> QED
    BY <1>1, <2>4, FS_EmptySet
<1>2. CASE heap[k] = "live" /\ state[k] # "completed"
  <2>1. ASSUME NEW c \in Contexts, pc[c] \in Spawning, ptr[c] = k
        PROVE  Places(k) = {<<"spawner", c>>}
    <3>1. \A d \in Contexts : pc[d] \in Spawning /\ ptr[d] = k <=> d = c
      BY <2>1, ContextFacts DEF IInv, OneOwner
    <3>2. \A i \in 1 .. Len(queue) : queue[i] # k
      BY <2>1 DEF IInv, PlacesApart, Spawning
    <3>3. \A w \in Workers : wtask[w] # k
      BY <2>1 DEF IInv, PlacesApart, Spawning
    <3> QED
      BY <3>1, <3>2, <3>3 DEF Places
  <2>2. ASSUME NEW i \in 1 .. Len(queue), queue[i] = k
        PROVE  Places(k) = {<<"queue", i>>}
    <3>1. \A j \in 1 .. Len(queue) : queue[j] = k <=> j = i
      BY <2>2 DEF IInv, PlacesApart, Spawning
    <3>2. \A c \in Contexts : ~(pc[c] \in Spawning /\ ptr[c] = k)
      BY <2>2 DEF IInv, PlacesApart, Spawning
    <3>3. \A w \in Workers : wtask[w] # k
      BY <2>2 DEF IInv, PlacesApart, Spawning
    <3> QED
      BY <3>1, <3>2, <3>3 DEF Places
  <2>3. ASSUME NEW w \in Workers, wtask[w] = k
        PROVE  Places(k) = {<<"worker", w>>}
    <3>1. \A v \in Workers : wtask[v] = k <=> v = w
      BY <2>3, ContextFacts DEF IInv, PlacesApart, Spawning
    <3>2. \A c \in Contexts : ~(pc[c] \in Spawning /\ ptr[c] = k)
      BY <2>3 DEF IInv, PlacesApart, Spawning
    <3>3. \A i \in 1 .. Len(queue) : queue[i] # k
      BY <2>3 DEF IInv, PlacesApart, Spawning
    <3> QED
      BY <3>1, <3>2, <3>3 DEF Places
  <2>4. \E x : Places(k) = {x}
    BY <1>2, <2>1, <2>2, <2>3 DEF IInv, Placed, Spawning
  <2> QED
    BY <1>2, <2>4, FS_Singleton
<1> QED
  BY <1>1, <1>2

(* A handle returned by SPAWN selects its own task, in spite of slots that *)
(* are reused and of a table that grows, until a wait uses it up.          *)
THEOREM HandlesKeepMeaning == ASSUME Shared = FALSE PROVE TasksSpec => []HandlesDenoteTheirTask
<1>1. ASSUME IInv, pc[Main] # "down", NEW c \in Contexts, NEW e \in held[c] \cup want[c]
      PROVE  Lookup(e[1]) = e[2]
  <2>1. CASE e \in held[c]
    <3>1. CASE e = <<0, None>>
      BY <3>1 DEF Lookup
    <3>2. CASE e # <<0, None>>
      <4>1. e[2] \in Tasks /\ e[1] = id[e[2]] /\ InTable(e[2])
        BY <3>2, <2>1, <1>1 DEF IInv, HandlesValid
      <4> QED
        BY <4>1, <1>1 DEF IInv, TasksTypeOK, InTable, Lookup
    <3> QED
      BY <3>1, <3>2
  <2>2. CASE e \in want[c]
    <3>1. CASE pc[c] \in {"asleep", "woken"}
      <4>1. PICK k \in Tasks : k = ptr[c]
        BY <3>1, <1>1 DEF IInv, TasksTypeOK, PtrSound, Busy
      <4>2. InTable(k) /\ e[1] = id[k] /\ e[2] = k
        BY <4>1, <3>1, <2>2, <1>1 DEF IInv, WantSound, PtrSound
      <4> QED
        BY <4>2, <1>1 DEF IInv, TasksTypeOK, InTable, Lookup
    <3>2. CASE pc[c] \in {"any", "anyAsleep"}
      BY <3>2, <2>1, <2>2, <1>1 DEF IInv, WantSound
    <3> QED
      BY <3>1, <3>2, <2>2, <1>1 DEF IInv, WantSound, Waiting
  <2> QED
    BY <1>1, <2>1, <2>2
<1>2. IInv => HandlesDenoteTheirTask
  BY <1>1 DEF HandlesDenoteTheirTask
<1> QED
  BY <1>2, Invariance, PTL

(* The state keeps its types, and a live task that has not completed is in *)
(* exactly one of: the hands of its spawner, the queue, a worker.  No task *)
(* is run twice and none is dropped.                                       *)
THEOREM TasksScheduledOnce == ASSUME Shared = FALSE PROVE TasksSpec => []ScheduledOnce
<1>1. IInv => ScheduledOnce
  BY PlacesCounted DEF IInv, ScheduledOnce
<1> QED
  BY <1>1, Invariance, PTL

(* Nobody sleeps in WAIT or WAIT_ANY on a task that has completed: the     *)
(* state is tested and the broadcast sent under one lock (task.c:154-156,  *)
(* worker.c:30-36).                                                        *)
THEOREM CompletionsSeen == ASSUME Shared = FALSE PROVE TasksSpec => []NoLostCompletion
<1>1. ASSUME IInv, NEW c \in Contexts, pc[c] = "anyAsleep" PROVE Completed(c) = {}
  <2>1. pc[Main] # "down" /\ want[c] \subseteq held[c]
    BY <1>1, StillUp DEF IInv, WantSound
  <2>2. ASSUME NEW e \in want[c], Lookup(e[1]) # None PROVE state[Lookup(e[1])] # "completed"
    <3>1. e[2] \in Tasks /\ e[1] = id[e[2]] /\ InTable(e[2])
      BY <2>1, <2>2, <1>1 DEF IInv, HandlesValid, Lookup
    <3>2. Lookup(e[1]) = e[2]
      BY <3>1, <1>1 DEF IInv, TasksTypeOK, InTable, Lookup
    <3> QED
      BY <3>2, <2>2, <1>1 DEF IInv, SleepSound
  <2> QED
    BY <2>2 DEF Completed
<1>2. IInv => NoLostCompletion
  BY <1>1 DEF IInv, SleepSound, NoLostCompletion
<1> QED
  BY <1>2, Invariance, PTL

(* sigil_runtime_shutdown loses no work and no memory: once the workers    *)
(* are joined every live task has completed, and at the end none is live.  *)
THEOREM ShutdownLosesNothing == ASSUME Shared = FALSE PROVE TasksSpec => []ShutdownDrains
<1>1. ASSUME IInv, pc[Main] \in {"joined", "down"}, NEW k \in Tasks, heap[k] = "live"
      PROVE  state[k] = "completed"
  <2>1. \A w \in Workers : wpc[w] = "exited" /\ wtask[w] = None
    BY <1>1 DEF IInv, PoolSound, PlacesTyped, Spawning
  <2>2. Len(queue) = 0
    BY <1>1 DEF IInv, PoolSound
  <2>3. \A c \in Contexts : pc[c] \notin Spawning
    BY <2>1, <1>1, ContextFacts DEF IInv, PoolSound, Spawning
  <2> QED
    BY <2>1, <2>2, <2>3, <1>1, ContextFacts DEF IInv, Placed, Spawning
<1>2. IInv => ShutdownDrains
  BY <1>1 DEF IInv, PoolSound, ShutdownDrains
<1> QED
  BY <1>2, Invariance, PTL

=============================================================================
