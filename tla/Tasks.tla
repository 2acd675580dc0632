------------------------------- MODULE Tasks -------------------------------
(***************************************************************************)
(* Tasks of the Sigil runtime: the task table and SPAWN / WAIT / WAIT_ANY  *)
(* (runtime/src/task.c), the work queue (scheduler.c), the worker pool     *)
(* (worker.c) and its start and shutdown (runtime.c).                      *)
(*                                                                         *)
(* A context is whatever runs compiled Sigil code: the main thread, or a   *)
(* task while a worker executes it.  A worker whose task blocks is blocked *)
(* with it.  Code under table->lock, or under queue_lock, is one step,     *)
(* with one exception: scheduler_dequeue is cut between reading            *)
(* s->shutdown and going to sleep, because sigil_runtime_shutdown writes   *)
(* that flag and broadcasts without holding queue_lock.                    *)
(***************************************************************************)
EXTENDS Integers, Sequences, FiniteSets

CONSTANTS Workers,          \* the OS threads of the pool, one per CPU
          Tasks,            \* the Task objects the run may allocate
          Main,             \* the main thread's context
          None,             \* the null pointer
          InitialCapacity,  \* INITIAL_TASK_TABLE_SIZE
          Failing,          \* the contexts whose allocations may fail
          Nested,           \* may a task itself spawn and wait?
          Shared            \* may a handle be waited on twice, by anyone?

ASSUME TasksAssumption ==
    /\ IsFiniteSet(Workers) /\ IsFiniteSet(Tasks)
    /\ Workers # {}                      \* runtime.c:28
    /\ Main \notin Tasks /\ None \notin Tasks
    /\ InitialCapacity \in Nat \ {0}
    /\ Failing \subseteq Tasks \cup {Main}
    /\ Nested \in BOOLEAN /\ Shared \in BOOLEAN

Contexts == Tasks \cup {Main}

VARIABLES heap,       \* heap[k]: has the Task object been allocated, freed?
          state,      \* state[k]: k->state (TASK_FAILED is never assigned)
          id,         \* id[k]: k->id, the handle task_table_insert gave it
          capacity,   \* table->capacity
          table,      \* table->tasks; slot 0 is reserved
          queue,      \* the linked list from queue_head to queue_tail
          shutdown,   \* scheduler.shutdown
          wpc,        \* wpc[w]: where worker w is
          wtask,      \* wtask[w]: the task worker w took from the queue
          pc,         \* pc[c]: where context c is in its program
          ptr,        \* ptr[c]: the Task pointer local to c's runtime call
          want,       \* want[c]: the handles passed to c's WAIT or WAIT_ANY
          held        \* held[c]: the handles returned to c, each with the
                      \* task it was returned for (None for a failed SPAWN)

taskVars == <<heap, state, id, capacity, table>>
schedVars == <<queue, shutdown, wpc, wtask>>
ctxVars == <<pc, ptr, want, held>>
tasksVars == <<heap, state, id, capacity, table, queue, shutdown, wpc, wtask,
          pc, ptr, want, held>>

Handles == Nat \X (Tasks \cup {None})

TasksTypeOK ==
    /\ heap \in [Tasks -> {"unused", "live", "freed"}]
    /\ state \in [Tasks -> {"pending", "running", "completed"}]
    /\ id \in [Tasks -> Nat]
    /\ capacity \in Nat \ {0}
    /\ table \in [1 .. capacity - 1 -> Tasks \cup {None}]
    /\ queue \in Seq(Tasks)
    /\ shutdown \in BOOLEAN
    /\ wpc \in [Workers -> {"fetch", "checked", "asleep", "start", "run", "exited"}]
    /\ wtask \in [Workers -> Tasks \cup {None}]
    /\ pc \in [Contexts -> {"off", "run", "created", "discard", "enqueue",
                            "asleep", "woken", "any", "anyAsleep", "destroy",
                            "broadcast", "join", "joined", "down"}]
    /\ ptr \in [Contexts -> Tasks \cup {None}]
    /\ want \in [Contexts -> SUBSET Handles]
    /\ held \in [Contexts -> SUBSET Handles]

(* sigil_runtime_init: an empty table, an empty queue, every worker about  *)
(* to ask for work.                                                        *)
TasksInit ==
    /\ heap = [k \in Tasks |-> "unused"]
    /\ state = [k \in Tasks |-> "pending"]
    /\ id = [k \in Tasks |-> 0]
    /\ capacity = InitialCapacity
    /\ table = [i \in 1 .. InitialCapacity - 1 |-> None]
    /\ queue = <<>>
    /\ shutdown = FALSE
    /\ wpc = [w \in Workers |-> "fetch"]
    /\ wtask = [w \in Workers |-> None]
    /\ pc = [c \in Contexts |-> IF c = Main THEN "run" ELSE "off"]
    /\ ptr = [c \in Contexts |-> None]
    /\ want = [c \in Contexts |-> {}]
    /\ held = [c \in Contexts |-> {}]

-----------------------------------------------------------------------------
(* queue_lock is free unless a worker is between its test and its wait. *)
QueueUnlocked == \A w \in Workers : wpc[w] # "checked"

(* Contexts that may call the concurrency operations now. *)
Program(c) == pc[c] = "run" /\ (c = Main \/ Nested)

(* The handles c may pass to a wait: its own, each until it is used up; or *)
(* any handle ever returned, when handles are shared.                      *)
Usable(c) == IF Shared THEN UNION {held[d] : d \in Contexts} ELSE held[c]

UsedUp(c, e) == held' = IF Shared THEN held ELSE [held EXCEPT ![c] = @ \ {e}]

(* The task pointer a handle selects: null when out of range or reaped. *)
Lookup(h) == IF h > 0 /\ h < capacity THEN table[h] ELSE None

(* Which freed or fresh address calloc returns is of no consequence: the   *)
(* next object never used stands for it, and freed ones stay recognisable. *)
Fresh == CHOOSE k \in Tasks : heap[k] = "unused"

FreeSlots == {i \in 1 .. capacity - 1 : table[i] = None}

(* Mutation: the search takes slots of completed tasks for free ones. *)
InsertOverCompleted(k) ==
    LET free == {i \in 1 .. capacity - 1 :
                    table[i] = None \/ state[table[i]] = "completed"}
    IN  \/ \E i \in free :
             /\ \A j \in free : i <= j
             /\ id' = [id EXCEPT ![k] = i]
             /\ table' = [table EXCEPT ![i] = k]
             /\ UNCHANGED capacity
        \/ /\ free = {}
           /\ id' = [id EXCEPT ![k] = capacity]
           /\ capacity' = 2 * capacity
           /\ table' = [i \in 1 .. 2 * capacity - 1 |->
                          IF i < capacity THEN table[i]
                          ELSE IF i = capacity THEN k ELSE None]

(* task_table_insert: the first free slot, or the first of a doubled table. *)
Insert(k) ==
    \/ \E i \in FreeSlots :
         /\ \A j \in FreeSlots : i <= j
         /\ id' = [id EXCEPT ![k] = i]
         /\ table' = [table EXCEPT ![i] = k]
         /\ UNCHANGED capacity
    \/ /\ FreeSlots = {}
       /\ id' = [id EXCEPT ![k] = capacity]
       /\ capacity' = 2 * capacity
       /\ table' = [i \in 1 .. 2 * capacity - 1 |->
                      IF i < capacity THEN table[i]
                      ELSE IF i = capacity THEN k ELSE None]

(* SPAWN: task_create, before any lock is taken. *)
SpawnCreate(c) ==
    /\ Program(c)
    /\ \E k \in Tasks : heap[k] = "unused"
    /\ heap' = [heap EXCEPT ![Fresh] = "live"]
    /\ state' = [state EXCEPT ![Fresh] = "pending"]
    /\ ptr' = [ptr EXCEPT ![c] = Fresh]
    /\ pc' = [pc EXCEPT ![c] = "created"]
    /\ UNCHANGED <<id, capacity, table, schedVars, want, held>>

(* task_create finds no memory, and frees what it has allocated itself:    *)
(* the program gets handle 0.                                              *)
SpawnCreateFails(c) ==
    /\ Program(c) /\ c \in Failing
    /\ held' = [held EXCEPT ![c] = @ \cup {<<0, None>>}]
    /\ UNCHANGED <<taskVars, schedVars, pc, ptr, want>>

(* The new Task gets its slot, and so its handle. *)
SpawnInsert(c) ==
    /\ pc[c] = "created"
    /\ Insert(ptr[c])
    /\ pc' = [pc EXCEPT ![c] = "enqueue"]
    /\ UNCHANGED <<heap, state, schedVars, ptr, want, held>>

(* All slots are in use and realloc cannot double the table.  The Task     *)
(* exists, other contexts go on, and the caller still has to destroy it.   *)
SpawnInsertFails(c) ==
    /\ pc[c] = "created" /\ c \in Failing
    /\ FreeSlots = {}
    /\ pc' = [pc EXCEPT ![c] = "discard"]
    /\ UNCHANGED <<taskVars, schedVars, ptr, want, held>>

(* Mutation: a Task that found no slot is not destroyed. *)
SpawnDiscardLeaks(c) ==
    /\ pc[c] = "discard"
    /\ held' = [held EXCEPT ![c] = @ \cup {<<0, None>>}]
    /\ ptr' = [ptr EXCEPT ![c] = None]
    /\ pc' = [pc EXCEPT ![c] = "run"]
    /\ UNCHANGED <<taskVars, schedVars, want>>

(* task_destroy of a Task that found no slot; SPAWN returns handle 0. *)
SpawnDiscard(c) ==
    /\ pc[c] = "discard"
    /\ heap' = [heap EXCEPT ![ptr[c]] = "freed"]
    /\ held' = [held EXCEPT ![c] = @ \cup {<<0, None>>}]
    /\ ptr' = [ptr EXCEPT ![c] = None]
    /\ pc' = [pc EXCEPT ![c] = "run"]
    /\ UNCHANGED <<state, id, capacity, table, schedVars, want>>

(* sigil_cond_signal on queue_not_empty: one sleeping worker, if any. *)
WakeOne ==
    LET sleepers == {w \in Workers : wpc[w] = "asleep"}
    IN  IF sleepers = {} THEN UNCHANGED wpc
        ELSE \E w \in sleepers : wpc' = [wpc EXCEPT ![w] = "fetch"]

(* Mutation: only the enqueue that ends emptiness signals a worker. *)
SpawnEnqueueSignalsFirst(c) ==
    /\ pc[c] = "enqueue"
    /\ QueueUnlocked
    /\ queue' = Append(queue, ptr[c])
    /\ IF queue = <<>> THEN WakeOne ELSE UNCHANGED wpc
    /\ held' = [held EXCEPT ![c] = @ \cup {<<id[ptr[c]], ptr[c]>>}]
    /\ ptr' = [ptr EXCEPT ![c] = None]
    /\ pc' = [pc EXCEPT ![c] = "run"]
    /\ UNCHANGED <<taskVars, shutdown, wtask, want>>

(* SPAWN, second half: scheduler_enqueue, and the handle is returned. *)
SpawnEnqueue(c) ==
    /\ pc[c] = "enqueue"
    /\ QueueUnlocked
    /\ queue' = Append(queue, ptr[c])
    /\ WakeOne
    /\ held' = [held EXCEPT ![c] = @ \cup {<<id[ptr[c]], ptr[c]>>}]
    /\ ptr' = [ptr EXCEPT ![c] = None]
    /\ pc' = [pc EXCEPT ![c] = "run"]
    /\ UNCHANGED <<taskVars, shutdown, wtask, want>>

(* Clear slot h under the lock; the Task is freed after the unlock. *)
Reap(c, h) ==
    /\ table' = [table EXCEPT ![h] = None]
    /\ ptr' = [ptr EXCEPT ![c] = table[h]]
    /\ pc' = [pc EXCEPT ![c] = "destroy"]
    /\ UNCHANGED <<heap, state, id, capacity>>

(* WAIT on a handle with no task behind it returns at once. *)
WaitInvalid(c, e) ==
    /\ Program(c) /\ e \in Usable(c)
    /\ Lookup(e[1]) = None
    /\ UsedUp(c, e)
    /\ UNCHANGED <<taskVars, schedVars, pc, ptr, want>>

(* WAIT on a completed task: no sleep. *)
WaitCompleted(c, e) ==
    /\ Program(c) /\ e \in Usable(c)
    /\ Lookup(e[1]) # None
    /\ state[Lookup(e[1])] = "completed"
    /\ Reap(c, e[1])
    /\ UsedUp(c, e)
    /\ UNCHANGED <<schedVars, want>>

(* WAIT on a task still pending or running: sleep on task->completed,      *)
(* giving up table->lock but keeping the pointer.                          *)
WaitSleep(c, e) ==
    /\ Program(c) /\ e \in Usable(c)
    /\ Lookup(e[1]) # None
    /\ state[Lookup(e[1])] # "completed"
    /\ ptr' = [ptr EXCEPT ![c] = Lookup(e[1])]
    /\ want' = [want EXCEPT ![c] = {e}]
    /\ pc' = [pc EXCEPT ![c] = "asleep"]
    /\ UsedUp(c, e)
    /\ UNCHANGED <<taskVars, schedVars>>

(* The waiter has the lock again and reads task->state through its old     *)
(* pointer.                                                                *)
WaitWoken(c) ==
    /\ pc[c] = "woken"
    /\ IF state[ptr[c]] = "completed"
       THEN \E e \in want[c] :
              /\ table' = [table EXCEPT ![e[1]] = None]
              /\ pc' = [pc EXCEPT ![c] = "destroy"]
              /\ want' = [want EXCEPT ![c] = {}]
       ELSE /\ pc' = [pc EXCEPT ![c] = "asleep"]
            /\ UNCHANGED <<table, want>>
    /\ UNCHANGED <<heap, state, id, capacity, schedVars, ptr, held>>

(* task_destroy by the context that cleared the slot; the call returns. *)
DestroyTask(c) ==
    /\ pc[c] = "destroy"
    /\ heap' = [heap EXCEPT ![ptr[c]] = "freed"]
    /\ ptr' = [ptr EXCEPT ![c] = None]
    /\ pc' = [pc EXCEPT ![c] = "run"]
    /\ UNCHANGED <<state, id, capacity, table, schedVars, want, held>>

WaitAnyCall(c, E) ==
    /\ Program(c) /\ E \subseteq Usable(c) /\ E # {}
    /\ want' = [want EXCEPT ![c] = E]
    /\ pc' = [pc EXCEPT ![c] = "any"]
    /\ UNCHANGED <<taskVars, schedVars, ptr, held>>

(* The handles of c's WAIT_ANY whose task has completed. *)
Completed(c) ==
    {e \in want[c] : Lookup(e[1]) # None /\ state[Lookup(e[1])] = "completed"}

(* WAIT_ANY reaps the first completed task of its array; any order of the  *)
(* array is possible, so any completed one may be the first.               *)
WaitAnyTake(c) ==
    /\ pc[c] = "any"
    /\ \E e \in Completed(c) : Reap(c, e[1]) /\ UsedUp(c, e)
    /\ want' = [want EXCEPT ![c] = {}]
    /\ UNCHANGED schedVars

(* None has completed: sleep on table->any_completed. *)
WaitAnySleep(c) ==
    /\ pc[c] = "any"
    /\ Completed(c) = {}
    /\ pc' = [pc EXCEPT ![c] = "anyAsleep"]
    /\ UNCHANGED <<taskVars, schedVars, ptr, want, held>>

-----------------------------------------------------------------------------
(* scheduler_dequeue, holding queue_lock: nothing to do and no shutdown. *)
DequeueEmpty(w) ==
    /\ wpc[w] = "fetch" /\ QueueUnlocked
    /\ queue = <<>> /\ ~shutdown
    /\ wpc' = [wpc EXCEPT ![w] = "checked"]
    /\ UNCHANGED <<taskVars, queue, shutdown, wtask, ctxVars>>

(* sigil_cond_wait: release queue_lock and sleep, atomically. *)
DequeueWait(w) ==
    /\ wpc[w] = "checked"
    /\ wpc' = [wpc EXCEPT ![w] = "asleep"]
    /\ UNCHANGED <<taskVars, queue, shutdown, wtask, ctxVars>>

(* Mutation: a worker leaves as soon as it sees the shutdown flag. *)
DequeueExitEarly(w) ==
    /\ wpc[w] = "fetch" /\ QueueUnlocked
    /\ shutdown
    /\ wpc' = [wpc EXCEPT ![w] = "exited"]
    /\ UNCHANGED <<taskVars, queue, shutdown, wtask, ctxVars>>

(* Shutdown and no more work: the worker thread ends. *)
DequeueExit(w) ==
    /\ wpc[w] = "fetch" /\ QueueUnlocked
    /\ queue = <<>> /\ shutdown
    /\ wpc' = [wpc EXCEPT ![w] = "exited"]
    /\ UNCHANGED <<taskVars, queue, shutdown, wtask, ctxVars>>

DequeueTake(w) ==
    /\ wpc[w] = "fetch" /\ QueueUnlocked
    /\ queue # <<>>
    /\ wtask' = [wtask EXCEPT ![w] = Head(queue)]
    /\ queue' = Tail(queue)
    /\ wpc' = [wpc EXCEPT ![w] = "start"]
    /\ UNCHANGED <<taskVars, shutdown, ctxVars>>

(* The worker marks its task running and calls its function. *)
StartTask(w) ==
    /\ wpc[w] = "start"
    /\ state' = [state EXCEPT ![wtask[w]] = "running"]
    /\ wpc' = [wpc EXCEPT ![w] = "run"]
    /\ pc' = [pc EXCEPT ![wtask[w]] = "run"]
    /\ UNCHANGED <<heap, id, capacity, table, queue, shutdown, wtask, ptr, want, held>>

(* Mutation: completion wakes the task's own waiters, not those of WAIT_ANY. *)
FinishTaskSkipsAny(w) ==
    LET k == wtask[w]
    IN  /\ wpc[w] = "run"
        /\ pc[k] = "run"
        /\ state' = [state EXCEPT ![k] = "completed"]
        /\ pc' = [c \in Contexts |->
                    IF c = k THEN "off"
                    ELSE IF pc[c] = "asleep" /\ ptr[c] = k THEN "woken"
                    ELSE pc[c]]
        /\ wpc' = [wpc EXCEPT ![w] = "fetch"]
        /\ wtask' = [wtask EXCEPT ![w] = None]
        /\ UNCHANGED <<heap, id, capacity, table, queue, shutdown, ptr, want, held>>

(* The function returns: mark the task completed and wake everyone asleep  *)
(* on task->completed or on table->any_completed, in one critical section. *)
FinishTask(w) ==
    LET k == wtask[w]
    IN  /\ wpc[w] = "run"
        /\ pc[k] = "run"
        /\ state' = [state EXCEPT ![k] = "completed"]
        /\ pc' = [c \in Contexts |->
                    IF c = k THEN "off"
                    ELSE IF pc[c] = "asleep" /\ ptr[c] = k THEN "woken"
                    ELSE IF pc[c] = "anyAsleep" THEN "any"
                    ELSE pc[c]]
        /\ wpc' = [wpc EXCEPT ![w] = "fetch"]
        /\ wtask' = [wtask EXCEPT ![w] = None]
        /\ UNCHANGED <<heap, id, capacity, table, queue, shutdown, ptr, want, held>>

-----------------------------------------------------------------------------
(* sigil_runtime_shutdown sets the flag without holding queue_lock ...     *)
ShutdownFlag ==
    /\ pc[Main] = "run"
    /\ shutdown' = TRUE
    /\ pc' = [pc EXCEPT ![Main] = "broadcast"]
    /\ UNCHANGED <<taskVars, queue, wpc, wtask, ptr, want, held>>

(* Mutation: one sleeping worker is woken, not all. *)
ShutdownBroadcastOne ==
    /\ pc[Main] = "broadcast"
    /\ \/ \A w \in Workers : wpc[w] # "asleep" /\ UNCHANGED wpc
       \/ \E w \in Workers : wpc[w] = "asleep" /\ wpc' = [wpc EXCEPT ![w] = "fetch"]
    /\ pc' = [pc EXCEPT ![Main] = "join"]
    /\ UNCHANGED <<taskVars, queue, shutdown, wtask, ptr, want, held>>

(* ... and wakes, still without it, the workers that sleep at this moment. *)
ShutdownBroadcast ==
    /\ pc[Main] = "broadcast"
    /\ wpc' = [w \in Workers |-> IF wpc[w] = "asleep" THEN "fetch" ELSE wpc[w]]
    /\ pc' = [pc EXCEPT ![Main] = "join"]
    /\ UNCHANGED <<taskVars, queue, shutdown, wtask, ptr, want, held>>

(* Every worker thread has ended: join returns, and scheduler_shutdown     *)
(* forgets whatever is still queued.                                       *)
ShutdownJoin ==
    /\ pc[Main] = "join"
    /\ \A w \in Workers : wpc[w] = "exited"
    /\ queue' = <<>>
    /\ pc' = [pc EXCEPT ![Main] = "joined"]
    /\ UNCHANGED <<taskVars, shutdown, wpc, wtask, ptr, want, held>>

(* The tasks nobody waited for are destroyed with the table. *)
ShutdownCleanup ==
    /\ pc[Main] = "joined"
    /\ heap' = [k \in Tasks |-> IF \E i \in 1 .. capacity - 1 : table[i] = k
                                THEN "freed" ELSE heap[k]]
    /\ table' = [i \in 1 .. capacity - 1 |-> None]
    /\ pc' = [pc EXCEPT ![Main] = "down"]
    /\ UNCHANGED <<state, id, capacity, schedVars, ptr, want, held>>

(* A condition wait may end without a signal. *)
SpuriousWakeup ==
    \/ /\ \E w \in Workers : wpc[w] = "asleep" /\ wpc' = [wpc EXCEPT ![w] = "fetch"]
       /\ UNCHANGED <<taskVars, queue, shutdown, wtask, ctxVars>>
    \/ /\ \E c \in Contexts :
            \/ pc[c] = "asleep" /\ pc' = [pc EXCEPT ![c] = "woken"]
            \/ pc[c] = "anyAsleep" /\ pc' = [pc EXCEPT ![c] = "any"]
       /\ UNCHANGED <<taskVars, schedVars, ptr, want, held>>

-----------------------------------------------------------------------------
(* What the program decides to do next. *)
Choose(c) ==
    \/ SpawnCreate(c) \/ SpawnCreateFails(c)
    \/ \E e \in Usable(c) : WaitInvalid(c, e) \/ WaitCompleted(c, e) \/ WaitSleep(c, e)
    \/ \E E \in SUBSET Usable(c) : WaitAnyCall(c, E)

(* What a context inside a runtime call does when it gets the lock. *)
Continue(c) ==
    \/ SpawnInsert(c) \/ SpawnInsertFails(c) \/ SpawnDiscard(c) \/ SpawnEnqueue(c)
    \/ WaitWoken(c) \/ DestroyTask(c) \/ WaitAnyTake(c) \/ WaitAnySleep(c)

(* What a worker does between two tasks. *)
Serve(w) ==
    DequeueEmpty(w) \/ DequeueWait(w) \/ DequeueExit(w) \/ DequeueTake(w) \/ StartTask(w)

Shutdown == ShutdownFlag \/ ShutdownBroadcast \/ ShutdownJoin \/ ShutdownCleanup

TasksNext ==
    \/ \E c \in Contexts : Choose(c) \/ Continue(c)
    \/ \E w \in Workers : Serve(w) \/ FinishTask(w)
    \/ Shutdown
    \/ SpuriousWakeup

TasksSpec == TasksInit /\ [][TasksNext]_tasksVars

(* Threads that can run do run, and lock requests are served; a task whose *)
(* calls all return comes to its end; shutdown, once begun, goes on.       *)
TasksFairSpec ==
    /\ TasksSpec
    /\ \A c \in Contexts : WF_tasksVars(Continue(c))
    /\ \A w \in Workers : WF_tasksVars(Serve(w)) /\ WF_tasksVars(FinishTask(w))
    /\ WF_tasksVars(ShutdownBroadcast) /\ WF_tasksVars(ShutdownJoin) /\ WF_tasksVars(ShutdownCleanup)

-----------------------------------------------------------------------------
(* Every pointer that will be followed points at a live Task: those in the *)
(* table, in the queue, with a worker, and those kept by a caller across   *)
(* the sleep of sigil_wait, which holds table->lock otherwise "so the task *)
(* pointer can't be removed and freed out from under us", also when "a     *)
(* WAIT raced a WAIT_ANY on the same handle" (task.c:143-168).             *)
PointersLive ==
    /\ \A i \in 1 .. capacity - 1 : table[i] # None => heap[table[i]] = "live"
    /\ \A i \in 1 .. Len(queue) : heap[queue[i]] = "live"
    /\ \A w \in Workers : wtask[w] # None => heap[wtask[w]] = "live"
    /\ \A c \in Contexts : ptr[c] # None => heap[ptr[c]] = "live"

(* A handle keeps meaning the task SPAWN returned it for until a wait uses *)
(* it up, although task_table_insert reuses slots and WAIT_ANY reaps other *)
(* handles of the same array (task.c:50-57, sigil_runtime.h:93-94).        *)
HandlesDenoteTheirTask ==
    pc[Main] # "down" =>
        \A c \in Contexts : \A e \in held[c] \cup want[c] : Lookup(e[1]) = e[2]

(* Where a context is that has created a Task and not handed it on yet. *)
Spawning == {"created", "discard", "enqueue"}

(* The places where a pending or running task can be on its way. *)
Places(k) ==
    {<<"spawner", c>> : c \in {d \in Contexts : pc[d] \in Spawning /\ ptr[d] = k}}
        \cup {<<"queue", i>> : i \in {j \in 1 .. Len(queue) : queue[j] = k}}
        \cup {<<"worker", w>> : w \in {v \in Workers : wtask[v] = k}}

(* A live task is in exactly one place from its creation to its            *)
(* completion, and in none afterwards: it runs once, on one worker, and is *)
(* never dropped between the table, the queue and the pool; one that finds *)
(* no slot stays with its creator until it is freed (task.c:121-137).      *)
ScheduledOnce ==
    /\ TasksTypeOK
    /\ \A k \in Tasks :
         Cardinality(Places(k)) =
             IF heap[k] = "live" /\ state[k] # "completed" THEN 1 ELSE 0

(* No completion is missed: whoever sleeps on a task's condition variable, *)
(* or on any_completed, sleeps on tasks that have not completed            *)
(* (worker.c:30-36, task.c:154-156, 188-212).                              *)
NoLostCompletion ==
    \A c \in Contexts :
        /\ pc[c] = "asleep" => state[ptr[c]] # "completed"
        /\ pc[c] = "anyAsleep" => Completed(c) = {}

(* When the pool has been joined no task is left undone, although workers  *)
(* leave one by one while others still spawn; and when the runtime is down *)
(* every Task ever created has been freed (sigil_runtime.h:33).            *)
ShutdownDrains ==
    /\ pc[Main] \in {"joined", "down"} =>
         \A k \in Tasks : heap[k] = "live" => state[k] = "completed"
    /\ pc[Main] = "down" => \A k \in Tasks : heap[k] # "live"

(* Context c is inside a wait that cannot return yet. *)
Blocked(c) ==
    \/ pc[c] \in {"asleep", "woken"} /\ state[ptr[c]] # "completed"
    \/ pc[c] \in {"any", "anyAsleep"} /\ Completed(c) = {}

(* Every worker is held by a task that waits for another, or has left. *)
PoolExhausted ==
    \A w \in Workers : wpc[w] = "exited" \/ (wpc[w] = "run" /\ Blocked(wtask[w]))

Queued(k) == \E i \in 1 .. Len(queue) : queue[i] = k

(* No wakeup of a worker is lost: a queued task is taken up, unless the    *)
(* whole pool comes to be held by waiting tasks (scheduler.c:36-81).       *)
QueuedTasksRun == \A k \in Tasks : Queued(k) ~> (~Queued(k) \/ PoolExhausted)

(* A worker that sleeps when the flag is set leaves the pool, unless a     *)
(* task it takes up on the way waits for ever (runtime.c:43-44,            *)
(* scheduler.c:57-66, worker.c:8-37).                                      *)
ShutdownWakesSleepers ==
    \A w \in Workers :
        (pc[Main] = "broadcast" /\ wpc[w] = "asleep")
          ~> (wpc[w] = "exited" \/ [](wpc[w] = "run" /\ Blocked(wtask[w])))

(* sigil_runtime_shutdown "Waits for all tasks to complete, terminates     *)
(* worker threads" (sigil_runtime.h:33): it returns when no task waits for *)
(* ever, which Nested = FALSE ensures.  The flag is set and broadcast      *)
(* without queue_lock (runtime.c:43-44), so a worker between its test of   *)
(* the flag and its sleep (scheduler.c:59-60) misses both.                 *)
ShutdownReturns == pc[Main] = "broadcast" ~> pc[Main] = "down"
=============================================================================
