# A TLA+ model of the Sigil runtime and compiler

Sigil is a small language with a compiler written in Rust over LLVM
(`compiler/src`) and a runtime library in C (`runtime/src`). This directory
holds TLA+ modules translated from that code, the TLC configurations that check
them, and proofs checked by TLAPS. Line numbers in comments refer to the
repository at the commit the modules were written from.

## The system's parts

| part | state it keeps | operations | interacts with | what is hard about it |
|---|---|---|---|---|
| channels (`channel.c`) | ring buffer, head, tail, count, closed flag, two condition variables per channel; a table of channels | create, send, receive, close, (destroy) | called by generated code from every thread | lost wakeups, close racing blocked calls, wrap-around |
| tasks (`task.c`) | `Task` objects, the growing task table, `any_completed` | spawn, wait, wait_all, wait_any | scheduler, workers | pointers kept across condition waits, slot reuse, completions missed |
| scheduler (`scheduler.c`) | linked queue, shutdown flag | enqueue, dequeue, shutdown | tasks, workers, runtime | lost wakeups, shutdown racing sleep |
| workers and lifecycle (`worker.c`, `runtime.c`) | the pool's threads | run tasks, init, shutdown | all of the above | blocked workers, joining while tasks still spawn |
| scope allocator (`memory.c`) | a tree of scopes with their live allocations | create, alloc, free, destroy | generated code of one leaf behavior | scopes left by a JUMP, recycled addresses |
| code generator (`codegen/`) | name bindings, mutable slots, call outputs, current scope token | emits the calls above, memory accesses and bounds checks | runtime | which calls happen on which path, what a name is bound to |
| control-flow graph (`cfg.rs`) | blocks, successors | flatten scopes, build, all paths, termination | ownership analysis | loops, jumps out of scopes |
| semantic analysis (`semantic/`) | what is known of each name, per-path freed/stored/allocated sets, borrows, produced and consumed outputs | one check per language rule | cfg, graph, code generator | what a check by names or by paths misses |
| behavior graph (`graph/`) | nodes with ports, library contracts, edges | add, remove, connect, derive wiring, validate, gaps, topological sort | build pipeline | cycles, hash-map order, purity across files |
| build pipeline (`main.rs`, `cache.rs`, `hash.rs`, `linker.rs`) | source files, object files, manifest, archive, index, registry | load, validate, compile or reuse, save, link, archive | all of the compiler, authors | stale cache entries, crashes between two writes, edits during a build |
| lexer and parser (`lexer.rs`, `parser.rs`, `ast.rs`) | description mode, the stack of running functions | read a file's sections, statements, expressions | build pipeline | lexer and parser disagreeing, operands without delimiters |
| diagnostics, native I/O, standard library | none worth a model | | | formatting, system calls, programs in the language |

Generated programs are the environment of the runtime modules: they choose
which operation a thread performs next, subject only to the shape of the calls
the code generator emits.

## Modules

### `ChannelFifo` and `Channel`

`ChannelFifo` is what a channel promises: a bounded FIFO queue with a close
flag. `Channel` models `channel.c` for one channel and any number of threads.
Its variables are the fields of `struct Channel`, the sets of threads asleep on
`not_full` and `not_empty`, and for every thread the call it is in, the
element buffer it passed and the status of its last call. All of the struct is
accessed under `ch->lock`, so what a thread does between taking the mutex and
releasing it, or giving it up in `sigil_cond_wait`, is one step:
`SendWait`/`SendClosed`/`SendStore` are the three ways through
`sigil_channel_send`, `ReceiveWait`/`ReceiveClosed`/`ReceiveTake` those through
`sigil_channel_receive`. `sigil_cond_signal` wakes an arbitrary sleeper, which
then competes for the mutex with everyone else; `SpuriousWake` lets a wait end
without a signal. A receive starts from an arbitrary buffer, as the generated
code passes an uninitialised stack slot.

### `Tasks`

Models `task.c`, `scheduler.c`, `worker.c` and `runtime.c` together, since they
share the Task objects. A *context* is the main thread or a running task. The
variables are the Task heap (allocated, freed), each Task's state and handle,
the table, the queue, the shutdown flag, where every worker and every context
is, the Task pointer each runtime call keeps, and the handles each program
holds. Each handle is kept with the task it was returned for, so that a
property can say when slot reuse makes it mean another one.

`SPAWN` is three steps: `task_create`, before any lock is taken, the table's
critical section and the queue's. Either allocation may fail: `task_create`
then leaves nothing, while after a table that cannot grow the caller still has
to destroy the Task, as a step of its own (`SpawnDiscard`). `WAIT` and
`WAIT_ANY` are cut at their condition waits and before `task_destroy`, which
happens after the unlock. `scheduler_dequeue` is one step except that the test
of the shutdown flag and the sleep are separate, because
`sigil_runtime_shutdown` does not take `queue_lock`. `WAIT_ALL` is a sequence
of waits, which programs of the model can perform. `Fresh` picks the object an
allocation returns; freed objects are not reused, so that a use after free
stays visible. Compiled programs never call `sigil_runtime_shutdown`; a host
program that embeds the runtime does, from its main thread.

Three constants select the programs considered: `Nested` lets tasks spawn and
wait themselves, `Failing` names the contexts whose allocations may fail, and
`Shared` lets several contexts wait for one handle.

### `ScopeMemory`

Models `memory.c` under the calls generated for one leaf behavior: a root scope
on entry, destroyed on return; a child scope per `SCOPE`, destroyed at
`END_SCOPE`; `ALLOC` and `FREE` on the scope in force. A `JUMP` out of a scope
is a branch and calls nothing. `tokens` holds the scope tokens the program text
puts in force. Addresses of scopes and blocks are recycled freely. Leaves call
nothing and composites have no scopes of their own, so one scope tree belongs
to one invocation on one thread. Two history variables record the orphans
whose link was overwritten and whether `free` met freed memory.

### `Ownership`

Models what the compiler does with the memory operations of one behavior body:
`flatten_scopes`, the basic blocks and their successors, `all_paths` and
`all_paths_terminate` of `cfg.rs`, the scan of every path in
`validate_ownership_cfg`, and the execution of the bodies that are accepted. A
body is a sequence of nodes (`ALLOC`, `FREE`, `STORE`, `LOAD`, `LABEL`, `JUMP`,
`BRANCH`, `SCOPE`, `END_SCOPE`, `SET` of the output), and scopes are brackets in
it. `Compile` is the whole of `analyze` for these nodes followed by the code
generator's refusal of unknown names; the actions named `Run...` execute one
node each. A `BRANCH` goes either way. Operators named `Path...` are the cases of
the loop over a path's statements, with the sets `freed_on_path`, `stored_on_path`,
`alloc_on_path` and `written_outputs_on_path` in one record.

Three things about names matter. The code generator forgets the names of a
`SCOPE` at its end, so a later `STORE` or `LOAD` fails the build and a later
`FREE` generates nothing. Names are bound by one `ALLOC`. And a path may skip
that `ALLOC`: the analysis lets a `STORE` or `FREE` after it pass, the
generated code uses a value it never computed, and a run is not followed
beyond that point (`Unbound`). Blocks of a scope left by a `JUMP` are freed
with the enclosing scope; `ScopeMemory` treats the case where they are not.

### `LeafBody`

Models what happens to a leaf body without branches, statement by statement, in
three places at once: what the analysis knows of each name (`VarInfo`, the
path sets and the SPAWN borrows of `context.rs`, the errors of `validate_node`,
`validate_expr` and `check_bounds`), what the code generator binds the name to
(`variables`, or a slot for a name assigned more than once), and the memory
that the generated code accesses, with the bounds check it emits for a dynamic
offset in modular arithmetic. The code analyses the whole body before it
compiles it. Without branches both passes go through the statements in the same
order and neither looks at later ones, except for the set of reassigned names,
which `LeafInit` chooses in advance.

The properties speak of bodies without certain *loose uses*. Each of them is a
way in which the code lets through what a property forbids, and each is needed:
without it there is a body, of up to five statements, that breaks the property
that names it. Two exceptions of `AccessesInBounds` came out of attempts to prove
it: `empty`, and `shadowed`, whose shortest body has six statements.

| use | what the code does |
|---|---|
| `short` | a caller's buffer may be smaller than the declared size of a bytes INPUT |
| `folded` | the analysis folds a constant size, the code generator allocates 64 bytes for anything but a literal |
| `negative` | the emitted check adds offset and width modulo 2^64 |
| `empty` | no check is emitted for a dynamic offset into a block of size 0 |
| `float` | a float is loaded and stored with its own width, not with the declared one |
| `atomic` | atomic operations are not checked for bounds or for a freed handle |
| `number` | an integer used as an address has no bounds |
| `copied` | a second name of a block is not freed with the first |
| `set` | SET of a local binds a name that a mutable slot hides |
| `mixed` | a name whose values have different kinds keeps its slot |
| `shadowed` | the end of a SCOPE restores the bindings of the code generator, not what the analysis knows |
| `unscanned` | only an assigned expression and the target of a STORE are scanned for freed handles |
| `scoped` | a block of a SCOPE is freed at its end, borrowed or not |
| `stale` | ALLOC does not clear the stored mark of its name |

### `Composition`

Models a COMPOSITION node by node: `check_composite_purity`, the obligations,
sinks and propagation edges of `check_outputs_consumed`, and the code for its
CALLs, in which `r.f` is resolved at compile time through `call_outputs` and
the outputs of a call that is not bound yet wait under `__pending`. Every value
an output receives is a token `<<call, output>>`, so that one can follow where
it goes. `EndBody` gives the verdict of `analyze`. The properties exclude a
name bound twice, a nested CALL, a partial `->` list, a whole result that is
used or copied, and a DISCARD of a field that does not exist, each only where
it matters.

### `BehaviorGraph`

Models `graph/`: nodes with typed ports, library contracts, `add_edge` with its
refusals, `remove_node`, the wiring derived from composites, the four checks of
`validate_graph`, the gap detector, `completeness_pct` and `topological_sort`.
A contract is denoted by its hash. The sort and the purity check are taken step
by step, because their worklists are filled in the order of a hash map.
`check_circular_dependencies` looks only at which names end up emitted, so it
is given by the least set that its worklist fills (`Emitted`). What the checks
are compared with (`Reaches`, `RequiresCycle`, `PurityThroughLocals`) is stated
without a worklist: the names a node reaches are the least set that has its
requirements and is closed under those of local behaviors. `WordSize` is the
modulus of `usize`; the ports of a graph are in memory, so their number is
below it (`GraphAssumption`), while the subtraction in `completeness_pct` may
still wrap.

### `Build`

Models `sigil` as a process that is started, runs and may be killed: the loader
as the stack of `load_dependencies`, validation of HASH lines, the whole-graph
checks, the loop over the files with `needs_recompile`, the manifest, linking;
and the library build with archive, index and registry. Object files, the
manifest, the archive and the registry are on `disk`; everything else is lost
with the process. Authors edit the files at any moment, a build included, but
not a file that the loader is inside of. On files that require each other the
loader goes round the cycle (`Recurse`), parsing the same files again and
pushing a frame each time, until the stack is full: `StackLimit` stands for the
size of the process's stack. A hash is its content. Object paths contain the
source, as in `object_path`, so an object is overwritten by a later build of
the same source against other signatures, which is why a manifest that was not
saved matters. `exe.suspect` and `disk.overwritten` are history: they name the
files to which one of these accidents happened.

### `FrontEnd` and `Syntax`

`FrontEnd` lets an author write a file line by line, following the grammar, and
gives each line to the lexer (`Lex`: strings and numbers inside and outside a
description, entering and leaving description mode) and to the parser, a stack
of running functions with one action each. The two stacks can be compared after
every line. `slips` records what the author did that matters to a property.

`Syntax` has every statement and expression. The author's tree is written as
tokens, without brackets, and the recursive descent of `parse_node` and
`parse_expr` reads it back; `stmt.clean` says whether a part of the tree
swallows what follows, and is computed from the tree alone.

### `MC...` modules and mutations

Each `MC` module instantiates the module of the same name for TLC; `MCPurity`
is a second instance of `BehaviorGraph`, with a library whose pure behavior
requires an impure one. `MCOwnership` builds the bodies from shapes of control
flow. `MCBodies` puts the modules about one body side by side, and `MCProject`
those about a project: their variable `part` says which of them a behavior is
about. The parts share no state, so the others stay in one initial state, and
the run checks each part as if it were alone.
Operators introduced by the comment *Mutation:* are not part of the model.
Each is a variant of the operator that follows it with a plausible bug, kept to
show that a property is able to fail: with the operator replaced by the
variant, TLC reports that property violated.

## Runs

| run | instance | distinct states | shows |
|---|---|---|---|
| `channel` | 3 threads, 2 values, capacity 2 | 44,504 | FIFO refinement, no lost wakeups on either side, closing is final and releases every blocked call |
| `tasks` | 2 workers, 3 tasks, table of 2, main's allocations may fail, one waiter per handle | 101,053 | handles keep their meaning, every task scheduled once and nothing left by a failed SPAWN, no completion missed, queued tasks run unless the pool is held, shutdown leaves nothing undone, workers asleep at the broadcast leave |
| `bodies` | leaves of up to 4 of 32 statements, 2 locals; 5,876 bodies of 12 shapes of control flow; 3 scopes, 2 blocks; compositions of up to 4 nodes | 626,770 | accesses in bounds, names denote what was assigned last, lent blocks outlive their task, without the loose uses; accepted bodies without loops are safe, the verdict is exact, outputs are written and the end stays reachable with loops too; scope links sound, nothing freed twice; outputs reach a sink, fields denote their call, nothing is computed but the capacity of a CHANNEL |
| `project` | files of up to 4 lines, hashes of 2 digits; every statement, operands nested two deep, pairs on a line; up to 3 of 9 behaviors, 3 library exports; 2 behaviors, 1 library behavior, 1 pattern, ENTRY with 3 builds, 2 edits, 1 trouble | 1,615,474 | contracts kept; read back as written exactly if nothing is swallowed, and the parser always goes on; edges sound, cycles found exactly, orders correct, gaps agree with the checks; linked callers and callees agree, pins hold, dependencies first, no needless compilation, every build ends unless requirements form a cycle |
| `tasks_shared` | 2 workers, 2 tasks, handles shared | violated | a Task is freed under the pointer of a sleeping WAIT |
| `shutdown` | 2 workers, 2 tasks that wait for nothing | violated | shutdown waits for ever for a worker that was about to sleep |
| `scopes_leak` | 3 scopes, 1 block | violated | a scope left by JUMP and pushed out of its parent's link is never released |
| `ownership_loops` | the bodies of control flow of `bodies` | violated | the body of a loop is on no examined path |
| `purity` | 1 behavior, 2 library exports, one requiring the other | violated | impurity behind a library is not seen |
| `build_stale` | the project of `project`, 4 builds, no trouble | violated | a pattern keeps code for an old signature of what it calls |
| `cycles` | the same, 1 build | violated | the loader overflows its stack on a cycle, which is not reported |
| `descriptions` | files of up to 4 lines | violated | lexer and parser disagree on where a description ends |

The eight violated properties quote what a comment or a document says; what the
code does instead is under `findings` in `PROJECT.json`, with three further
disagreements. Where a module has a type invariant that the cfg does not list,
it is a conjunct of one of the listed invariants.

Bounds. Two sleepers and one actor are what a lost wakeup needs, so channels
have three threads, and capacity two separates full, partly filled and empty.
Two workers suffice for a worker that sleeps while another runs; three tasks
on a table of capacity two make the table grow, and slots be reused while
other tasks are live. Three scope structs allow an orphan beside a new scope
under one parent, and two blocks let an address be recycled while another is
live. The bodies of `Ownership` have four or five places for an
operation, each tried with every operation and empty, around two branches in
sequence, two arms that join, loops tested before and after, a loop without an
exit, an undeclared label, and scopes that are nested, contain a branch, are
left by a jump or repeated. One handle is enough because the analysis keeps
its sets per name and no operation relates two names. The number of Task objects is
the only bound on a run's length in `Tasks`.

Four statements let a name be allocated, lent to a task, freed and touched
again, or be assigned before and within a SCOPE and read after it; a dynamic
offset is 4 or a number close to the word's modulus, so that a check can pass,
fail and wrap, and one block has size 0, for which there is no check. Four
nodes hold a CALL, a nested or second CALL, an assignment and a sink. Three
graph nodes give cycles of every length up to three and a diamond through a
library. Three builds are a first one, one that is disturbed and one that uses
what is left; two edits change a callee and its caller, or a pin and its
target. A stack of six frames goes round a cycle of two files more than twice.
Four lines
reach a contract with a clause repeated, and `ContractsKept` is proved for files of
any length; hashes of two digits have every split into leading
zeros, digits and letters. Operands two deep show each swallowing part both as
the last part of the statement and before another one.

Fairness. `ChannelFairSpec` and `TasksFairSpec` ask weak fairness of every
thread that is awake inside a runtime call or between two tasks: the operating
system runs runnable threads, and mutexes are requested only for short
critical sections. A task whose calls have all returned comes to its end. No
fairness is asked of what a program chooses to do, of spurious wakeups, or of
starting a shutdown. Deadlock checking is off for `Tasks`, which may rightly
stop when the runtime is down or when tasks wait for each other. A channel
call may block for ever, but another thread can always begin a call or close
it, so deadlock checking is on for `Channel`. It is off where a body, a file or
the bounded number of builds comes to its end. `BuildProgresses` needs no
fairness: every step of the compiler outside the recursion on a cycle makes the
rest of its work smaller. Nor does `ParserGoesOn`, which says that the parser is
never stuck on a line; each of its steps takes tokens or leaves a function.

## What the properties leave out

Several properties hold only with an exception. The exceptions are behaviour of
the code that a reader of its comments might not expect.

- A pool all of whose workers wait for queued tasks stands still
  (`QueuedTasksRun` excepts it), and so does shutdown when a task waits for
  ever (`ShutdownWakesSleepers` excepts the worker that runs it).
- The properties of `tasks` are about programs in which one context waits for a
  handle, once: the header calls a handle invalid after its wait. What happens
  when two contexts wait for it is the run `tasks_shared`.
- What is released of the scopes left by a JUMP: `OnlyOverwrittenLeak` says
  that only the ones `scopes_leak` is about are not. It is proved, not listed
  in a cfg.
- A handle freed in a nested SCOPE gets a second, synthetic FREE from the outer
  one (`cfg.rs:101`) and the body is rejected as a double free; one freed on
  one arm within its SCOPE gets none, and is reported as leaked on the other.
  `VerdictExact` speaks of bodies that leave scoped blocks to their scopes;
  `AcceptedIsSafe` of all bodies without loops.
- The loose uses of `LeafBody` and `Composition`, above.
- An object overwritten by a build that saved no manifest, a file edited
  between parsing and hashing, and a registry that does not describe the
  archive are excepted by `Sound` in `Build`. ENTRY is compiled for the current
  signatures of local behaviors with a HASH line only, patterns for none.
  `UnchangedIsCached` leaves ENTRY out, which a comment wants compiled always
  and the code takes from the cache.
- `completeness_pct` subtracts broken references from ports and may wrap
  (`graph/mod.rs:594`). A pin to a library block without hash is a gap but no
  error. `PurityThroughLocals`, which is proved, says what the purity check
  decides without the libraries of the run `purity`.
- A composite may compute the capacity of a CHANNEL (`WiresOnly`).
- `InStep` and `RejectedExactly`, which are proved, leave out the descriptions
  of the run `descriptions`. A behavior indented in a pattern never leaves the
  lexer's description mode, so its string literals are rejected. A SCOPE that
  is not closed and a file that is cut short outside a behavior are accepted. A
  second REQUIRES or GUARANTEES replaces the first, and a pin of decimal digits
  takes a following name that is a hexadecimal number.
- A LOAD or STORE without offset takes the next integer or name as its offset,
  and a CALL or SPAWN within an expression takes the rest of the line.

## Proofs

Every proof has the same shape: an inductive invariant `IInv`, a lemma for each
action, and theorems that follow from `IInv`. The bounds of the runs play no
part in them. No theorem assumes anything of the constants but the named
assumptions of the modules, except where stated.

### `ChannelProofs`

For every capacity, every finite set of threads and every set of values
(`ChannelAssumption`):

- `TypeCorrect`: `ChannelTypeOK` is invariant. It is inductive by itself; the
  arithmetic of the ring (`Advance`, `Offset`) is proved once as lemmas.
- `NoReceiverLost` and `NoSenderLost`. Neither is inductive alone. `WakeInv`
  adds to both `ChannelTypeOK` and `SleepersMatchCalls`, which says that a thread
  sleeps on the condition variable of the call it is in: without it a signal
  could be spent on a thread it does not help. `CountThreads` bounds the
  number of awake threads before and after a step: a store adds one element
  and, if anyone sleeps, one awake receiver; a take removes both.
- `ClosedForGood`: the action property `ClosedStaysClosed`.
- `Refinement`: `Channel` implements `ChannelFifo` under the mapping that reads
  the ring from `head`. `RingConsistent` is the extra invariant needed for
  `StoreAppends` and `TakeRemovesHead`.

### `TasksProofs`

For every finite pool of workers that is not empty (`runtime.c:28` raises the
number to one), every finite set of tasks and every initial table size
(`TasksAssumption`), nested spawns and failing allocations included:
`HandlesKeepMeaning` (`HandlesDenoteTheirTask`), `TasksScheduledOnce`
(`ScheduledOnce`), `CompletionsSeen` (`NoLostCompletion`) and
`ShutdownLosesNothing` (`ShutdownDrains`).

All four assume `Shared = FALSE`: a handle is waited for by one context. The
header asks it of programs, since a wait invalidates the handle; with two
waiters a Task may be freed twice (`tasks_shared`), and nothing can be said.

What the four properties do not say, and the invariant must:

- `TableSound`, `HandlesValid`: an occupied slot holds a live task whose own
  handle names that slot, and a program's handle is in range.
- `OneOwner`: at most one context holds a handle of a live task, or waits for
  it. With it, the context about to destroy a task (`DestroySound`) is the
  only one that still has a pointer to it (`PtrSound`, `WantSound`).
- `PlacesTyped`, `PlacesApart`, `Placed`: the spawner's hands, the queue and
  the workers hold different unfinished tasks, and every unfinished task is in
  one of them. `ScheduledOnce` counts the places; the invariant speaks of them
  one by one, because a step moves a task from one to the next, and
  `PlacesCounted` turns the one form into the other.
- `PoolSound`: when the shutdown has gone past its joins no worker has a task
  and the queue is empty. `SleepSound`: whoever sleeps, sleeps on tasks that
  have not completed.

### `ScopeProofs`

For all sets of scope and block addresses that `ScopeAssumption` allows, with
no further hypothesis: `TreeStaysSound` (`TreeSound`), `BlocksFreedOnce`
(`FreedOnce`) and `LeakOnlyOverwritten` (`OnlyOverwrittenLeak`).

`sigil_scope_destroy` and `sigil_scope_free` follow links to their end, and the
model says with `Follow` where they get: to the least set that has the first
scope and is closed under the link. What is reached is thus proved by
exhibiting a closed set. The invariant adds `PathLinked` (the tokens in force are
a chain of open children), `LostApart` (an orphan that was pushed out of the
tree is not reached from the root, so no destroy finds it a second time) and
`BlocksOwned` (every live block is registered with one live scope). Which
tokens a destroy reaches depends on their position; those lemmas argue from
the first position that would be wrong (`LeastPosition`), since the library's
induction rules cannot be used here.

### `LeafProofs`

For bodies of any length, any set of locals, any statements of the form
`IsStatement` requires, and any sizes and offsets (`LeafAssumption`), with no
further hypothesis: `BoundsHold` (`AccessesInBounds`), `NamesKeepMeaning`
(`NamesDenoteLatest`) and `TasksKeepBlocks` (`BorrowsHold`). `IsStatement` is the
grammar of statements: which operands each has, that a declared size is a
natural number, and that `ALLOC`, `WAIT` and the like name locals.

- `Static`: parameters keep their bindings, a mutable slot holds a number and
  belongs to a reassigned name, and every handle denotes an allocated block.
- `Unshadowed` and `Latest`: without the uses that `NamesDenoteLatest` excepts,
  the binding of a name, or its slot, is the value last assigned, and the
  bindings saved by an open SCOPE are those its END_SCOPE may restore.
- `OneName`: without copies, two names do not denote one block. This is what
  makes an analysis by names say something about blocks.
- `Sized`: analysis, code generator and memory agree on the size of the block a
  name denotes, and a name counts as stored to only if its block was.
- `Borrowed`: every block a running task has is a parameter's, or is lent by a
  name (`Lent`) that has not been freed, through a spawn handle that still
  selects the task.

Each of the last four is claimed only of bodies without certain loose uses
(`Clean`), and each property's list is what its part of the invariant needs.

### `BuildProofs`

For every project (behaviors with their requirements, patterns, ENTRY, library),
every number of builds and edits, crashes and edits during a build included
(`BuildAssumption`: the sorts of files are disjoint, files have finitely many
requirements, the first texts are texts): `LinkedCodeAgrees` (`CallsAgree`),
`PinsAreKept` (`PinsHold`) and `OrderRespectsRequires` (`DependenciesFirst`).

- `Loading`, with `Covered`: each requirement of a file on the loader's stack is
  in the order, waits in its frame, or is the file of the frame above. `Ordered`
  follows when a frame is popped.
- `Checked`, `Listed`: what was validated stays valid because the process works
  on what it parsed, and the files to compile with those done are all files.
- `CacheSound`, `ProcCacheSound`: an object at the path of a manifest entry was
  generated for the signatures whose hashes are in the entry (`Witnesses`). The
  manifest on disk is excepted for the objects that the process has overwritten
  since, the one in memory is not: that is the difference a crash makes.
- `ObjsSound`: an object about to be linked was generated for the signatures the
  process knows (`MadeFor`), whether it was compiled now or found in the cache.

The exceptions `overwritten` and `raced` are those of the properties.

### `CacheProofs`

Over the same assumption, `NothingIsCompiledTwice` (`UnchangedIsCached`), for
behaviors and patterns. The property
compares two builds, so the invariant has to say that they load the same
files. `Needed` is the least set of behaviors that has what ENTRY and the
patterns call and is closed under requirements. `Least` says that the loader
loads nothing outside any such closed set, `Complete` that all of it is
loaded or still will be; together the loaded behaviors are `Needed`. `Entered`
says that a file dealt with is in the manifest as it was parsed, and `Fresh` that
while nothing has changed since a manifest was saved, every file needed is up
to date in it. `Stable`: the registry does not change under a build.

### `GraphProofs`

For all contracts, names and exports, and graphs of any size
(`GraphAssumption`, `InputAssumption`): `EdgesStaySound` (`EdgesSound`),
`CyclesFoundExactly` (`OrderExact`), `PurityExact` (`PurityThroughLocals`) and
`GapsFoundExactly` (`GapsAgree`).

- `SortSound`: an in-degree is the number of references to nodes that are not
  yet in the order, with repeated requirements counted as often as they occur;
  queue and order have no duplicates and are disjoint.
- `WalkSound`: the purity check lists only names the node reaches, and as long
  as it has found nothing impure it has listed all that the node and the names
  visited require. When the list is empty, the names visited are closed.
- Cycles: a non-empty set of nodes each of which refers to a node of the set has
  a cycle: the node of it that reaches the fewest names reaches itself
  (`CycleForward`). So has a set each node of which is referred to from the set:
  take the one that reaches the most (`CycleBackward`). This replaces an
  induction over paths. The nodes never emitted, and those left over by the
  sort, are such sets.

### `FrontProofs`

For files of any length, references in any number and hashes of any length
(`FrontEndAssumption`: a line of references is not empty and a reference has at
most one hash, of the digits that a hash has): `ParserInStep` (`InStep`),
`RejectedForAReason` (`RejectedExactly`) and `ContractsKept` (`ContractKept`). All
three are about files in whose descriptions no line begins with a section word,
and so is the invariant.

- `Following`: while a line is being read, the parser has not arrived yet, and
  its stack differs from the author's. `Fits` says that the line leads from the
  one to the other: at a section every open-ended construct returns, at END the
  scopes left open do, at the end of the file everything but a behavior.
- `Typed`, with `Shaped`: both stacks are ones that the grammar allows (`Under`).
  `Ranked` gives the section that the author is in; the ones that may follow are
  words at which the function on top returns (`SectionEnds`).
- `Lexing`, `Nested`: what the lexer takes the line for, and that an indented
  description is one in a pattern, where every END has something around it.
- `Slipping`: a slip for which the file will be rejected is about the line being
  read, so an accepted file has none.
- `Agreeing`: what will have been parsed when the line is read. After a slip
  something of the contract is missing, which is more than that the two differ,
  and stays true whatever is written next.

The lemmas `HexStringKept` and `RefsKept` say what `expect_hex_string` and
`parse_behavior_refs` do to any hash and any list of references.

### Only model-checked

- Liveness: `CloseReleases`, `QueuedTasksRun`, `ShutdownWakesSleepers`; and
  `ParserGoesOn`, which speaks of ENABLED. The prover handles neither fairness nor
  ENABLED.
- `Ownership`: its verdict quantifies over all paths of a graph, and
  `AcceptedIsSafe` needs an induction over the path that a run has taken.
- `Syntax` reads a tree of any depth back from tokens; `RoundTrip` is an induction
  over that tree.
- `BuildProgresses` of `Build` adds up the lengths of a stack: its measure is a
  fold over data, which the prover cannot unfold.
- `Composition` folds over the arguments of a CALL and over the outputs bound by
  it, with the same obstacle.

## Not modelled

- Runtime: element sizes and the copying of bytes; results of tasks (generated
  code passes no result buffer); the channel table and `sigil_channel_destroy`;
  initialising the runtime a second time; out-of-memory in the scope allocator,
  which aborts; the wrappers of `platform`; native I/O.
- Analysis and code generation: the guarantees clause (`validate_guarantees`),
  parameter sizes, types of CALL arguments, the width operand of arithmetic,
  channel element types, a `JUMP` into a `SCOPE` from outside, branches together
  with re-bound names, the LLVM instructions of arithmetic and the layout of
  parameters. `update_hash` of the graph and the generic data-flow framework of
  `cfg.rs` have no caller.
- Build: search paths and the search by content, duplicate names, native
  behaviors (which have no object), `--platform`, target set-up, hash
  collisions, two compilers running at once, the catalog file.
- Front end: LIBRARY files, characters within a token, source positions.
- Diagnostics are formatting; the standard library is written in the language.

## Plan

1. Proofs: `WiresOnly` and `FieldsDenoteTheirCall` of `Composition`, with its folds
   stated as functions.
2. The channel table, and two compilers that share a cache directory.
3. `LeafBody` with the branches of `Ownership`: re-bound names on different
   paths.
