# BEX: a TLA+ model of the BAML runtime's concurrency

BAML programs run on BEX, the engine under `src/baml_language/crates/`: a
bytecode VM, a heap with a copying collector, and an engine that runs many VM
tasks on tokio, lets them spawn, await and cancel each other, and stops them all
for garbage collection. This directory models the parts of BEX in which several
tasks, or the engine and its host, meet. The rest of the repository (compiler,
language server, formatter, output parser, client generators, the previous
runtime under `src/engine/`) is sequential translation or I/O and is listed as
not modelled.

Paths below are relative to `src/baml_language/crates/`.

## 1. Inventory

| Component | State | Operations | Meets others through |
|---|---|---|---|
| Future objects (`bex_vm_types/src/types.rs`) | state tag, wake signal `ready`, cancel token | `settle_*` (a CAS from Pending), `mark_error_pending`, `into_error`, `read` | every VM and the engine, without a lock |
| FutureManager (`bex_engine/src/future.rs`) | `next_future_id`, `active_futures`, `deferred_errors` | `new_future`, `fulfill_future`, `defer_error`, `take_deferred_error`, `cancel_future`, `internal_error_future`, `future_ready` | one async mutex for the whole engine |
| BexThread (`bex_engine/src/thread.rs`) | queue of children's errors, parent's or root's queue, cancel token | notify parent, consume one entry, drain | queues shared with children |
| Engine event loop (`bex_engine/src/lib.rs`) | position of each task in `run_thread_event_loop` | Complete, SysOp, Spawn, Await, AwaitAny, EarlyYield, error routes | all of the above, heap permits |
| TaskGroup (`bex_vm_types/src/task_group.rs`) | limit, active count, waiter queue, members | `register`, `acquire`, `set_limit`, `cancel`, release | one mutex per group; oneshot channel per waiter |
| Heap permits (`bex_heap/src/heap_guard.rs`, early-yield flag in `bex_vm_types/src/lib.rs`) | tokio semaphore, holders list, `checking_gc`, `park_requested` | `new_permit`, `acquire`, `release`, `renew`, `request_park`, safepoints | semaphore queue, holders mutex, flags |
| Generational collector (`bex_heap/src/gc.rs`, `card_table.rs`, `heap.rs`) | spaces, card table, handles | minor and full collection, write barrier | stops the world through the permits |
| Allocator (`bex_heap/src/tlab.rs`, `chunked_vec.rs`) | TLABs, shared cursor | `alloc`, `refill`, `invalidate` | shared cursor |
| Object locks (`bex_vm_types/src/lazy_biased_mutex.rs`) | a spin lock per container | lock, unlock | VMs sharing a container |
| Active calls (`bex_engine/src/lib.rs`) | map of call ids | register, cancel, guard drop | host threads |
| Host values (`bex_resource_types/src/host_value.rs`) | interner of weak stubs, queue of releases | intern, clone, drop, drain | every thread that drops a value; the bridge's registry in the host |
| Events (`bex_events/`) | tracked spans with reference counts | track, emit, untrack, query | process-wide mutex |
| Host handles (`bridge_ctypes/src/handle_table.rs`) | key to entry | insert, clone, resolve, release, drain | host threads |
| Host dispatch (`sys_native/src/host_dispatch.rs`, `host_impls.rs`) | call ids, table of calls in flight | insert, take, complete, guard drop | host threads, cancelled sys-op futures |
| LLM orchestration (`sys_llm/`) | round-robin cursors, stream accumulators | retry, fallback, round robin | none while a call runs |
| VM, compiler, tools | - | sequential | - |

What is hard to test here, and what makes each component correct:

* **Futures.** A producer's settle races `f.cancel()` from VMs that take no
  lock, and awaiters that have read Pending a moment ago. Correct means: one
  settlement; wake signal, heap state, parked error and registry entry agree;
  nobody waits for what has happened already.
* **Errors of children.** A failing task parks its error, cancels its
  descendants and queues itself at its parent in three separate steps. Correct
  means: the error reaches a parent that still runs, once; all descendants are
  cancelled, including those being spawned meanwhile.
* **Cancellation.** Any wait must end when the task's token fires.
* **TaskGroup.** Grants race cancellations and limit changes. Correct means: no
  slot leaks or is counted twice, none idles, FIFO, the limit is respected.
* **Heap permits.** Objects move under a collector. Correct means: no task runs
  meanwhile, no live task is overlooked, no deadlock between permits and the
  holders mutex, and collections that were asked for take place.
* **Collector.** The VM's instructions disagree on the order of a store and its
  write barrier, and handles go while a collection runs. Correct means: nothing
  that can be reached is lost, and nobody can tell that objects moved.
* **Allocator.** Buffers are reserved in one order and the space grows in
  another. Correct means: buffers are disjoint and in bounds, and what a holder
  keeps over a collection is void.
* **Host values.** Drops, decodes and drains of one key interleave on several
  threads. Correct means: one live stub per key, the host's entry outlives it
  unless the key was sent again too late, and it is released once it is gone.
* **Host calls.** Answers race cancellations, and 32-bit ids wrap around.
  Correct means: a waiting call is answered, with its own answer, a cancelled
  one leaves nothing behind, and no cancellation is lost.

`PROJECT.json` lists the hazards line by line.

## 2. Modules

| Module | Models | Lines it follows |
|---|---|---|
| `FutureContract` | what a future promises: issued once, settled once, its error handed over at most once | abstract |
| `Futures` | one engine call: root, spawned tasks, FutureManager, tokens, error queues | `future.rs`, `thread.rs`, the event loop, `types.rs` Future, VM Await/AwaitAny/cancel |
| `MCFutures` | who may hold whose future, for TLC | - |
| `Futures_proofs` | the registry's inductive invariant, and on top of it cascades and errors: seven theorems | - |
| `TaskGroup` | admission state, tickets and permits of one group | `task_group.rs` |
| `HeapPermits` | permits, holders list, safepoints, `collect_garbage` up to the moving of objects | `heap_guard.rs`, engine safepoints, `EarlyYieldCheck` |
| `TaskGroup_proofs` | its inductive invariant, six theorems | - |
| `HeapPermits_proofs` | the inductive invariant of the permits, six theorems | - |
| `HeapContract` | what the heap promises: a graph of objects that only their owners change | abstract |
| `GenGC` | minor and major collections, card table, write barrier, handles, and tasks that load, store, hand objects over and end | `gc.rs`, `card_table.rs`, `heap.rs`, stores of `vm.rs` |
| `MCGenGC` | a heap of four addresses on two cards, for TLC | - |
| `GenGC_proofs` | the heap's inductive invariant, four theorems | - |
| `Heap_proofs` | on top of it, that `GenGC` implements `HeapContract` | - |
| `SharedHeap` | `HeapPermits` and `GenGC` composed: tasks that work on the heap under their permits, collections that read the roots of the listed cells | the engine's event loop, `collect_garbage`, `HeapGuard` |
| `MCSharedHeap` | a heap with one card, symmetry, for TLC | - |
| `SharedHeap_proofs` | the joint invariant of permits and heap, three theorems | - |
| `ChunkedVec` | growth of the storage of a space | `chunked_vec.rs` |
| `SlotContract` | what allocation promises: a slot of one's own until the next collection | abstract |
| `Tlab` | allocation buffers over `ChunkedVec`, and what a collection resets | `tlab.rs`, `alloc_tlab_chunk` of `heap.rs` |
| `Tlab_proofs` | intervals of buffers, six theorems, the refinement among them | - |
| `HostValues` | stubs of host objects, interner, releases and drains | `bex_resource_types/src/host_value.rs`, decoding and encoding of keys |
| `HostCalls` | root calls with their cancellation, host calls with their ids and table | `ActiveCallGuard`, `host_dispatch.rs`, `host_impls.rs` |
| `HostBridge` | `HostValues` and `HostCalls` composed, as a bridge uses them | `bridge_cffi/src/ffi/host_value.rs`, the Python bridge |
| `MCHostBridge` | symmetry, for TLC | - |
| `HostBridge_proofs` | the invariants of both and of the composition, nine theorems | - |

`Futures` implements `FutureContract` (`KeepsContract`, an `INSTANCE` with the
outcome read off the heap state); `GenGC` implements `HeapContract`
(`HeapAsPromised`) and `Tlab` implements `SlotContract`
(`AllocatesAsPromised`) in the same way. The detailed modules meet at narrow
places, where each replaces the others by what they may do at worst: in
`Futures` a spawn into a group is `queued` until it is admitted or cancelled,
at any time or never; in `HeapPermits` an awaited event (`Event`) comes at any
time or never, and a task ends whenever it likes; in `Tlab` a collection starts
when every task is parked and nobody resumes before it ends; `GenGC` takes from
`Tlab` that a fresh object lies where no other does.

`GenGC` alone takes two rules for granted: collections start with every task
parked and none resumes before they end, and the roots of all tasks are read.
`SharedHeap` derives them. It has no guard of its own that keeps tasks and
collections apart, only those of `HeapPermits`, and its collections read and
forward what the holders list leads them to. `PermitsProtectHeap` says that it
implements `GenGC` (an `INSTANCE` whose `pc` is `HeapPc`: a task without a permit
is parked), and by its definition it is a behaviour of `HeapPermits` too. So
everything shown of either module holds of the two together.

### Futures

Task 0 is the root and task `f > 0` is the body that settles future `f`, so ids
follow the order of spawns as `next_future_id` does. A task's `pc` names where it
stands: `vm` (running BAML code), `exec`/`execAny` (at the Await instruction),
`check`/`checkAny` (the engine's arm, before its cancellation check),
`parked`/`parkedAny` (at the select), `ready`/`readyAny` (at the select, with a
waiter that found its future's entry dropped), `resumed`, `draining`, `sysop`, `queued` (waiting for a
group slot), `firing` (inside `f.cancel()`, after its CAS), `cancelling`,
`erring`, `cascade`, `internal`, `notify` (the settle routes; in `cascade` and
`internal` the future has failed and the task's token is about to fire) and `done` or `aborted`.

* Each critical section of the FutureManager's mutex is one operator
  (`FulfillFuture`, `DeferError`, `TakeDeferred`, ...). They contain no await.
  A settle inside one is a CAS, which `f.cancel()` may have won; `SettleTo`
  has both outcomes. CAS and wake are one step, except in `f.cancel()`, which
  holds no lock: there the wake (`FireCancel`) is a step of its own.
* `anc[t]` is the set of tokens whose firing cancels `t`: tokio's
  `child_token` tree, with a fresh tree for a detached spawn. A fired ancestor
  is visible to all descendants at once.
* `Holds` says which task may come to hold which future. BAML code passes
  futures through captured variables and containers; the runs let everybody
  hold everything, a task its own future included.
* BAML code is a program that chooses freely among the operations in `Ops`,
  `MaxOps` times per task. A synchronous system operation is part of a VM step.
* An error queue is a set: a future is pushed once, and `Drain` may pop entries
  in any order, so the properties do not depend on the order of failures.
* The model is of one call. The FutureManager is shared by all calls of an
  engine, but a call's entries concern only its own tasks, except for ids.

### TaskGroup

One step is one critical section of the group's mutex or one look of a ticket's
biased select at one of the two things it waits for. A poll is two looks, at the
token (`PollToken`, `AcquireCancelled`) and then, `polled`, at the channel
(`AcquireGranted`, `PollPending`); token and channel share no lock, and both may
change in between. `promote` is modelled whole: it pops waiters while there is
capacity and removes those whose receiver is gone. `rx` is the ticket's oneshot
channel: a grant may be `sent` and never received, which is what
`cancel_parked` looks for. `group.cancel` collects tokens under the lock
(`Cancel`) and fires them after it (`Fire`), while others move on.

### HeapPermits

The tokio semaphore is external; the model uses what its documentation
promises: waiters are served in order and a waiter at the head keeps what is
returned until its request is complete. A permit is counted, an actor's `pc`
says whether it owns one (`Active`) or all (`Exclusive`). `holders` is the list
of weak references, which only `request_park` prunes. `scanned` records which
tasks' roots the collection in progress has read (their addresses are in
`SharedHeap`). `child[v]` is the task itself when `v` does not spawn. The mutex of a
TaskGroup or FutureManager is not modelled.
`should_collect` is a free choice. Dropping the guard returns the mutex and the
permits in one step. A slot of `Vm` is reused when its task ends.

### GenGC

An address is a number; `space` says which of Gen0, Gen1 and Gen2 it belongs
to, `obj` what lies there (an identity that copying preserves) and `ref` the
addresses that object refers to. Spaces that are swapped or cleared become
`free` addresses; a copy takes any of them, since nothing but the card
(`CardOf`) distinguishes one from another.

* A store is two steps, in the order the instruction has: `StoreField` and its
  like mark and then write (`BarrierThenWrite`, `Write`), `StoreArrayElement`
  and `StoreMapElement` write and then mark (`WriteThenBarrier`, `Barrier`),
  mutating builtins mark whatever they are going to write (`BuiltinMut`).
  Nobody parks in between, for the VM yields between instructions only.
* A collection is five steps because hosts release handles meanwhile:
  `CollectRoots`, `Minor` or `Major`, `UpdateHandles`, `ForwardRoots`. `Minor`
  traces young objects from the roots and from the dirty cards, moves Gen0 to
  Gen1 and Gen1 to Gen2, fixes references in copies and on dirty cards only,
  marks the cards of what it promoted and cleans none, as the code does.
  `Trace` is the least closed set, not a worklist.
* An object's fields are a set: that two slots hold the same reference shows
  only in that a store may leave the old one in place.
* `Hand` and `Finish` are what tasks do with each other's roots: a spawn puts the
  closure on the stack of the child's VM, a failed task puts its future into its
  parent's queue, and the roots of a task that ends go.
* `Shared` are the FutureManager's registry and the engine's globals: roots that
  run nothing. A task adds to them (`Hand`), reads them (`Fetch`) and takes an
  entry out (`Forget`). An entry that is left behind only keeps its object alive.

### SharedHeap

`busy` says whether a VM is in the middle of a store; it yields only when it is
not (`Yield`), which is the one thing about the interpreter that the composition
relies on. `SpawnTask` lists a child's cell with the closure already on its stack,
`Report` gives a failed task's future to a task that is alive, parked or not,
`EndTask` takes a task's roots away with its cell. `Listed` are the cells a
collection finds alive in the holders list: `ReadRoots` and `Forward` look at
those only, so that an overlooked task would keep stale pointers. Handles are
released at any time, also while a collection runs.

The `Shared` cells are in the list for as long as the engine lives. The globals'
permit is never acquired and the registry is worked on under the permit of the
task that calls (`FutureManager::acquire`), so a task touches them in `Report` only
while it has one.

### ChunkedVec and Tlab

`ResizeBegin` is `resize_with` up to its lock and `ResizeEnd` what it does
under it, with the length it read before. `Tlab` reserves from the cursor
(`Reserve`, a `fetch_add`), takes `growth_lock` and compares lengths
(`LockGrowth`), grows, and hands the buffer out with its canary. A collection
empties the space first (`ClearGen0`) and invalidates the buffers of registered
holders afterwards (`Invalidate`): a holder that is created (`Create`) but not
registered yet must have no buffer. Freed chunks are gone: an access beyond
`len` is what `BuffersInBounds` excludes.

### HostValues, HostCalls and HostBridge

A stub is one allocation of `HostValueArc`; `clones` counts its strong
references. The step of a thread is what it does between two points where
others can run: a drop takes the count to zero, then locks the interner, then
queues the key; a drain takes the queue, locks, filters key by key, unlocks,
releases key by key. `Weak::upgrade` under the lock makes a clone (`temp`) for
the time of the question. The host's registry and its threads are external:
they may register a key, roll it back before it was sent, and send it once it
is registered or, after it was handed back to them, at any time: neither the
decoder nor `intern` asks whether the registry still has it. `reborn` are the
keys that came too late, after a drain had condemned them or after their
release; such a stub is live and its object is gone.

`HostCalls` has both directions. `active` is the map of `ActiveCallGuard`,
`reserved` being an entry that a cancellation made before its call; `fired`
are the calls whose token has fired. A host call mints an id (`Minted`,
`Advance`: 32-bit, 0 skipped), puts its handle in `table` and starts a task in
the host, which answers at any time or never, also when the id has been evicted
or belongs to another call by now. `wrapped` says that an id was minted a second
time. Dropping the operation's future takes out
whatever is under its id.

`HostBridge` composes them: dispatch resolves the callee's key in the registry
while a closure keeps a stub alive, and an answer decodes its payload, with the
keys in it, before it looks for somebody who waits. `FindsCallable` is about
both halves.

## 3. Runs

| Run | Bounds | Shows |
|---|---|---|
| `Futures_core` | root + 2 spawns, 2 operations each | all safety invariants of `Futures` and the refinement, with detach, groups, `f.cancel()`, Await, AwaitAny, uncaught throws, engine errors and host cancellation |
| `Futures_live` | root + 2 spawns, fair | `CancelledTaskEnds`; `EveryFutureSettles`: a future settles unless its task is blocked by an unanswered operation or a cycle; with linked CancelTokens and system operations |
| `TaskGroup_all` | 3 members, limits 0..2, 2 changes, fair | slot accounting, work conservation, FIFO, limit; waiters that are cancelled before a poll leave, others are served |
| `HeapPermits_all` | 3 task slots, 2 host collectors, 3 permits, fair | exclusion, completeness of the roots, one automatic collection, no circular wait (deadlock is checked); as long as no host collects, requests to yield stand, collections start although VMs may run for ever, and tasks get their permits |
| `GenGC_tasks` | 2 tasks, 1 handle, 4 addresses on 2 cards, 2 objects with up to 2 references | no dangling reference, cards cover, handles are forwarded, `HeapContract` is implemented; no deadlock |
| `SharedHeap_all` | 2 task slots, 1 table of the engine, 1 host collector, 2 permits, 1 handle, 1 object with 1 reference, 2 addresses on one card | the permits give the heap what `GenGC` takes for granted: every step is one of `GenGC` |
| `Tlab_all` | 3 holders, buffers of 2 and a canary, chunks of 2, cursor up to 9 | range, bounds, disjointness, canaries, `SlotContract` is implemented |
| `HostBridge_all` | 1 key, 2 stubs, 2 clones of each, 2 threads, 2 calls, ids 1 to 3, 2 tasks in the host | the invariants of stubs, of calls and of dispatch by key |
| `Futures_stranded`, `Futures_preempted`, `HeapPermits_forced`, `HostValues_stuck` | small | violated: see Findings |

**Why the bounds are enough.** Every rule of the engine relates at most a task,
its spawner and one task that interferes (a canceller or a second awaiter). Two
spawns give siblings, a grandchild, a cycle of two awaits, and both orders of a
failure and a cancellation; three give two failures below one task. `MaxOps = 2`
lets a task spawn and then await, or cancel and then await. Three members of a
group give a running one and two that compete in the queue; with limit 0 raised
to 2 one `promote` grants two slots. For the permits, three tasks and a
collector give a spawner, its child, a task in the queue and somebody who
collects, and two hosts get in each other's way; the number of permits only has to be at least the number of tasks, as
`MAX_PERMITS` is. In `SharedHeap` one object that moves between two addresses is
enough to tell who was overlooked; what the heap itself does with more is
`GenGC_tasks`' question.

A heap of two objects has an old one that refers to a young one, a cycle, and
garbage; four addresses let both move at once, and two cards separate an object
that shares a dirty card from one that does not. Free addresses are taken in
order (`InOrder`), which only restricts which card a copy gets; both occur.
`MaxFields` bounds the references of an object. In `Tlab`, `MaxNext` = 9 is
three buffers with their canaries, one per holder, so that three refills
overlap in any order; chunks of two make a buffer straddle two chunks. A key
needs two stubs, one that a thread is dropping and one that is alive or being
dropped by the other thread (a third is never taken: whoever would decode it is
busy with a drop); `MaxClones` and `MaxQueue` bound the counts of clones and of
queued keys (no key is decoded while the queue is full). Three ids allow three
host calls before one is minted twice, the fourth: so the answer to a cancelled
call may come while another waits, with an id of its own or, later, with the
same one. No host object is called while the host is busy with `MaxTasks` calls.
What a run leaves out another
one or the proofs cover: `group`, `internal` and `any` are in the core run,
`link` and `sysop` in the live one, and the theorems hold for all of them
together.

`CHECK_DEADLOCK FALSE` is said where the system may stop: a call ends, all
members of a group have come and gone, the cursor is at `MaxNext`, or nothing is
left to drop and answer.

**Fairness.** tokio polls every task that is ready, so each task's own steps are
weakly fair, and so are watchers. A body is assumed not to run for ever between
two yields: in `Futures` through `MaxOps`; in `HeapPermits` no such assumption
is made, but a VM polls the early-yield flag, which the VM loop does at back
edges and calls. Not fair: answers of system operations, group grants (in
`Futures`), events, new calls, host collections, `should_collect`'s choice.
Weak fairness of a semaphore request is enough because the semaphore is FIFO.
Member bodies of a group are assumed to end (`WaiterServed`); with limit 0 a
group is paused and nobody is promised anything.

### Findings

* `Futures_preempted`: `settle_child_errored` wakes the awaiter (in
  `defer_error`) before it queues the future at the parent. An awaiter that
  resumes in between removes an entry that is not there yet, and its drain then
  surfaces the error of the very future it awaits, past any `catch` around the
  await. The comment at `bex_engine/src/lib.rs:3282` says this must not happen.
* `Futures_stranded`: a spawned task that awaits a future with an internal
  error leaves the loop through `?` without settling its own future; those who
  await that one wait for ever.
* `HeapPermits_forced`: a VM that yields early for an explicit
  `collect_garbage` wins the free `checking_gc` guard, is told that no
  collection is due and goes on with its permit, again and again; the explicit
  collection never starts.
* `HostValues_stuck`: `HostValueArc::drop` (`host_value.rs:119`) and `drain`
  (`:244`) ask whether a key is alive by upgrading its `Weak` under the
  `INTERNER` mutex. The upgraded clone is dropped there too. If the other clones
  went meanwhile it is the last one, and its drop locks the mutex its thread
  already holds.

### Observations without a run

* `defer_error` keeps the registry entry of a future that `f.cancel()` has
  settled, for ever; its sibling helpers drop it.
* The error of a detached task that ends after the root stays in
  `deferred_errors` and is neither logged nor dropped.
* `internal_error_future` asserts that its future is Pending, but `f.cancel()`
  may have settled it before the check.
* Two explicit collections share one `park_requested` flag: the first to get
  its permits clears it for both (`RequestStands` is about automatic collections,
  which `checking_gc` keeps apart).
* The watcher of a linked CancelToken outlives a spawn that completed
  (`bex_engine/src/lib.rs:2569` says it never does): nothing fires the child's
  token then. It goes when either token fires.
* A key that the host got back may be sent again when it is too late: after a
  drain has condemned it and before the host is told, or any time after its
  release, since nobody tells the host's program that the key is no longer good.
  `intern` makes a live stub for it all the same, whose object is gone; a call
  of it finds nothing, and when it is dropped a second release is fired. The
  comments at `host_value.rs:78-81` and `value_decode.rs:70-75` describe handing
  a key back and passing it in again as supported, and say that the release
  fires exactly once. `EntryOutlivesStub` and `FindsCallable` except these keys
  (`reborn`).
* The comment in `TaskGroupTicket::acquire` (`task_group.rs:96-100`) says that a
  cancelled member must not run "even if a slot was granted in the same window".
  If the token fires after a poll has looked at it and the grant comes before
  the same poll looks at the channel, the body starts with a token that has
  fired: nothing looks again (`bex_engine/src/lib.rs:2643-2662`), and the body
  ends at its first await. `CancelledWaiterLeaves` is about waiters that are
  cancelled before a poll.
* Cancelling a call that has ended reserves its id for ever (`lib.rs:222`); ids
  come from `CallId::next`, so no later call meets it. The doc of
  `cancel_function_call` in `bridge_cffi/src/lib.rs:283` promises an error code
  for ids that are unknown or completed, which such a call does not get.
* `call_callable` drops the token that `register` returns (`lib.rs:1763`) and
  keeps its own, so that a cancellation that came before it would be lost. Its
  callers pass fresh ids (`lib.rs:3643`), for which there is none.
* The comment at `bex_heap/src/heap.rs:775` says that `growth_lock` is no longer
  needed for memory safety. Without it `RangeIncreases` fails (that is the
  mutant `GrowUnlocked`): `resize_with` sets the length to what it read before
  its own lock, so the smaller of two concurrent requests may come last and
  make slots of a buffer that was handed out invalid.
* Array and map stores call the write barrier after the write. That is sound
  because the VM does not yield within an instruction.
* A parent that returns normally, or whose last yields are system operations,
  never drains its queue; `NoErrorLost` is stated for owners that still run and
  await.

## 4. Proofs

Each theorem holds for every value of the constants, under the assumptions of
the module it is about and no others: `NAssumption` (`N` is a natural number),
`OpsAssumption` and `HoldsAssumption` of `Futures`, `PermitsAssumption` of
`HeapPermits` (tasks and hosts are disjoint and there are enough permits for
all tasks, as `MAX_PERMITS` is meant to be), `MAssumption`
of `TaskGroup` (limits are natural numbers), `HeapAssumption` of `GenGC` (every address
has a card), `ChunkAssumption` and `TlabAssumption` (sizes are positive),
`StubAssumption`, `KeyAssumption` and `IdsAssumption` (there is an id besides
0).

| Theorem | Module | Statement |
|---|---|---|
| `TypeCorrect` | `Futures_proofs` | `Spec => []TypeOK` |
| `StashConsistent` | `Futures_proofs` | `Spec => []StashMatchesHeap` |
| `Rooted` | `Futures_proofs` | `Spec => []UnsettledIsRooted` |
| `WakeConsistent` | `Futures_proofs` | `Spec => []WakeMatchesHeap` |
| `Refinement` | `Futures_proofs` | `Spec => KeepsContract` |
| `FailuresCascade` | `Futures_proofs` | `Spec => []FailureCascades` |
| `ErrorsDelivered` | `Futures_proofs` | `Spec => []NoErrorLost` |
| `PermitsConserved` | `HeapPermits_proofs` | `Spec => []TypeOK` |
| `StopsTheWorld` | `HeapPermits_proofs` | `Spec => []CollectsAlone` |
| `SeesAllRoots` | `HeapPermits_proofs` | `Spec => []RootsComplete` |
| `OneAtATime` | `HeapPermits_proofs` | `Spec => []OneAutomaticCollection` |
| `WaitIsAnnounced` | `HeapPermits_proofs` | `Spec => RequestStands` |
| `NoDeadlock` | `HeapPermits_proofs` | `Spec => []NoWaitCycle` |
| `TypeCorrect`, `SlotsAddUp`, `WorkConserving`, `QueueExact` | `TaskGroup_proofs` | `TypeOK`, `SlotsAccounted`, `NoIdleSlot`, `QueueIsParked` always hold |
| `FirstComeFirstServed`, `LimitKept` | `TaskGroup_proofs` | `Spec => AdmitsInOrder`, `Spec => AdmitsWithinLimit` |
| `NothingDangles`, `CardsCover`, `HandlesAreForwarded` | `GenGC_proofs` | `NoDangling`, `CardsCoverYoung`, `HandlesForwarded` always hold |
| `Refinement` | `Heap_proofs` | `Spec => HeapAsPromised` |
| `HeapIsProtected` | `SharedHeap_proofs` | `SharedSpec => PermitsProtectHeap` |
| `NothingDanglesUnderPermits`, `PermitsKeepHeapContract` | `SharedHeap_proofs` | `SharedSpec => []H!NoDangling`, `SharedSpec => H!HeapAsPromised` |
| `RangeGrows`, `InBounds`, `Disjoint`, `CanariesStay` | `Tlab_proofs` | `RangeIncreases`, `BuffersInBounds`, `BuffersDisjoint`, `CanariesIntact` always hold |
| `Refinement` | `Tlab_proofs` | `Spec => AllocatesAsPromised` |
| `OneStub`, `ReleaseKept`, `EntryStays` | `HostBridge_proofs` | `OneLiveStub`, `NoReleaseLost`, `EntryOutlivesStub` always hold |
| `CancelSeen`, `TableExact`, `Answerable`, `OwnAnswer` | `HostBridge_proofs` | `CancelIsSeen`, `NoEntryLeaks`, `NobodyStranded`, `AnswersItsOwn` always hold |
| `Callable` | `HostBridge_proofs` | `Spec => []FindsCallable` |

**The registry.** None of the three consistency properties is inductive alone.
The invariant is `IInv == TypeOK /\ Registry`, where `Registry` conjoins them
with what they lean on:

* `BodyOwnsFuture`: a future that is Ready, failed or an internal error has a
  body that has ended or is on its way through `settle_child_errored`. Without
  it a body could settle a future a second time, for instance one whose error
  is parked.
* `OneCanceller`: at most one task is between the CAS and the wake of
  `f.cancel()` for the same future, and it cancels what is Cancelled. Without
  it one canceller's wake could count for another's.
* `RootSettlesNothing`: the root never reaches the settle routes of a child.

Each operation on the manager has a lemma (what `SettleTo`, `DeferError`,
`TakeDeferred` ... do to `Registry`), the actions cite those, and one lemma
per action assembles the step. `Refinement` shows that every step is an
`Issue`, a `Settle`, a `Claim` or leaves `Outcome` and `Claimed` alone.

**Cascades.** The invariant adds `TokenTree`: a task is below itself, whatever
is above a task exists already, and so is whatever is above that. A spawn adds
one leaf to the tree (`KeepsTree`); every other step only fires tokens
(`NextTokensStep`). A step that fails a future fires its token or leaves a
body or a canceller behind that is about to (`FailsLoudly`).

**Errors.** `Delivered(f, h)` says where the error of `f` is on its way to `h`,
or that `h` has gone past the point of taking it. It is inductive for every
parked error together with `AwaitsOne`: outside `AwaitAny` a task waits for
one future, so the entry that `Consume` removes is the one whose error the
task is about to throw.

**Permits.** `PermitsAddUp` counts: without a collector the permits left are
`MaxPermits` minus the running tasks; with one, nobody runs, no permit is left
and it is the only one. Granting all permits then needs an empty set of running
tasks, which is `CollectsAlone`. `LockOwner` ties the holders mutex to the
collector's position, `TasksListed` and `ChildrenUnborn` keep the holders list
complete while tasks come and go, and `GuardHeld` says that whoever resets
`checking_gc` has won it.

A collector that waits has its request flagged as long as no other collector
lowers the flag; while no host collects, whoever lowers it holds `checking_gc` and
is the only one (`Requested`).

**No deadlock.** The comments in `request_park` and at the Spawn arm say which
deadlock their order of steps avoids: permits first and the holders mutex second,
and no second permit while one is held. `NoWaitCycle` says what that comes to,
for any number of tasks and collectors. `QueueExact` adds to the invariant that
whoever waits is in the queue, once. If its head is not served permits are
missing, and by `PermitsAddUp` somebody holds them; by `LockOwner` the mutex is
taken only by the collector that holds all permits, so nobody who has permits
waits for it. That the holder then moves on is fairness, and TLC's part.

**Permits and heap.** The joint invariant is that of the permits, that of the heap
(`GenGC`'s, read through `HeapPc`) and three links between them:

* `StoresHoldPermits`: a VM in the middle of a store runs. Without it a task could
  be parked there, and `GenGC` has no such state.
* `UnbornHaveNoRoots`: a task that is not registered has nothing on its stack.
  With `TasksListed` it makes the cells that a collection finds alive those of all
  tasks that have roots (`ListedHaveAllRoots`).
* `CollectorAtWork`: between reading and forwarding some collector is at work. With
  `PermitsAddUp` no task has a permit then, so none resumes (`WorldStopped`).

Each action of `SharedHeap` is shown to be a step of `GenGC` or none of its
business: a permit that is taken or returned is a `Resume` or a `Park`, reading
and forwarding the listed roots are `CollectRoots` and `ForwardRoots` of all. The
theorems of `GenGC_proofs` and `Heap_proofs` are then taken over by `INSTANCE`.

**Groups.** `Tickets` ties the three views of a waiter together: where its body
is, its place in the group and the state of its channel. With it every
admission and every departure changes the active count and the number of slot
holders by the same amount. `NoIdleSlot` holds because each step that frees or
adds capacity promotes under the same lock, until the group is full or the
queue empty. The queue is in order of registration (`Ordered`), hence what is
popped is older than what stays.

**Heap.** `StoreUnderWay` says what a task in the middle of a store relies on:
both objects are on its stack, and the barrier, if it came first, has marked
the card. `Inert` says that the engine's tables store nothing, so that taking an
entry out of one (`Forget`) takes nothing from under a store. `CollectorKnows` says what survives from one step of the collector to
the next: what was in the roots is in the forwarding map, though handles may
have gone since. Minor and major collections are two instances of one lemma
about relocations whose forwarding map is closed under what is fixed up
(`TracedEnough`, `Compacted`).

That collections are unseen (`Heap_proofs`) needs one fact more: an object is at
one address (`Identified`), so that its edges are what that address refers to.
A relocation then is a bijection (`Lands`) from the objects kept and reached to
the addresses in use afterwards, and whatever is read through it is what was
read before; the two forwarding steps change stacks and handles into what they
already meant. The steps of tasks and hosts map to one operation of
`HeapContract` or to none.

**Buffers.** What a holder may still write is an interval, reserved or handed
out; it keeps its interval over parking and loses it with a collection. The
intervals are pairwise apart and below the cursor, those handed out are below
the length, and no object or canary lies in any of them (`Intervals`,
`Contents`). One frame lemma covers the steps that shrink an interval or take
one above the cursor. `Growth` uses the growth lock: who resizes is alone, so
the length that was read is the length.

**Host values and calls.** A stub whose drop has begun stays dead
(`DroppedIsDead`), a key that a drain has condemned stays dead while the lock is
held and until it is decoded again (`CondemnedIsDead`), and at most one thread
has the lock (`OneLock`). For calls, `ActiveMatches` relates the map to where
the call is and `MintedOnce` says that, until an id is minted a second time, those in
use are below the next one and belong to one call each.
`FindsCallable` then follows from `EntryOutlivesStub` at the moment of dispatch. Both
hold for any schedule of keys that are sent again and except those that came too
late, which `reborn` collects at the decode.

Only model-checked: the liveness properties, which the prover does not handle
under fairness. `RequestStands` and the promises of liveness about permits are
conditional on hosts that do not collect (`OnlyAutomatic`); they do not hold
otherwise (see Findings and Observations). Type invariants are
proved, as parts of the inductive invariants, and no run lists them.

## 5. Not modelled

* The payload of a future: `settle_*` writes it before its CAS and rolls the
  write back when it loses. Only `f.cancel()`, which writes none, can win
  against a settle, because the others hold the manager's mutex.
* Telemetry: spans, watch notifications, event sinks.
* Futures that the host drops half way (a dropped `call_function`), which skip
  the statements after an await.
* `CancelToken.any`; its watcher is one more token that fires.
* In the heap: compile-time objects (never moved, no cards, no references to
  runtime objects), the thresholds of `should_collect`, statistics, the heap
  verifier, and `push_with`, which only collections call. The build modelled is
  the release build: debug assertions are stated as properties instead.
* Object locks: spin locks held for one access, and no VM holds two.
* The handle table: one map under one lock whose entries are handed out as
  clones. Events and collectors: telemetry that nothing depends on.
* LLM orchestration: retry, fallback and round robin are BAML functions that run
  inside one task. Building requests and parsing answers is data conversion.
* Of host calls, the other bridges (Go, Node), which follow the same protocol,
  and payloads but for the keys in them.
* Compiler, tools, parser of model output, previous runtime: sequential
  translation or another system.

## 6. Plan

Done: everything listed above. What would add most next, in order:

1. The nursery under the permits: `Tlab`'s two rules about collections from
   `HeapPermits`, as `SharedHeap` does for the heap.
2. What the contracts entail (what is settled stays settled, what can be reached
   stays reachable), and a contract for host calls that `HostCalls` implements.
3. Futures that the host drops half way: the ticket of a spawn, `checking_gc`
   and the operation of a host call are what such a drop can leave behind.
4. `Futures` with several calls in one engine, which share the registry.
5. The event store's tracking and untracking of spans.
