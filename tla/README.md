# pymonque in TLA+

A verification development of [pymonque](../src/README.md), a work queue on MongoDB: tasks that run
at most once, piles of items worked inside `work()` blocks, and schedulers that emit tasks on a
rhythm. What is hard about it lies in two places. Between two database calls any process may die,
stall past its lease, or lose an answer, and nothing is locked. And within a process a stop may
arrive at any line: a signal in the main thread, `TaskStopped` in the thread of a call. Line numbers
below are those of `src/src/pymonque/`.

## Inventory

| Component | State | Operations | What is hard | Module |
|---|---|---|---|---|
| Claims (`claims.py`) | on each document `status`, `claimId`, `leaseUntil` | `claimNext`, `writeClaimed`, `notStarted`, `cancelled`, `endedBefore` | leases lapse while the holder lives; stale clock reads | `Claims` |
| Leases (`claims.py`) | the claims a process holds, one renewer thread per collection | `hold`, `release`, `renew`, `_renewLoop`, `abandonHolds` | the renewer's end meeting a hold; a stop inside `hold()`; renewals in flight | `Leases`, the engines |
| Timed calls (`tasks.py`) | a thread per call, a finished mark under a guard, the abandoned threads | `_callWithin`, `_StoppableCall.stop`, `_watchStopped`, `abandoned` | a stop by thread id racing the end of the call | `Leases`, `Lifecycle` |
| Task engine (`tasks.py`) | the task collection, unique index on `activeKey` | `schedule`, `work` (`_run`, `_record`, `_writeOff`, `_outdate`), `cancel(Many)`, `purge`, `flagIncompatible`, `writeOffStuck` | at most one start per task across crashes, takeovers and cancels; late outcomes | `TaskEngine`, `WorkOnce` |
| Task clients (`tasks.py`, `documents.py`) | a copy read earlier | `schedule(key=)`, `update`, `save` | each is several database calls, with workers in between | `TaskClients` |
| Pile engine (`piles.py`) | the item collection with `attempts` | `add`, `claim`, `work()`, `done`, `fail`, `release`, `confirm`, `renewLease`, `cancel`, `purge` | nested blocks left by exceptions; tries; a holder whose claim is gone | `PileEngine`, `Handouts` |
| Scheduler engine (`schedulers.py`) | the scheduler collection; the beats' tasks in a task engine | `work` (`_emit`), `add`, `ensure`, `update`, `save`, `delete` | two collections and three writes per beat; edits between them | `SchedulerEngine` |
| Worker loop (`claims.py`) | threads, stop flag | `start`, `requestStop`, `stop`, `_loop` | threads that outlive a stop and are revived | `Lifecycle` |
| App lifecycle (`app.py`) | stopping, retired, quit, the heartbeat thread | `run`, `startWorkers`, `requestStop`, `stopWorkers`, `_onAbandoned`, signal handlers | stop, start and retire at once | `Lifecycle` |
| Registry (`versions.py`) | records of live worker processes | `verify`, `register`, `beat`, `deregister`, `forgetGone` | check before register; records that outlive or precede their process | `Fleet`, `Lifecycle` |
| Upgrade (`migrations.py`) | collections renamed, statuses rewritten | `upgradeFrom2` | dying between any two calls; this version writing meanwhile | `Upgrade` |
| Calls, distributions, settings, declarations | none at run time | | pure | |

Components meet in the database alone, but for a few calls within a process: an engine's worker loop
calls its `work()`; `work()` holds its claim in the engine's `Leases`; a timeout drops what the
call's thread holds in every `Leases` (`abandonHolds`), and a watcher that finds the call still
running tells the app, which may retire; a scheduler inserts into its task engine. Pile blocks run
inside tasks. Starting workers verifies the version, cleans up and registers, in this order.

`PROJECT.json` lists the hazards, line by line, with the properties that watch them.

## Modules

`Claims` holds the operators for what one atomic database update does to a document: `Claimed`,
`LetGo`, `Renewed`, `NotStarted`, `Canceled`, `EndedBefore`, and `NextDue`, the documents
`find_one_and_update` may pick. The engine modules extend it.

**`TaskEngine`** is `tasks.py`. `tasks` is the collection; `workers[w]` is where worker `w` stands in
`work()` and what its local variables hold; `renewal[p]` is a renewal between its copy of the claims
held and its write; `up` are the processes alive. Each action is one database call or one clock read
with the Python around it, as nothing else is visible to others: `ReadClock`, `Claim`, `Start`,
`EndCall`, `Record`, and so on. `_writeOff` and `_outdate` go through the same `Record`, as in the
code. `runs` counts the starts of each task's call and exists for the properties alone.
`ClaimUnheard` and `LeaveUnrecorded` are `work()` ending by an exception, with the document claimed.
The driver retries nothing that is not idempotent here; a lost answer is `ClaimUnheard`.

**`WorkOnce`** is what the queue promises: a task is scheduled, taken off the queue once, its one
permit to start spent at most once, and it ends once. `TaskEngine` implements it
(`ImplementsWorkOnce`): `stage` is the status read coarsely, the permit is with the worker between
the claim of a *waiting* task and the start of its call.

**`TaskClients`** extends `TaskEngine` with the calls that reach the collection in several steps:
`schedule(key=)` (insert, find, move up), `update(deadline=)` and `save()` (read, write). It replaces
the engine's one-step `Schedule`; everything else is the engine's. What `schedule()` reads back at
the end changes nothing and is left out.

**`PileEngine`** is `piles.py`. A thread is a stack of blocks and the exception on its way out
through them; user code may end any of the blocks it is in (`w.done()` of an outer block raises
through the inner one), raise, swallow the exception, or be stopped at its task's timeout. `Left`,
`Raised` and `Resumed` are what leaving a `with` statement does to the stack. By hand, an operator
finishes, releases, renews or cancels items by uid.

**`Handouts`** is what a pile promises: an item waits, is handed to a block as often as it has tries,
goes back with its try (a release) or without it (a block passed by the end of another), ends once,
and is deleted only when it has ended. `PileEngine` implements it (`ImplementsHandouts`): `stage` is
the status, in which a running item counts as handed out only if its latest claim reached a block,
and `tries` is the part of `spent` that was not given back. That no more than `MaxAttempts` tries are
handed out is a guard of `HandOut`, so `TriesBounded` needs no run of its own.

**`SchedulerEngine`** is `schedulers.py`: `Claim`, `Emit` (or `SkipBeat`) and `MoveOn` are the three
writes of `work()`, each with a failure and a crash before it, and `Begin…`/`Create`, `Change`,
`Save`, `Delete` the reads and writes of those who edit schedulers. `Declared` is the `$setOnInsert`
by which the first of several processes that declare a scheduler stores it, and the others leave it
as it stands; a new scheduler's first beat is an interval away, or at a deadline given. `queued` is
which beats have their task in the task collection, where `PurgeTask` deletes it once it can have
ended.

**`Leases`** is the threads of one process around one collection's claims: the threads of calls,
which enter and leave nested blocks; the worker that waits for a call and stops it at its timeout
(`DropHolds`, then `RaiseStop`, both under the call's guard); and the renewer. Here an action is
shorter than a critical section: `TaskStopped` arrives before whichever line of Python the thread
runs next, so `hold()` is three steps, with the lock held across them (`LockFree`), and a stop may
come between any two (`StopArrivesHolding`). A `with` statement gives the lock back when it does,
and what was written under it stays. The `finally` of a block may be cut short the same way
(`StopArrivesLeaving`), and code that catches everything may swallow the stop. Thread ids are used
again as soon as their thread is dead, which is what the guard is for. `late` is a history variable:
the claims taken by a call after its holds were dropped and before the stop reached it.

**`Lifecycle`** is one worker process: the main thread in `run()`, or a host's calls of
`startWorkers()` and `stopWorkers()`, step by step; the signal handler, which runs in the main thread
between any two of its steps; worker threads, which look at their engine's stop flag between pieces
of work; the heartbeat; and a watcher for each call that was stopped at its timeout. Work is one step
that takes as long as it likes. `told`, `outlasted` are history variables.

**`Fleet`** is the registry as several processes see each other in it: `verify()`, then
`register()`, beats on time unless the process is cut off, a stop that drains, a check-out that may
fail, and the cleanup that deletes stale records. A process in `Unchecked` may start without
verifying (`enforceVersion=False`), and counts for the others all the same. `raced` and `unseen` are
history variables that name the known windows of the version check. **`Upgrade`** extends it with an
operator who runs `upgradeFrom2`, one action per database call, each of which may be the last, while
processes of this version start, stop, and write to the collections the upgrade renames over.

The `MC…` modules give the constants their values.

### Abstractions

- Time is one clock in ticks: `syncClock` puts every process on the server's. A read of the clock
  that is used across a database call is kept (`at`); one used in the very write it is read for
  (`cancelled`, `purge`, `writeOffStuck`, an item's outcome) is taken with it: a read a moment
  earlier would only find fewer leases lapsed. Renewals keep theirs apart.
- A claimId is a uuid. `TaskEngine` counts them up. `PileEngine`, `SchedulerEngine` and `Leases` take
  the least that no document, thread or renewal still names (`NewClaim`), as a claimId nothing names
  cannot be told from a new one; this keeps the state space small without symmetry on claims.
- A task's uid is never used twice; a deleted document is `purged`, one never stored `absent`.
- Calls, arguments, results, errors and payloads are left out; the function name stays, as versions
  differ in it. `claimedAt` stays where a write restores it (tasks), not where nothing reads it.
- `finishedAt` missing on documents of 2.0 (`endedBefore`'s fallbacks) does not occur.
- `Leases` has no database: whether a renewal's write arrives and what it finds is in the engines.
  The code of a call does nothing but enter and leave blocks, block for ever, or end.
- `Lifecycle` starts one thread per engine and run where the code starts a number, and leaves out the
  backlog monitor, which reads and logs. A beat is one step that succeeds or fails.
- In `Fleet` `register()` and the beat that follows it are one step, and a process that works has
  only its record; what it works on is in the engines. In `Upgrade` one document stands for all of
  its status, as `update_many` treats them alike, and every status 2.0 and this version differ in
  has one. Collections of declared engines are renamed by the same calls as the default ones.

## Runs

| Run | Instance | Shows |
|---|---|---|
| `MCTaskEngine` | 1 task, 2 workers in 2 processes of which one lacks a function; lease 1, clock to 3, faults until then | type invariant, `AtMostOnce`, `OutcomeFitsRuns`, `OneTaskPerKey`, `ClaimStandsWhileRunning`, `EndedIsFrozen`, `LiveClaimIsSafe`, `ImplementsWorkOnce`, `EveryTaskEnds` |
| `MCTaskClients` | 2 tasks, 1 key, 1 worker, a scheduling and an editing client | `OneTaskPerKey`, `SoonerWins` |
| `MCTaskSave` | as above, one client | **violated**: `CopyPutsNothingBack` |
| `MCPileEngine` | 1 thread, 2 items, blocks 2 deep | type invariant, `BlockSettlesItem` |
| `MCPileTakeover` | 2 threads, 1 item of 2 tries, faults, lease 1 | `ClaimStandsForTry`, `EndedIsFrozen`, `WritesUnderClaim` |
| `MCPileLive` | 1 thread, 2 tries, delayed releases, faults to 2 | `ImplementsHandouts`, `EveryItemEnds` |
| `MCSchedulerEngine` | 1 scheduler on a constant rhythm, 2 workers of one process, a client that makes every call and one that declares the same scheduler, `replay`, clock to 2, faults until then | type invariant, `EmittedWhenDue`, `ClaimableAtDeadline`, `NoBeatLost`, `HandMoveStands` |
| `MCSchedulerLive` | 2 workers in 2 processes, one of which cannot build the task; constant and varying rhythms, all three policies, purged tasks, clock to 3, faults to 2 | `NoBacklog`, `DeadlineMovesOn` |
| `MCSchedulerPurge` | tasks purged one tick after they were due | **violated**: `BeatOnce` |
| `MCLeases` | 3 calls of which one times out, 2 thread ids, 2 claims, blocks 2 deep | type invariant, `HeldHasRenewer`, `StopHitsItsOwn`, `OnlyLateOutlives`, `StoppedHoldsNothing`, `HeldIsRenewed` |
| `MCLifecycle` | 2 engines of which one is given no worker, 2 worker threads, 2 timed-out calls, retiring at 2; `run()` once, or a host that starts workers twice; 2 signals | type invariant, `CheckedInWhileWorking`, `DrainedMeansDrained`, `LimitIsSeen`, `StopEndsRun` |
| `MCFleet` | 2 processes of different versions, one of which may skip the version check, stale after 2 ticks, clock to 4, cleanup at ages 0 and 3, faults to 1; the upgrade run twice | type invariant, `MixedOnlyUnseen`, `BeatingIsSeen`, `UpgradeIsWhole` |

Why these bounds are enough. Documents are worked independently: one task meets every hazard but
those of keys and of leaving one block through another, which get two. Two workers that may die and
come back allow a claim, its takeover and the takeover of that; a lease of one tick and a clock to
three let a claim lapse, be taken over, and that one lapse and be taken over again. `MCTaskEngine`
makes each of the seven writes that end a task, of one with a key, so it is where `OneTaskPerKey` is
asked of them all; `MCTaskClients` asks it of the steps of `schedule(key=)`, beside few of those
writes. Faults may happen until the last tick of the clock in the safety runs of piles and
schedulers, and stop before it in the liveness runs. Two tries distinguish the first, the last and
the one too many. In `MCSchedulerEngine` a beat is due one tick on or two, so that two clients
declare schedulers with different beats; with a lease of one tick a claim is taken over twice within
its clock. Its workers share a process, which dies with both, and fail one by one as well (`Abort`);
two processes are in `MCSchedulerLive`. Its policy is the one under which every beat is owed; all
three are in `MCSchedulerLive`. In `MCLeases` three calls over two ids let an id be used again while
a third call holds, and a call two blocks deep holds more than the claim it took last. In
`MCLifecycle` the second worker thread is started next to a first one that outlived a stop, two
watchers race for a limit of two, and the engine without workers keeps its stop flag. In `MCFleet` a
record goes stale, is deleted and is missed within four ticks, and the second upgrade follows a
first that died at any of its calls. Symmetry is over tasks, items, threads and the workers of a
process, in safety runs only; no value among them is named. Deadlock is not checked: when the clock
has stopped and everything has ended, nothing is left to do.

`MaxTime`, `FaultsUntil`, `MaxDepth`, `ReleasesUntil`, `EditsUntil`, `MaxSaves`, `MaxRuns`,
`MaxSignals` and `MaxUpgrades` are bounds of the model, each named where it is declared.
`ReleasesUntil` is there because an item may be released for ever; `EditsUntil` bounds when edits
begin, not when they are written. `ClaimIds` are the names claims are made with: a claim is made with
one that nothing names any more, and waits while there is none, which a uuid never has to.

### Fairness

`TaskEngine`: time passes; a worker's loop calls `work()` again and again whatever it raised
(`WorkerLoop._loop`), and its steps return; a call of a function with a timeout ends by it
(`_callWithin`), one without may never; a process that died is started again, as its supervisor does.
Nothing is assumed of renewals, so `EveryTaskEnds` holds even if none is ever written, and nothing of
clients or housekeeping. `PileEngine`: a pile has no workers, so its liveness supposes that tasks
keep draining it, and that code that can go on running in a block reaches its end at some time.
`SchedulerEngine`: as `TaskEngine`. In all three a lease granted at the last ticks of the clock
cannot lapse in the model, which the properties except.

`Leases`: the interpreter runs every thread, so the lines of `hold()` and `release()` and a stop once
begun go on (weak fairness); the renewer waits for a lock that calls take again and again, so it is
given strong fairness: a lock that is free again and again is got at last. Nothing is assumed of the
code of a call. `Lifecycle`: every thread runs, and every piece of work ends; nobody has to start
workers, and no host has to stop them.

### Disagreements found

By runs that end in a violation:

1. `save()` reads, then replaces the whole document (documents.py:359, 366). A claim or outcome
   written in between is undone, against its docstring and docs/reference.md:252 (`MCTaskSave`).
2. A worker that stalls before `_emit` until its beat's task has run and been purged emits it again,
   against README.md:113 (`MCSchedulerPurge`). The purge age bounds how long it has to stall.

`MCTaskClients` shows that the first does not break the keys.

Seen in a model, and left out of the properties by an exception each of them names:

3. `update(deadline=)` of a task claimed since it was read moves the lease of the standing claim
   (documents.py:397-401), against tasks.py:290. `TaskClients` models it.
4. `hold()` runs before the `try` of `holding` (claims.py:253-255). A `TaskStopped` that arrives in
   it leaves a claim that is renewed for as long as the process lives, or, between the two lines
   that set the renewer and start it, a renewer that never runs, so that nothing the process holds in
   that collection is renewed any more. Only a claim taken between the drop of the call's holds and
   the stop is hit (`late`), which is what `OnlyLateOutlives` and `HeldHasRenewer` say.
5. A stop asked for while `startWorkers()` runs, by a signal or by a watcher that retires the process,
   is undone by app.py:418 or by `WorkerLoop.start()` (claims.py:363). After `requestStop()` from a
   signal handler, the next signal then ends the process at once, as `_stopping` is set (against
   docs/reference.md:182, "finish the work in flight, exit"). `StopEndsRun` starts from a stop asked
   for once the workers run.
6. `run(timeout)` joins its workers without a limit before it stops them, so its timeout has nothing
   left to limit: work that never ends keeps `run()` for ever, and what it returns is always that the
   work drained (app.py:658-660; its docstring and docs/reference.md:136 say otherwise).
7. A call of `startWorkers()` that fails after it has started workers, in its first beat, leaves them
   running, in `run()` outside the `try` that would stop them (app.py:655).
8. A process cut off until the cleanup deletes its record is never seen again, as `beat()` does not
   write a new one (`BeatingIsSeen`).
9. `upgradeFrom2` drops what this version wrote to a collection between its count and its rename
   (migrations.py:94-103, `UpgradeIsWhole`); its docstring has every process stopped before.

## Proofs

Each for every value of the constants that meets the named assumptions of its module: workers have a
home, a lease is a positive number of ticks, nulls are no values, and the like. One of them the code
does not see to: that a process beats no more rarely than records go stale (see *Not modelled*).

`TaskEngineProofs`:

- `TypeCorrect`: `Spec => []TypeOK`. `TypeOK` alone is not inductive: `Record` writes to the task its
  worker names, so `Inv` adds that a worker past its claim names a task (`BusyHasTask`). One lemma per
  group of actions, over lemmas that each write of a document leaves a document.
- `CallsStartAtMostOnce`: `Spec => []AtMostOnce`. The inductive invariant `OnceInv` says that a task
  which was started, or which a worker is about to start, is waiting no more, and that at most one
  worker is about to start a given task, which was not started before. So the argument is the code's:
  only the claim of a *waiting* task leads to a start, that claim ends the waiting, and nothing in the
  engine makes a task wait again. Of the calls of `TaskClients` only `save()` breaks the last of these
  (disagreement 1); that nothing else does is in `TaskClientProofs`.
- `ClaimsStandWhileRunning`: `Spec => []ClaimStandsWhileRunning`. The property is not inductive by
  itself: a renewal that named the null claim would match a task nobody holds. `ClaimInv` adds that
  workers and renewals name real claims (`ClaimsNamed`). One lemma per group of actions shows that a
  step makes of each document only what `MayBecome` allows: itself, nothing (purged), or, unless it
  ended, one that fits the property.
- `EndedStaysFrozen`: `Spec => EndedIsFrozen`, from the same invariant and the same lemmas: a
  document that ended may only stay or be purged.

`TaskWorkProofs` proves the rest of what the task engine promises:

- `LiveClaimsAreSafe`: `Spec => LiveClaimIsSafe`. The invariant it needs is about clocks: what a worker
  read of the server's clock is never ahead of it (`ClocksBehind`), so a lease it finds lapsed by an
  old reading has lapsed now. Every write but the holder's, and its renewals, asks for that.
- `OutcomesAreTrue`: `Spec => []OutcomeFitsRuns`. `Truth` adds that the outcome a worker is about to
  write is what became of the call it started, and that a task a worker leaves out as outdated has
  no start permit outstanding.
- `KeysNameOneTask`: `Spec => []OneTaskPerKey`, of the engine: only an insert sets an active key, and it
  finds it free; the property is inductive beside `Inv` (`KeyInv`).
- `EngineImplementsWorkOnce`: `Spec => ImplementsWorkOnce`. For each action a lemma says what it makes
  of every task's stage and permit, and one lemma per step of `WorkOnce` concludes from that. It rests
  on `OnceInv`: a permit that goes down with its worker must be the only one, and unspent.

`TaskClientProofs` is about `TaskClients`, for any number of clients and whatever each of them calls.
First what holds with every call, `save()` included, from an invariant of the calls under way
(`ClientInv`): the task that a call is about to insert was never stored, waits under its key, and is
inserted by that call alone; the task a call found or read was stored; a copy about to be saved has an
active key only if it is unfinished; and nothing was asked for a task that was never stored.

- `ClientsTypeCorrect` and `ClientsKeysNameOneTask`: `ClientSpec => []OneTaskPerKey`. A saved copy
  could bring back a key that another task has taken meanwhile; the unique index refuses it, as it
  refuses an insert (`FinishSave`, `KeyFree`).
- `SoonestWins`: `ClientSpec => []SoonerWins`. It needs that nothing is asked for a task before it is
  stored (`AskedOK`), which holds as its uid is known to the inserting call alone (`OneInserter`); after
  that no step but an edit makes a waiting task later, and an edit starts the asking anew.

Then what `save()` alone breaks. Under `NoSaves`, that no client calls it, every promise of the engine
stands beside the clients: `OnceWithoutSaves`, `OutcomesAreTrueWithoutSaves`,
`ClaimsStandWithoutSaves`, `LiveClaimsAreSafeWithoutSaves`, `ClientsImplementWorkOnce`, and
`NothingIsPutBackWithoutSaves`, the very property `MCTaskSave` finds violated. The invariant
(`PlainInv`) is the engine's own, with one addition: an `update(deadline=)` under way either read a
waiting task, and will write the deadline into its lease, or its task waits no more (`UpdateOK`). It
may so move the lease of a claim made since it read (disagreement 3), and still `LiveClaimIsSafe`
holds: the property speaks of the lease as written.

`SchedulerProofs` proves all the safety properties of `SchedulerEngine` but the one that is violated:

- `TypeCorrect`, `UnheldAtDeadline`, `BeatsAreDue`, `BacklogIsSkipped`. The common invariant `Inv` has
  the relation every write of a scheduler keeps (`Fits`): the lease is never before the deadline, and
  is the deadline while nobody holds it. It speaks of the copies in hand as well, of the workers' and
  of the clients' who edit or save, as those are written back later.
- `DeadlinesStand`: a worker that was overtaken has lost its claim (`OvertakenOK`), so its writes,
  which name the claim, find nothing.
- `EveryBeatEmitted`: `RhythmInv` says that a scheduler left alone stays on its rhythm, its deadline a
  whole number of intervals from the first, that the beats before it were emitted, and that a worker
  at `MoveOn` emitted the one it claimed. The lemmas on multiples of the interval are the arithmetic.
- `RepeatsAreLongDue` and `BeatsOnceUnlessPurged` bound disagreement 2. A beat emitted whose task is
  stored no more was due longer ago than an age tasks are purged at (`PurgedIsLongDue`), and only such
  a beat the index lets in again. So a worker has to stall that long, and where beats' tasks are never
  purged `BeatOnce` holds.

`PileProofs` proves all the safety properties of `PileEngine`, at any depth of blocks:

- `TypeCorrect`, `TriesStayBounded`, `ClaimsStandForTries`. `Counts` relates `attempts` in the document
  to the tries handed out: a running item whose latest claim was *not* handed to a block (the caller
  died, or it was only claimed to be given up) has one attempt more, which is why a release by hand
  may give one back without a try too many. `MayBecome` is what any step may make of an item, and
  every write of the engine is shown to stay within it; `EndedStaysFrozen` reads off the same lemmas.
- `ThreadsWriteTheirOwn`: each step of a thread is reduced to one write under one of its claims.
- `BlocksSettleItems`: `Settled` says that the blocks of a thread have claims of their own, that an
  exception that ends a block ends one whose outcome was written (so `EndHere` may write nothing), and
  that a block which ended holds its item no more, whatever others do to the item (`LostStaysLost`).
- `PileImplementsHandouts`: `Spec => ImplementsHandouts`. One lemma per step of `Handouts` says what a
  step of the pile has to make of stages and tries to be that step, and one per write of the pile that
  it does. A claim is a `HandOut` only if it leaves a try: that is `Counts` again.

`LeasesProofs` proves all the invariants of `Leases`, in layers of which each rests on those before:

- `TypeCorrect`. Every action is first reduced to what it makes of one call's record (`StepOf`), and
  `Shaped` says what that record looks like in each step: a call in `hold()` names a claim, one in a
  `finally` is in a block, one that ends is in none.
- `StopsHitTheirOwn`: `StopInv` adds that threads alive have ids of their own (`Distinct`) and that a
  stop is being sent only to a thread that cannot mark itself, and is on its way only to one that has
  not died (`StopState`). This is the comment of `_StoppableCall` made precise.
- `StoppedHoldNothing` and `HeldWhileInUse` are inductive together (`HoldInv`): a stop drops the names
  of its thread's claims, which is harmless as the thread holds none of them any more.
- `HeldKeepsRenewer`: `RenewInv` says that no renewer is set only if nothing is held, or a call is
  about to set one, or a claim was lost for good (`Leaked`). That a stop in `hold()` can leave only a
  lost claim behind (`StopInHoldLeaks`) needs that the claim being taken is nobody else's
  (`TakingIsNew`), and that it was taken since the drop, by the layer before.

`LifecycleProofs` proves the four invariants of `Lifecycle`, and `OnlyRegisterRegisters`, which says
little more than that `beat()` does not upsert and so is left to the proof alone. For
`DrainedMeansDrained` the strengthening is that every thread alive is known to its `WorkerLoop` or
the stop has been said to be not drained; for `CheckedInWhileWorking` it follows the main thread and
says at each of its steps who may be alive.

`FleetProofs`: `FleetImplemented` shows that a step of `Upgrade` is one of `Fleet` or leaves its
variables alone, so that what is proved of `Fleet` holds beside an upgrade. `OneVersion` rests on an
invariant that says why a process that verified cannot have overlooked one it does not race with, and
one told not to verify only those that were at work or starting then;
`BeatsCount` on when a record can have gone stale. `UpgradeEndsWhole` says of every position in
`Calls` what is done by then, whoever did it in an earlier upgrade.

Every safety property of the passing runs is proved. Only model-checked is liveness (`EveryTaskEnds`,
`EveryItemEnds`, `DeadlineMovesOn`, `HeldIsRenewed`, `StopEndsRun`), which the prover cannot do.

## Not modelled

Calls and their validation (`calls.py`), settings, declarations, distributions and the building of an
app are functions of their inputs, with no state of their own once an app is built; queries, patches
and pydantic's validation of documents belong to libraries. The backlog monitor and `wait()` read
and change nothing. An item claimed outside a block, and `update()`/`save()` of an item's data, are
left out: the first has no thread to die with it, the second is what `TaskClients` shows of tasks.

A gap between the model and the code: every process is built with a `heartbeatInterval` and a
`workerStaleAfter` of its own (app.py:145-165), and nothing compares them, within a process or
between two. `Fleet` has one `Interval` and one `StaleAfter`, to be read as the longest of the one and
the shortest of the other, which covers processes that differ, and it assumes
`Interval <= StaleAfter` (`BeatsAssumption`). To keep that is up to who runs the processes: of a
process that beats more rarely than some other's `workerStaleAfter`, neither `MixedOnlyUnseen` nor
`BeatingIsSeen` is claimed, as it is not seen between its beats and its record may be deleted.

## Plan

1. *(done)* Claims, tasks, the task clients, piles, schedulers; first theorems.
2. *(done)* `Leases`, `Lifecycle`, `Fleet`, `Upgrade`, with the proofs of their invariants.
3. *(done)* `SchedulerProofs` and `PileProofs`: every safety property of those engines that holds.
4. *(done)* `TaskWorkProofs`: the task engine's remaining safety properties and its refinement of
   `WorkOnce`.
5. *(done)* `TaskClientProofs`: what holds beside clients, and what only `save()` breaks; when a beat
   may be emitted again; `Handouts` and its refinement.
6. Left: an abstract specification of a scheduler's beats like `WorkOnce` and `Handouts`, and its
   refinement by `SchedulerEngine`.
