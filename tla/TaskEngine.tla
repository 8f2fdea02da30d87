----------------------------- MODULE TaskEngine -----------------------------
(***************************************************************************)
(* src/src/pymonque/tasks.py: the queue of calls that run at most once.    *)
(*                                                                         *)
(* One collection is shared by several processes.  Each process runs       *)
(* worker threads, which claim the most overdue task and see it through    *)
(* (work, _run, _record), and one thread that renews the leases of the     *)
(* claims its workers hold (Leases).  Any process may schedule, cancel,    *)
(* purge and keep house at any moment, and die at any moment.              *)
(*                                                                         *)
(* A worker thread is between two steps of work() exactly where it has     *)
(* read the clock, or waits for the database or for the call it runs:      *)
(*   reading    the clock is read, the claim not yet made                  *)
(*   claimed    a waiting task is claimed, its call not yet started        *)
(*   running    the call runs, the claim is held and renewed               *)
(*   recording  the call ended, its outcome is not yet written             *)
(*   outdating  the task claimed was too late; "outdated" not yet written  *)
(*   writingOff a task found running was claimed; "failed" not yet written *)
(***************************************************************************)
EXTENDS Claims

CONSTANTS
  Tasks,          \* the uids of the tasks ever scheduled; a uuid is never used twice
  Processes,      \* the processes of the app
  Workers,        \* their worker threads
  Home,           \* the process each worker runs in
  Names,          \* function names
  FunctionsOf,    \* the functions each process has
  TimedNames,     \* the functions declared with a timeout
  SkipAfter,      \* how long past its deadline a task is worth running, per function
  NoLimit,        \* ... or no limit
  Keys, NoKey,    \* schedule()'s keys, and None
  NoTask,         \* the uid of a worker without a task
  Deadlines,      \* the deadlines asked for
  LeaseTime,      \* settings.leaseSeconds, in ticks
  PurgeRequests,  \* the <<statuses, age>> purge() is called with
  MaxTime,        \* bound: the clock stops here
  FaultsUntil     \* bound: processes die and writes fail only before this time

ASSUME HomeAssumption == Home \in [Workers -> Processes]
ASSUME FunctionsAssumption ==
  Names # {} /\ FunctionsOf \in [Processes -> SUBSET Names]
ASSUME TimesAssumption ==
  LeaseTime \in Nat \ {0} /\ MaxTime \in Nat /\ Deadlines \subseteq Nat
ASSUME NullsAssumption == NoKey \notin Keys /\ NoTask \notin Tasks

VARIABLES
  now,        \* the clock
  tasks,      \* the collection: uid -> document
  workers,    \* worker -> what its call of work() knows
  renewal,    \* process -> the renewal its renewer has begun
  up,         \* the processes alive
  nextClaim,  \* the next fresh claimId
  runs        \* uid -> how often its call was started (a history variable)

vars == <<now, tasks, workers, renewal, up, nextClaim, runs>>

-----------------------------------------------------------------------------
(* Statuses and documents                                                  *)

Unfinished == {"pending", "running"}

Final == {"done", "failed", "canceled", "timeout", "outdated", "incompatible"}

\* A document that was never stored, or is deleted, has a status of its own.
Statuses == Unfinished \cup Final \cup {"absent", "purged"}

Times == Nat \cup {NoTime}

Document == [status : Statuses, functionName : Names, deadline : Nat,
             leaseUntil : Nat, claimId : Nat, claimedAt : Times,
             finishedAt : Times, key : Keys \cup {NoKey},
             activeKey : Keys \cup {NoKey}]

AnyName == CHOOSE f \in Names : TRUE

Absent == [status |-> "absent", functionName |-> AnyName, deadline |-> 0,
           leaseUntil |-> 0, claimId |-> NoClaim, claimedAt |-> NoTime,
           finishedAt |-> NoTime, key |-> NoKey, activeKey |-> NoKey]

\* Mutant of NewTask: stored without _prepare, which gives it its lease.
UnpreparedTask(f, d, k) ==
  [Absent EXCEPT !.status = "pending", !.functionName = f, !.deadline = d,
                 !.leaseUntil = NoTime, !.key = k, !.activeKey = k]

\* What _newTask makes and insert() stores: waiting, claimable at its deadline.
NewTask(f, d, k) ==
  [Absent EXCEPT !.status = "pending", !.functionName = f, !.deadline = d,
                 !.leaseUntil = d, !.key = k, !.activeKey = k]

Deleted == [Absent EXCEPT !.status = "purged"]

\* Mutant of KeyFree: the index forgets a task once it is claimed.
KeyFreeUnlessPending(k) ==
  k = NoKey \/ \A t \in Tasks : tasks[t].activeKey = k => tasks[t].status = "running"

\* The unique index on activeKey: among documents that have one.
KeyFree(k) == k = NoKey \/ \A t \in Tasks : tasks[t].activeKey # k

\* Every outcome is final, so it frees the task's key.
Finish(doc, status, at) ==
  [doc EXCEPT !.status = status, !.finishedAt = at, !.activeKey = NoKey]

-----------------------------------------------------------------------------
(* Workers                                                                 *)

WorkerSteps == {"idle", "reading", "claimed", "running", "recording",
                "outdating", "writingOff"}

\* `at` is the time the worker last read, which its next write carries;
\* `claimedAt` and `leaseUntil` are those of the document its claim found.
WorkerState == [step : WorkerSteps, at : Nat, uid : Tasks \cup {NoTask},
                claimId : Nat, outcome : Final, claimedAt : Times,
                leaseUntil : Nat]

Idle == [step |-> "idle", at |-> 0, uid |-> NoTask, claimId |-> NoClaim,
         outcome |-> "failed", claimedAt |-> NoTime, leaseUntil |-> 0]

Alive(w) == Home[w] \in up

\* Leases.holding encloses the call and the write of its outcome.
Holding(w) == workers[w].step \in {"running", "recording"}

Held(p) == {workers[w].claimId : w \in {v \in Workers : Home[v] = p /\ Holding(v)}}

NoRenewal == [claims |-> {}, at |-> 0]

-----------------------------------------------------------------------------
Init ==
  /\ now = 0
  /\ tasks = [t \in Tasks |-> Absent]
  /\ workers = [w \in Workers |-> Idle]
  /\ renewal = [p \in Processes |-> NoRenewal]
  /\ up = Processes
  /\ nextClaim = 1
  /\ runs = [t \in Tasks |-> 0]

Tick ==
  /\ now < MaxTime
  /\ now' = now + 1
  /\ UNCHANGED <<tasks, workers, renewal, up, nextClaim, runs>>

-----------------------------------------------------------------------------
(* Scheduling                                                              *)

\* insert() of schedule(): refused by the unique index if the key is in use.
\* The call is checked against the functions of the process scheduling it.
Insert(t, f, d, k) ==
  /\ tasks[t].status = "absent"
  /\ \E p \in up : f \in FunctionsOf[p]
  /\ KeyFree(k)
  /\ tasks' = [tasks EXCEPT ![t] = NewTask(f, d, k)]
  /\ UNCHANGED <<now, workers, renewal, up, nextClaim, runs>>

\* Mutant of Sooner: the last call wins.
StillWaiting(doc, d) == doc.status = "pending" /\ doc.deadline # d

\* schedule() under a key in use: a waiting task moves up to a sooner deadline.
Sooner(doc, d) == doc.status = "pending" /\ doc.deadline > d

MovedUp(doc, d) == [doc EXCEPT !.deadline = d, !.leaseUntil = d]

MoveUp(t, d) ==
  /\ up # {}
  /\ tasks[t].key # NoKey
  /\ Sooner(tasks[t], d)
  /\ tasks' = [tasks EXCEPT ![t] = MovedUp(@, d)]
  /\ UNCHANGED <<now, workers, renewal, up, nextClaim, runs>>

-----------------------------------------------------------------------------
(* work(): claim, run, record                                              *)

\* work() reads the clock before it claims, and claims with what it read.
ReadClock(w) ==
  /\ Alive(w)
  /\ workers[w].step = "idle"
  /\ workers' = [workers EXCEPT ![w].step = "reading", ![w].at = now]
  /\ UNCHANGED <<now, tasks, renewal, up, nextClaim, runs>>

\* Mutant of Claimable: what a dead worker left running is never found.
ClaimablePending(w) ==
  {t \in Tasks : /\ tasks[t].status = "pending"
                 /\ tasks[t].functionName \in FunctionsOf[Home[w]]}

\* The tasks this worker's process may claim: waiting or running, of a
\* function it has.
Claimable(w) ==
  {t \in Tasks : /\ tasks[t].status \in Unfinished
                 /\ tasks[t].functionName \in FunctionsOf[Home[w]]}

\* claimNext with work()'s fields.
ClaimedTask(doc, id, at) ==
  [Claimed(doc, id, at, LeaseTime) EXCEPT !.status = "running", !.claimedAt = at]

TooLate(doc, at) ==
  LET limit == SkipAfter[doc.functionName]
  IN  limit # NoLimit /\ at - doc.deadline > limit

\* Mutants of StepAfterClaim: a task found running is run again ...
RunAgainAfterClaim(doc, at) == IF TooLate(doc, at) THEN "outdating" ELSE "claimed"

\* ... or the deadline is looked at first.
DeadlineFirst(doc, at) ==
  CASE TooLate(doc, at) -> "outdating"
    [] ~TooLate(doc, at) /\ doc.status = "running" -> "writingOff"
    [] OTHER -> "claimed"

\* Where work() goes on: a task found running is written off, a stale one is
\* outdated, and any other is run.
StepAfterClaim(doc, at) ==
  CASE doc.status = "running" -> "writingOff"
    [] doc.status # "running" /\ TooLate(doc, at) -> "outdating"
    [] OTHER -> "claimed"

\* _writeOff and _outdate read the clock again for finishedAt.
AfterClaim(w, t) ==
  LET doc  == tasks[t]
      step == StepAfterClaim(doc, workers[w].at)
  IN  [step |-> step, at |-> IF step = "claimed" THEN workers[w].at ELSE now,
       uid |-> t, claimId |-> nextClaim,
       outcome |-> IF step = "outdating" THEN "outdated" ELSE "failed",
       claimedAt |-> doc.claimedAt, leaseUntil |-> doc.leaseUntil]

Claim(w, t) ==
  /\ Alive(w)
  /\ workers[w].step = "reading"
  /\ t \in NextDue(tasks, Claimable(w), workers[w].at)
  /\ tasks' = [tasks EXCEPT ![t] = ClaimedTask(@, nextClaim, workers[w].at)]
  /\ workers' = [workers EXCEPT ![w] = AfterClaim(w, t)]
  /\ nextClaim' = nextClaim + 1
  /\ UNCHANGED <<now, renewal, up, runs>>

\* The claim is made but work() ends there: the answer was lost on the way, or
\* the document cannot be loaded.  The loop logs it and carries on.
ClaimUnheard(w, t) ==
  /\ now < FaultsUntil
  /\ Alive(w)
  /\ workers[w].step = "reading"
  /\ t \in NextDue(tasks, Claimable(w), workers[w].at)
  /\ tasks' = [tasks EXCEPT ![t] = ClaimedTask(@, nextClaim, workers[w].at)]
  /\ workers' = [workers EXCEPT ![w] = Idle]
  /\ nextClaim' = nextClaim + 1
  /\ UNCHANGED <<now, renewal, up, runs>>

FindNothing(w) ==
  /\ Alive(w)
  /\ workers[w].step = "reading"
  /\ NextDue(tasks, Claimable(w), workers[w].at) = {}
  /\ workers' = [workers EXCEPT ![w] = Idle]
  /\ UNCHANGED <<now, tasks, renewal, up, nextClaim, runs>>

\* The claim is held, and the call starts.
Start(w) ==
  /\ Alive(w)
  /\ workers[w].step = "claimed"
  /\ workers' = [workers EXCEPT ![w].step = "running"]
  /\ runs' = [runs EXCEPT ![workers[w].uid] = @ + 1]
  /\ UNCHANGED <<now, tasks, renewal, up, nextClaim>>

\* _run: the call returns or raises, or outlives the timeout of its function.
EndCall(w, outcome) ==
  /\ Alive(w)
  /\ workers[w].step = "running"
  /\ outcome = "timeout" => tasks[workers[w].uid].functionName \in TimedNames
  /\ workers' = [workers EXCEPT ![w].step = "recording", ![w].at = now,
                                ![w].outcome = outcome]
  /\ UNCHANGED <<now, tasks, renewal, up, nextClaim, runs>>

\* Mutant of MayRecord: the outcome goes to the task, whatever holds it now.
MayRecordAnyway(doc, id) == doc.status # "purged"

\* _record's filter: the claim that ran the task still holds it.
MayRecord(doc, id) == doc.status = "running" /\ HeldBy(doc, id)

\* Mutant of Recorded: the claim is not let go with the outcome.
RecordedHeld(doc, ws) == Finish(doc, ws.outcome, ws.at)

\* What _record writes.  A task written off keeps when it was started and when
\* its worker's lease ran out, as the claim found them.
Recorded(doc, ws) ==
  LET ended == LetGo(Finish(doc, ws.outcome, ws.at))
  IN  IF ws.step = "writingOff"
      THEN [ended EXCEPT !.claimedAt = ws.claimedAt, !.leaseUntil = ws.leaseUntil]
      ELSE ended

\* _record, and the end of work(): nothing is written if the claim was lost.
Record(w) ==
  LET ws == workers[w]
  IN  /\ Alive(w)
      /\ ws.step \in {"recording", "outdating", "writingOff"}
      /\ tasks' = IF MayRecord(tasks[ws.uid], ws.claimId)
                  THEN [tasks EXCEPT ![ws.uid] = Recorded(@, ws)]
                  ELSE tasks
      /\ workers' = [workers EXCEPT ![w] = Idle]
      /\ UNCHANGED <<now, renewal, up, nextClaim, runs>>

\* work() ends by an exception with the claim standing: the write failed, or
\* the call raised what _run does not catch.  The hold is let go.
LeaveUnrecorded(w) ==
  /\ now < FaultsUntil
  /\ Alive(w)
  /\ workers[w].step \in WorkerSteps \ {"idle", "reading"}
  /\ workers' = [workers EXCEPT ![w] = Idle]
  /\ UNCHANGED <<now, tasks, renewal, up, nextClaim, runs>>

-----------------------------------------------------------------------------
(* Leases: one renewing thread per process                                 *)

\* renew() copies the claims held under the lock ...
BeginRenewal(p) ==
  /\ p \in up
  /\ renewal[p] = NoRenewal
  /\ Held(p) # {}
  /\ renewal' = [renewal EXCEPT ![p] = [claims |-> Held(p), at |-> now]]
  /\ UNCHANGED <<now, tasks, workers, up, nextClaim, runs>>

\* ... and then reads the clock, and writes some time later, whatever has become
\* of the claims.
WriteRenewal(p) ==
  /\ p \in up
  /\ renewal[p] # NoRenewal
  /\ \E at \in renewal[p].at .. now : tasks' = RenewHeld(tasks, renewal[p].claims, at, LeaseTime)
  /\ renewal' = [renewal EXCEPT ![p] = NoRenewal]
  /\ UNCHANGED <<now, workers, up, nextClaim, runs>>

\* The write fails; it is logged, and the next renewal tries again.
FailRenewal(p) ==
  /\ now < FaultsUntil
  /\ p \in up
  /\ renewal[p] # NoRenewal
  /\ renewal' = [renewal EXCEPT ![p] = NoRenewal]
  /\ UNCHANGED <<now, tasks, workers, up, nextClaim, runs>>

-----------------------------------------------------------------------------
(* Managing tasks                                                          *)

\* Mutant of CanceledTask: the key stays in use.
CanceledUnderKey(doc) == Canceled(doc, now)

CanceledTask(doc) == [Canceled(doc, now) EXCEPT !.activeKey = NoKey]

\* cancel() of one task, or cancelMany() of those its filter picks.
Cancel(picked) ==
  /\ up # {}
  /\ \E t \in picked : NotStarted(tasks[t], now)
  /\ tasks' = [t \in Tasks |-> IF t \in picked /\ NotStarted(tasks[t], now)
                               THEN CanceledTask(tasks[t]) ELSE tasks[t]]
  /\ UNCHANGED <<now, workers, renewal, up, nextClaim, runs>>

\* purge() refuses a status that is not final.
Purge(statuses, age) ==
  LET gone == {t \in Tasks : EndedBefore(tasks[t], statuses, now - age)}
  IN  /\ up # {}
      /\ statuses \subseteq Final
      /\ gone # {}
      /\ tasks' = [t \in Tasks |-> IF t \in gone THEN Deleted ELSE tasks[t]]
      /\ UNCHANGED <<now, workers, renewal, up, nextClaim, runs>>

\* Waiting tasks whose function this process does not have.
Unknown(p, t) == tasks[t].functionName \notin FunctionsOf[p]

FlagIncompatible(p) ==
  LET flagged == {t \in Tasks : tasks[t].status = "pending" /\ Unknown(p, t)}
  IN  /\ p \in up
      /\ flagged # {}
      /\ tasks' = [t \in Tasks |-> IF t \in flagged
                                   THEN Finish(tasks[t], "incompatible", now)
                                   ELSE tasks[t]]
      /\ UNCHANGED <<now, workers, renewal, up, nextClaim, runs>>

\* Tasks a dead worker left running, which no claim of this process could find.
WriteOffStuck(p) ==
  LET stuck == {t \in Tasks : /\ tasks[t].status = "running"
                              /\ Lapsed(tasks[t], now)
                              /\ Unknown(p, t)}
  IN  /\ p \in up
      /\ stuck # {}
      /\ tasks' = [t \in Tasks |-> IF t \in stuck
                                   THEN LetGo(Finish(tasks[t], "failed", now))
                                   ELSE tasks[t]]
      /\ UNCHANGED <<now, workers, renewal, up, nextClaim, runs>>

-----------------------------------------------------------------------------
(* Processes                                                               *)

\* A process is killed: its threads are gone, what they claimed stays claimed.
Crash(p) ==
  /\ now < FaultsUntil
  /\ p \in up
  /\ up' = up \ {p}
  /\ workers' = [w \in Workers |-> IF Home[w] = p THEN Idle ELSE workers[w]]
  /\ renewal' = [renewal EXCEPT ![p] = NoRenewal]
  /\ UNCHANGED <<now, tasks, nextClaim, runs>>

Restart(p) ==
  /\ p \notin up
  /\ up' = up \cup {p}
  /\ UNCHANGED <<now, tasks, workers, renewal, nextClaim, runs>>

-----------------------------------------------------------------------------
Schedule ==
  \/ \E t \in Tasks, f \in Names, d \in Deadlines, k \in Keys \cup {NoKey} :
       Insert(t, f, d, k)
  \/ \E t \in Tasks, d \in Deadlines : MoveUp(t, d)

Work(w) ==
  \/ ReadClock(w)
  \/ \E t \in Tasks : Claim(w, t)
  \/ FindNothing(w)
  \/ Start(w)
  \/ \E outcome \in {"done", "failed", "timeout"} : EndCall(w, outcome)
  \/ Record(w)

WorkFails(w) ==
  \/ \E t \in Tasks : ClaimUnheard(w, t)
  \/ LeaveUnrecorded(w)

Renew(p) == BeginRenewal(p) \/ WriteRenewal(p) \/ FailRenewal(p)

Manage ==
  \/ \E picked \in SUBSET Tasks : Cancel(picked)
  \/ \E request \in PurgeRequests : Purge(request[1], request[2])
  \/ \E p \in Processes : FlagIncompatible(p)
  \/ \E p \in Processes : WriteOffStuck(p)

Next ==
  \/ Tick
  \/ Schedule
  \/ \E w \in Workers : Work(w) \/ WorkFails(w)
  \/ \E p \in Processes : Renew(p)
  \/ Manage
  \/ \E p \in Processes : Crash(p) \/ Restart(p)

Spec == Init /\ [][Next]_vars

(* Fairness.  Time passes.  The loop of a worker thread calls work() again  *)
(* and again, and every step of it but the call itself returns.  A call of  *)
(* a function with a timeout is ended by it at the latest (_callWithin); a  *)
(* call without one may never end.  A process that died is started again.   *)
(* Nothing is assumed of renewals, clients or housekeeping.                 *)
Advance(w) ==
  \/ ReadClock(w)
  \/ \E t \in Tasks : Claim(w, t)
  \/ FindNothing(w)
  \/ Start(w)
  \/ Record(w)

Fairness ==
  /\ WF_vars(Tick)
  /\ \A w \in Workers : WF_vars(Advance(w)) /\ WF_vars(EndCall(w, "timeout"))
  /\ \A p \in Processes : WF_vars(Restart(p))

FairSpec == Spec /\ Fairness

-----------------------------------------------------------------------------
(* Properties                                                              *)

\* Every variable has its type.
TypeOK ==
  /\ now \in Nat
  /\ tasks \in [Tasks -> Document]
  /\ workers \in [Workers -> WorkerState]
  /\ renewal \in [Processes -> [claims : SUBSET Nat, at : Nat]]
  /\ up \subseteq Processes
  /\ nextClaim \in Nat \ {0}
  /\ runs \in [Tasks -> Nat]

\* A task runs at most once: whatever crashes, lapses, is cancelled or retried,
\* no call is started twice (README.md, "A task runs at most once").
AtMostOnce == \A t \in Tasks : runs[t] <= 1

\* The recorded outcome says what became of the call: "done" and "timeout" only
\* of a call that was started; "outdated" and "incompatible" only of one that
\* never was; and a waiting task's call was never started.
OutcomeFitsRuns ==
  \A t \in Tasks :
    /\ tasks[t].status \in {"done", "timeout"} => runs[t] = 1
    /\ tasks[t].status \in {"absent", "pending", "outdated", "incompatible"} => runs[t] = 0

\* A claim stands exactly while the task is running, and a waiting task is
\* claimable exactly at its deadline: no outcome, cancel, flag or move leaves a
\* document a renewal or a late outcome could still hit.
ClaimStandsWhileRunning ==
  \A t \in Tasks :
    /\ (tasks[t].claimId # NoClaim) <=> (tasks[t].status = "running")
    /\ tasks[t].status = "pending" => tasks[t].leaseUntil = tasks[t].deadline

\* One unfinished task per key, and the key is free as soon as the task ended,
\* however it ended.
OneTaskPerKey ==
  \A t, u \in Tasks :
    /\ tasks[t].activeKey = IF tasks[t].status \in Unfinished THEN tasks[t].key ELSE NoKey
    /\ tasks[t].activeKey = tasks[u].activeKey => t = u \/ tasks[t].activeKey = NoKey

\* A task that ended stays as it ended, until it is purged: no late outcome, no
\* second cancel and no renewal in flight changes it.
EndedIsFrozen ==
  [][\A t \in Tasks : tasks[t].status \in Final => tasks'[t] \in {tasks[t], Deleted}]_vars

\* While a claim's lease has not run out, only the worker that made the claim
\* can end it: no other worker, cancel or housekeeping takes the task from it.
LiveClaimIsSafe ==
  [][\A t \in Tasks :
       tasks[t].status = "running" /\ ~Lapsed(tasks[t], now) =>
         \/ tasks'[t].claimId = tasks[t].claimId /\ tasks'[t].status = "running"
         \/ \E w \in Workers : workers[w].claimId = tasks[t].claimId /\ workers'[w] = Idle]_vars

\* What is left to one worker is to start each call it was given: this engine
\* keeps what WorkOnce promises.  The permit is given out by the claim of a
\* waiting task, and is with the worker until it starts the call.
StageOf(doc) ==
  CASE doc.status = "absent" -> "none"
    [] doc.status = "pending" -> "waiting"
    [] doc.status = "running" -> "taken"
    [] doc.status = "purged" -> "gone"
    [] OTHER -> "ended"

PermitOf(t) ==
  IF \E w \in Workers : workers[w].step = "claimed" /\ workers[w].uid = t
  THEN "given"
  ELSE IF runs[t] > 0 THEN "spent" ELSE "none"

Promise == INSTANCE WorkOnce WITH
  stage  <- [t \in Tasks |-> StageOf(tasks[t])],
  permit <- [t \in Tasks |-> PermitOf(t)],
  calls  <- runs

ImplementsWorkOnce == Promise!Spec

\* Once faults stop, every task some worker has the function for ends: a task
\* abandoned by any number of workers that died is taken over and written off.
\* (A lease that outlasts the model's clock cannot run out.)
EveryTaskEnds ==
  \A t \in Tasks :
    (/\ tasks[t].status \in Unfinished
     /\ tasks[t].functionName \in TimedNames
     /\ \E w \in Workers : tasks[t].functionName \in FunctionsOf[Home[w]])
      ~> \/ tasks[t].status \in Final \cup {"purged"}
         \/ tasks[t].leaseUntil > MaxTime

=============================================================================
