----------------------------- MODULE TaskWorkProofs -----------------------------
(***************************************************************************)
(* Theorems about what the task engine promises whoever schedules a task:  *)
(* outcomes tell the truth, a live claim is nobody else's to end, a key    *)
(* names one task, and TaskEngine implements WorkOnce.                     *)
(***************************************************************************)
EXTENDS TaskEngineProofs

\* What each step of work() leaves of the workers: all but w are as they were.
LEMMA OthersStay ==
  ASSUME Inv, NEW w \in Workers, Work(w) \/ WorkFails(w)
  PROVE  /\ workers' \in [Workers -> WorkerState]
         /\ \A v \in Workers \ {w} : workers'[v] = workers[v]
         /\ UNCHANGED <<now, renewal, up>>
<1>1. workers' \in [Workers -> WorkerState]
  BY WorkTypes DEF Inv, TypeOK
<1>2. workers \in [Workers -> WorkerState]
  BY DEF Inv, TypeOK
<1>3. \A v \in Workers \ {w} : workers'[v] = workers[v]
  BY <1>2 DEF Work, WorkFails, ReadClock, Claim, ClaimUnheard, FindNothing, Start, EndCall, Record,
              LeaveUnrecorded
<1>4. UNCHANGED <<now, renewal, up>>
  BY DEF Work, WorkFails, ReadClock, Claim, ClaimUnheard, FindNothing, Start, EndCall, Record,
         LeaveUnrecorded
<1> QED
  BY <1>1, <1>3, <1>4

\* The steps that leave every worker alone, or make it idle.
LEMMA QuietSteps ==
  ASSUME Inv,
         \/ Tick \/ UNCHANGED vars \/ Schedule \/ Manage
         \/ \E p \in Processes : Renew(p) \/ Crash(p) \/ Restart(p)
  PROVE  /\ runs' = runs
         /\ workers' \in [Workers -> WorkerState]
         /\ \A w \in Workers : workers'[w] = workers[w] \/ workers'[w] = Idle
<1>1. runs' = runs
  BY DEF Tick, vars, Schedule, Insert, MoveUp, Manage, Cancel, Purge, FlagIncompatible, WriteOffStuck,
         Renew, BeginRenewal, WriteRenewal, FailRenewal, Crash, Restart
<1>2. /\ workers \in [Workers -> WorkerState]
      /\ Idle \in WorkerState
  BY IdleType DEF Inv, TypeOK
<1>3. CASE UNCHANGED workers
  BY <1>1, <1>2, <1>3
<1>4. ASSUME NEW p \in Processes, Crash(p)
      PROVE  /\ workers' \in [Workers -> WorkerState]
             /\ \A w \in Workers : workers'[w] = workers[w] \/ workers'[w] = Idle
  BY <1>2, <1>4 DEF Crash
<1> QED
  BY <1>1, <1>3, <1>4
     DEF Tick, vars, Schedule, Insert, MoveUp, Manage, Cancel, Purge, FlagIncompatible, WriteOffStuck,
         Renew, BeginRenewal, WriteRenewal, FailRenewal, Restart

-----------------------------------------------------------------------------
(* A worker's clock is never ahead of time.                                *)

ClocksBehind == \A w \in Workers : workers[w].at <= now

LEMMA NextClocks == Inv /\ ClocksBehind /\ [Next]_vars => ClocksBehind'
<1> SUFFICES ASSUME Inv, ClocksBehind, [Next]_vars PROVE ClocksBehind'
  OBVIOUS
<1>t. workers \in [Workers -> WorkerState] /\ now \in Nat
  BY DEF Inv, TypeOK
<1>n. now' \in Nat /\ now <= now'
  <2>1. now' = now \/ now' = now + 1
    BY DEF Next, Tick, vars, Schedule, Insert, MoveUp, Manage, Cancel, Purge, FlagIncompatible,
           WriteOffStuck, Renew, BeginRenewal, WriteRenewal, FailRenewal, Crash, Restart, Work,
           WorkFails, ReadClock, Claim, ClaimUnheard, FindNothing, Start, EndCall, Record,
           LeaveUnrecorded
  <2> QED
    BY <1>t, <2>1
<1>1. ASSUME NEW w \in Workers, Work(w) \/ WorkFails(w)
      PROVE  ClocksBehind'
  <2>1. workers'[w].at \in {workers[w].at, now, 0}
    <3>1. CASE ReadClock(w)
      BY <1>t, <3>1 DEF ReadClock, WorkerState
    <3>2. ASSUME NEW t \in Tasks, Claim(w, t)
          PROVE  workers'[w].at \in {workers[w].at, now}
      BY <1>t, <3>2 DEF Claim, AfterClaim
    <3>3. CASE workers'[w] = Idle
      BY <3>3 DEF Idle
    <3>4. CASE Start(w)
      BY <1>t, <3>4 DEF Start, WorkerState
    <3>5. ASSUME NEW outcome \in {"done", "failed", "timeout"}, EndCall(w, outcome)
          PROVE  workers'[w].at = now
      BY <1>t, <3>5 DEF EndCall, WorkerState
    <3>6. (\E t \in Tasks : ClaimUnheard(w, t)) \/ FindNothing(w) \/ Record(w) \/ LeaveUnrecorded(w)
            => workers'[w] = Idle
      BY <1>t DEF ClaimUnheard, FindNothing, Record, LeaveUnrecorded
    <3> QED
      BY <1>1, <3>1, <3>2, <3>3, <3>4, <3>5, <3>6 DEF Work, WorkFails
  <2>2. \A v \in Workers \ {w} : workers'[v] = workers[v]
    BY <1>1, OthersStay
  <2>3. \A v \in Workers : workers'[v].at \in {workers[v].at, now, 0}
    BY <2>1, <2>2
  <2> QED
    BY <1>t, <1>n, <2>3 DEF ClocksBehind, WorkerState
<1>2. ASSUME ~\E w \in Workers : Work(w) \/ WorkFails(w)
      PROVE  ClocksBehind'
  <2>1. \A w \in Workers : workers'[w] = workers[w] \/ workers'[w] = Idle
    BY <1>2, QuietSteps DEF Next
  <2>2. Idle.at = 0
    BY DEF Idle
  <2> QED
    BY <1>t, <1>n, <2>1, <2>2 DEF ClocksBehind, WorkerState
<1> QED
  BY <1>1, <1>2

LEMMA ClockInvariant == Spec => [](ClaimInv /\ ClocksBehind)
<1>1. Init => ClocksBehind
  BY DEF Init, ClocksBehind, Idle
<1>2. ClaimInv => Inv
  BY DEF ClaimInv
<1> QED
  BY <1>1, <1>2, NextClocks, ClaimInvariant, PTL DEF Spec

-----------------------------------------------------------------------------
(* A live claim is nobody else's to end.                                   *)

\* What the property says of a step.
OnlyItsOwn ==
  \A t \in Tasks :
    tasks[t].status = "running" /\ ~Lapsed(tasks[t], now) =>
      \/ tasks'[t].claimId = tasks[t].claimId /\ tasks'[t].status = "running"
      \/ \E w \in Workers : workers[w].claimId = tasks[t].claimId /\ workers'[w] = Idle

LEMMA WorkOnlyItsOwn ==
  ASSUME ClaimInv, ClocksBehind, NEW w \in Workers, Work(w) \/ WorkFails(w)
  PROVE  OnlyItsOwn
<1>t. /\ tasks \in [Tasks -> Document] /\ workers \in [Workers -> WorkerState] /\ now \in Nat
      /\ workers[w].at \in Nat /\ workers[w].at <= now
  BY DEF ClaimInv, Inv, TypeOK, WorkerState, ClocksBehind
<1>1. ASSUME NEW t \in Tasks, Claim(w, t) \/ ClaimUnheard(w, t)
      PROVE  OnlyItsOwn
  <2> DEFINE doc == ClaimedTask(tasks[t], nextClaim, workers[w].at)
  <2>1. Lapsed(tasks[t], workers[w].at) /\ tasks' = [tasks EXCEPT ![t] = doc]
    BY <1>1 DEF Claim, ClaimUnheard, NextDue
  <2> HIDE DEF doc
  <2>2. tasks[t].leaseUntil \in Nat
    BY <1>t DEF Document
  <2>3. Lapsed(tasks[t], now)
    BY <1>t, <2>1, <2>2 DEF Lapsed
  <2> QED
    BY <1>t, <2>1, <2>3 DEF OnlyItsOwn
<1>2. CASE Record(w)
  <2> DEFINE t == workers[w].uid
             doc == Recorded(tasks[t], workers[w])
  <2>1. /\ tasks' = IF MayRecord(tasks[t], workers[w].claimId) THEN [tasks EXCEPT ![t] = doc] ELSE tasks
        /\ workers' = [workers EXCEPT ![w] = Idle]
    BY <1>2 DEF Record
  <2> HIDE DEF t, doc
  <2> QED
    BY <1>t, <2>1 DEF OnlyItsOwn, MayRecord, HeldBy
<1>3. CASE tasks' = tasks
  BY <1>3 DEF OnlyItsOwn
<1>4. \/ \E t \in Tasks : Claim(w, t) \/ ClaimUnheard(w, t)
      \/ Record(w)
      \/ tasks' = tasks
  BY DEF Work, WorkFails, ReadClock, FindNothing, Start, EndCall, LeaveUnrecorded
<1> QED
  BY <1>1, <1>2, <1>3, <1>4

LEMMA OtherOnlyItsOwn ==
  ASSUME Inv, Schedule \/ Manage \/ \E p \in Processes : Renew(p)
  PROVE  OnlyItsOwn
<1>t. tasks \in [Tasks -> Document] /\ now \in Nat
  BY DEF Inv, TypeOK
<1> SUFFICES ASSUME NEW t \in Tasks, tasks[t].status = "running", ~Lapsed(tasks[t], now)
             PROVE  tasks'[t].claimId = tasks[t].claimId /\ tasks'[t].status = "running"
  BY DEF OnlyItsOwn
<1>1. CASE Schedule
  BY <1>t, <1>1 DEF Schedule, Insert, MoveUp, Sooner
<1>2. ASSUME NEW p \in Processes, WriteRenewal(p)
      PROVE  tasks'[t].claimId = tasks[t].claimId /\ tasks'[t].status = "running"
  <2>1. PICK at \in renewal[p].at .. now :
          tasks' = RenewHeld(tasks, renewal[p].claims, at, LeaseTime)
    BY <1>2 DEF WriteRenewal
  <2>2. tasks'[t] = tasks[t] \/ tasks'[t] = Renewed(tasks[t], at, LeaseTime)
    BY <1>t, <2>1 DEF RenewHeld
  <2> QED
    BY <1>t, <2>2 DEF Renewed, Document
<1>3. CASE tasks' = tasks
  BY <1>3
<1>4. CASE Manage
  <2>1. ASSUME NEW picked \in SUBSET Tasks, Cancel(picked) PROVE tasks'[t] = tasks[t]
    BY <2>1 DEF Cancel, NotStarted
  <2>2. ASSUME NEW request \in PurgeRequests, Purge(request[1], request[2])
        PROVE  tasks'[t] = tasks[t]
    BY <2>2 DEF Purge, EndedBefore, Final
  <2>3. ASSUME NEW p \in Processes, FlagIncompatible(p) PROVE tasks'[t] = tasks[t]
    BY <2>3 DEF FlagIncompatible
  <2>4. ASSUME NEW p \in Processes, WriteOffStuck(p) PROVE tasks'[t] = tasks[t]
    BY <2>4 DEF WriteOffStuck
  <2> QED
    BY <1>4, <2>1, <2>2, <2>3, <2>4 DEF Manage
<1> QED
  BY <1>1, <1>2, <1>3, <1>4 DEF Renew, BeginRenewal, FailRenewal

\* While a claim's lease has not run out, no other worker, cancel, flag or write-off takes
\* the task from the worker that made it: leases are read against a clock no later than
\* now, and every write but the holder's own asks for a lapsed lease (claimNext, cancel,
\* _writeOffStuck).
THEOREM LiveClaimsAreSafe == Spec => LiveClaimIsSafe
<1>1. ClaimInv /\ ClocksBehind /\ [Next]_vars => OnlyItsOwn
  <2> SUFFICES ASSUME ClaimInv, ClocksBehind, [Next]_vars PROVE OnlyItsOwn
    OBVIOUS
  <2>1. Inv
    BY DEF ClaimInv
  <2>2. CASE tasks' = tasks
    BY <2>2 DEF OnlyItsOwn
  <2> QED
    BY <2>1, <2>2, WorkOnlyItsOwn, OtherOnlyItsOwn DEF Next, Tick, Crash, Restart, vars
<1> QED
  BY <1>1, ClockInvariant, PTL DEF Spec, LiveClaimIsSafe, OnlyItsOwn

-----------------------------------------------------------------------------
(* Outcomes tell the truth                                                 *)

NeverRun == {"absent", "pending", "outdated", "incompatible"}

Ran == {"done", "timeout"}

\* What a worker is about to write is what became of the call it ran, or did not run.
Truthful(w) ==
  LET ws == workers[w]
  IN  /\ ws.step \in {"running", "recording"} => runs[ws.uid] = 1
      /\ ws.step = "recording" => ws.outcome \in {"done", "failed", "timeout"}
      /\ ws.step = "writingOff" => ws.outcome = "failed"
      /\ ws.step = "outdating" =>
           /\ ws.outcome = "outdated" /\ runs[ws.uid] = 0 /\ ~Untaken(ws.uid)
           /\ \A v \in Workers : ~HasPermit(v, ws.uid)

\* A task that is told to have never run has no call under way, and nobody may start one.
TruthOf(t) ==
  /\ tasks[t].status \in Ran => runs[t] = 1
  /\ tasks[t].status \in NeverRun => runs[t] = 0 /\ \A w \in Workers : ~HasPermit(w, t)

Truth == (\A w \in Workers : Truthful(w)) /\ (\A t \in Tasks : TruthOf(t))

TruthInv == OnceInv /\ Truth

LEMMA IdleIsTruthful ==
  ASSUME NEW w \in Workers, workers[w] = Idle
  PROVE  Truthful(w) /\ \A t \in Tasks : ~HasPermit(w, t)
BY DEF Truthful, HasPermit, Idle

\* A step that starts no call and gives no permit: enough that no document takes to a
\* status it has no right to.
LEMMA QuietTruth ==
  ASSUME TruthInv, runs' = runs,
         \A w \in Workers : workers'[w] = workers[w] \/ workers'[w] = Idle,
         \A t \in Tasks : Untaken(t)' => Untaken(t),
         \A t \in Tasks : \/ tasks'[t].status = tasks[t].status
                          \/ tasks'[t].status \notin Ran \cup NeverRun
                          \/ tasks'[t].status \in NeverRun /\ tasks[t].status \in NeverRun
  PROVE  Truth'
<1>1. \A w \in Workers, t \in Tasks : HasPermit(w, t)' => HasPermit(w, t)
  BY DEF HasPermit, Idle
<1>2. \A w \in Workers : workers[w].step = "outdating" => workers[w].uid \in Tasks
  BY DEF TruthInv, OnceInv, Inv, BusyHasTask, Busy
<1>3. ASSUME NEW w \in Workers PROVE Truthful(w)'
  <2>1. CASE workers'[w] = Idle
    BY <2>1 DEF Truthful, Idle
  <2>2. CASE workers'[w] = workers[w]
    BY <1>1, <1>2, <2>2 DEF TruthInv, Truth, Truthful
  <2> QED
    BY <2>1, <2>2
<1>4. ASSUME NEW t \in Tasks PROVE TruthOf(t)'
  BY <1>1 DEF TruthInv, Truth, TruthOf, Ran, NeverRun
<1> QED
  BY <1>3, <1>4 DEF Truth

LEMMA ScheduleTruth ==
  ASSUME TruthInv, Schedule
  PROVE  Truth'
<1>t. tasks \in [Tasks -> Document]
  BY DEF TruthInv, OnceInv, Inv, TypeOK
<1>q. /\ runs' = runs /\ workers' = workers
  BY DEF Schedule, Insert, MoveUp
<1>1. \A t \in Tasks : \/ tasks'[t].status = tasks[t].status
                       \/ tasks[t].status = "absent" /\ tasks'[t].status = "pending"
  <2>1. ASSUME NEW t \in Tasks, NEW f \in Names, NEW d \in Deadlines,
               NEW k \in Keys \cup {NoKey}, Insert(t, f, d, k)
        PROVE  \A u \in Tasks : \/ tasks'[u].status = tasks[u].status
                                \/ tasks[u].status = "absent" /\ tasks'[u].status = "pending"
    <3>1. NewTask(f, d, k).status = "pending"
      BY DEF NewTask, Absent
    <3> QED
      BY <1>t, <2>1, <3>1 DEF Insert
  <2>2. ASSUME NEW t \in Tasks, NEW d \in Deadlines, MoveUp(t, d)
        PROVE  \A u \in Tasks : tasks'[u].status = tasks[u].status
    BY <1>t, <2>2 DEF MoveUp, MovedUp, Document
  <2> QED
    BY <2>1, <2>2 DEF Schedule
<1> QED
  BY <1>q, <1>1, QuietTruth DEF Untaken, NeverRun, Ran

LEMMA RenewTruth ==
  ASSUME TruthInv, NEW p \in Processes, Renew(p)
  PROVE  Truth'
<1>t. tasks \in [Tasks -> Document] /\ now \in Nat /\ renewal \in [Processes -> [claims : SUBSET Nat, at : Nat]]
  BY DEF TruthInv, OnceInv, Inv, TypeOK
<1>q. runs' = runs /\ workers' = workers
  BY DEF Renew, BeginRenewal, WriteRenewal, FailRenewal
<1>1. \A t \in Tasks : tasks'[t].status = tasks[t].status
  <2>1. CASE WriteRenewal(p)
    <3>1. PICK at \in renewal[p].at .. now :
            tasks' = RenewHeld(tasks, renewal[p].claims, at, LeaseTime)
      BY <2>1 DEF WriteRenewal
    <3>2. \A t \in Tasks : tasks'[t] = tasks[t] \/ tasks'[t] = Renewed(tasks[t], at, LeaseTime)
      BY <1>t, <3>1 DEF RenewHeld
    <3> QED
      BY <1>t, <3>2 DEF Renewed, Document
  <2>2. CASE BeginRenewal(p) \/ FailRenewal(p)
    BY <2>2 DEF BeginRenewal, FailRenewal
  <2> QED
    BY <2>1, <2>2 DEF Renew
<1> QED
  BY <1>q, <1>1, QuietTruth DEF Untaken

LEMMA ManageTruth ==
  ASSUME TruthInv, Manage
  PROVE  Truth'
<1>t. (\A t \in Tasks : tasks[t] \in Document) /\ now \in Nat
  BY DEF TruthInv, OnceInv, Inv, TypeOK
<1>q. runs' = runs /\ workers' = workers
  BY DEF Manage, Cancel, Purge, FlagIncompatible, WriteOffStuck
<1>w. /\ Deleted.status = "purged"
      /\ \A t \in Tasks : /\ CanceledTask(tasks[t]).status = "canceled"
                          /\ Finish(tasks[t], "incompatible", now).status = "incompatible"
                          /\ LetGo(Finish(tasks[t], "failed", now)).status = "failed"
  <2>1. Deleted.status = "purged"
    BY DEF Deleted, Absent
  <2>2. "failed" \in Final /\ "incompatible" \in Final
    BY DEF Final
  <2> QED
    BY <1>t, <2>1, <2>2, WritesKeepTaken
<1>1. \A t \in Tasks : \/ tasks'[t] = tasks[t]
                       \/ tasks'[t].status \in {"purged", "canceled", "failed"}
                       \/ tasks'[t].status = "incompatible" /\ tasks[t].status = "pending"
  <2>1. ASSUME NEW picked \in SUBSET Tasks, Cancel(picked)
        PROVE  \A t \in Tasks : tasks'[t] = tasks[t] \/ tasks'[t].status = "canceled"
    BY <1>w, <2>1 DEF Cancel
  <2>2. ASSUME NEW request \in PurgeRequests, Purge(request[1], request[2])
        PROVE  \A t \in Tasks : tasks'[t] = tasks[t] \/ tasks'[t].status = "purged"
    BY <1>w, <2>2 DEF Purge
  <2>3. ASSUME NEW p \in Processes, FlagIncompatible(p)
        PROVE  \A t \in Tasks : \/ tasks'[t] = tasks[t]
                                \/ tasks'[t].status = "incompatible" /\ tasks[t].status = "pending"
    BY <1>w, <2>3 DEF FlagIncompatible
  <2>4. ASSUME NEW p \in Processes, WriteOffStuck(p)
        PROVE  \A t \in Tasks : tasks'[t] = tasks[t] \/ tasks'[t].status = "failed"
    BY <1>w, <2>4 DEF WriteOffStuck
  <2> QED
    BY <2>1, <2>2, <2>3, <2>4 DEF Manage
<1> QED
  BY <1>q, <1>1, QuietTruth DEF Untaken, NeverRun, Ran

LEMMA ClaimTruth ==
  ASSUME TruthInv, NEW w \in Workers, NEW t \in Tasks, Claim(w, t) \/ ClaimUnheard(w, t)
  PROVE  Truth'
<1>t. /\ tasks \in [Tasks -> Document] /\ workers \in [Workers -> WorkerState]
      /\ workers[w].at \in Nat /\ nextClaim \in Nat
  BY DEF TruthInv, OnceInv, Inv, TypeOK, WorkerState
<1>1. /\ tasks[t].status \in Unfinished /\ runs' = runs
      /\ \A u \in Tasks : tasks'[u].status = IF u = t THEN "running" ELSE tasks[u].status
  <2>1. ClaimedTask(tasks[t], nextClaim, workers[w].at).status = "running"
    BY <1>t, WritesKeepTaken
  <2> QED
    BY <1>t, <2>1 DEF Claim, ClaimUnheard, NextDue, Claimable
<1>2. CASE ClaimUnheard(w, t)
  <2>1. \A v \in Workers : workers'[v] = workers[v] \/ workers'[v] = Idle
    BY <1>t, <1>2 DEF ClaimUnheard
  <2> QED
    BY <1>1, <2>1, QuietTruth DEF Untaken, NeverRun, Ran
<1>3. CASE Claim(w, t)
  <2>1. /\ workers' = [workers EXCEPT ![w] = AfterClaim(w, t)]
    BY <1>3 DEF Claim
  <2>2. /\ AfterClaim(w, t).uid = t
        /\ AfterClaim(w, t).step = StepAfterClaim(tasks[t], workers[w].at)
        /\ AfterClaim(w, t).outcome = IF AfterClaim(w, t).step = "outdating" THEN "outdated" ELSE "failed"
    BY DEF AfterClaim
  <2>3. /\ AfterClaim(w, t).step \in {"claimed", "outdating", "writingOff"}
        /\ AfterClaim(w, t).step # "writingOff" => tasks[t].status # "running"
    BY <2>2 DEF StepAfterClaim
  <2>4. tasks[t].status # "running" => runs[t] = 0 /\ \A v \in Workers : ~HasPermit(v, t)
    BY <1>1 DEF Unfinished, NeverRun, TruthInv, Truth, TruthOf
  <2>5. \A v \in Workers, u \in Tasks :
          HasPermit(v, u)' => HasPermit(v, u) \/ (v = w /\ u = t /\ AfterClaim(w, t).step = "claimed")
    BY <1>t, <2>1, <2>2 DEF HasPermit
  <2>6. ASSUME NEW v \in Workers, v # w PROVE Truthful(v)'
    <3>1. workers'[v] = workers[v]
      BY <1>t, <2>1, <2>6
    <3>2. Truthful(v) /\ (workers[v].step = "outdating" => workers[v].uid \in Tasks)
      BY DEF TruthInv, Truth, OnceInv, Inv, BusyHasTask, Busy
    <3>3. workers[v].step = "outdating" =>
            (workers[v].uid = t => tasks[t].status = "running") /\ ~Untaken(workers[v].uid)'
      BY <1>1, <3>1, <3>2 DEF Truthful, Untaken, Unfinished
    <3> QED
      BY <1>1, <2>3, <2>5, <3>1, <3>2, <3>3 DEF Truthful
  <2>7. Truthful(w)'
    <3>1. workers'[w] = AfterClaim(w, t)
      BY <1>t, <2>1
    <3> QED
      BY <1>1, <2>2, <2>3, <2>4, <2>5, <3>1 DEF Truthful, Untaken
  <2>8. ASSUME NEW u \in Tasks PROVE TruthOf(u)'
    BY <1>1, <2>5 DEF TruthOf, Ran, NeverRun, TruthInv, Truth
  <2> QED
    BY <2>6, <2>7, <2>8 DEF Truth
<1> QED
  BY <1>2, <1>3

LEMMA StartTruth ==
  ASSUME TruthInv, NEW w \in Workers, Start(w)
  PROVE  Truth'
<1>t. /\ workers \in [Workers -> WorkerState] /\ runs \in [Tasks -> Nat]
  BY DEF TruthInv, OnceInv, Inv, TypeOK
<1> DEFINE t == workers[w].uid
<1>1. t \in Tasks /\ HasPermit(w, t)
  BY DEF Start, TruthInv, OnceInv, Inv, BusyHasTask, Busy, HasPermit
<1>2. runs[t] = 0
  BY <1>1 DEF TruthInv, OnceInv, OncePermit
<1>3. /\ tasks' = tasks /\ runs' = [runs EXCEPT ![t] = runs[t] + 1]
      /\ workers' = [workers EXCEPT ![w].step = "running"]
  BY DEF Start
<1>4. \A u \in Tasks : runs'[u] = IF u = t THEN 1 ELSE runs[u]
  BY <1>t, <1>1, <1>2, <1>3
<1>5. /\ workers'[w].step = "running" /\ workers'[w].uid = t
      /\ \A v \in Workers \ {w} : workers'[v] = workers[v]
  BY <1>t, <1>3 DEF WorkerState
<1>6. \A v \in Workers, u \in Tasks : HasPermit(v, u)' => HasPermit(v, u)
  BY <1>5 DEF HasPermit
<1> HIDE DEF t
<1>7. ASSUME NEW v \in Workers, v # w PROVE Truthful(v)'
  <2>1. workers'[v] = workers[v] /\ Truthful(v)
    BY <1>5, <1>7 DEF TruthInv, Truth
  <2>2. workers[v].step \in Busy => workers[v].uid \in Tasks
    BY DEF TruthInv, OnceInv, Inv, BusyHasTask
  <2>3. workers[v].step = "outdating" => workers[v].uid # t
    BY <1>1, <2>1 DEF Truthful
  <2>4. workers[v].step \in Busy => runs'[workers[v].uid] \in {runs[workers[v].uid], 1}
    BY <1>4, <2>2
  <2>5. workers[v].step = "outdating" => runs'[workers[v].uid] = 0
    BY <1>4, <2>1, <2>2, <2>3 DEF Busy, Truthful
  <2>6. workers[v].step \in {"running", "recording"} => runs'[workers[v].uid] = 1
    BY <2>1, <2>4 DEF Busy, Truthful
  <2>7. workers[v].step = "outdating" =>
          ~Untaken(workers[v].uid)' /\ \A x \in Workers : ~HasPermit(x, workers[v].uid)'
    BY <1>3, <1>6, <2>1, <2>2 DEF Busy, Truthful, Untaken
  <2> QED
    BY <2>1, <2>5, <2>6, <2>7 DEF Truthful
<1>8. Truthful(w)'
  BY <1>1, <1>4, <1>5 DEF Truthful
<1>9. ASSUME NEW u \in Tasks PROVE TruthOf(u)'
  BY <1>1, <1>3, <1>4, <1>6 DEF TruthOf, TruthInv, Truth
<1> QED
  BY <1>7, <1>8, <1>9 DEF Truth

\* The other steps of work() change one worker, who gets no permit.
LEMMA OwnStepTruth ==
  ASSUME TruthInv, NEW w \in Workers,
         tasks' = tasks, runs' = runs, \A v \in Workers \ {w} : workers'[v] = workers[v],
         workers'[w].step # "claimed", Truthful(w)'
  PROVE  Truth'
<1>1. \A v \in Workers, u \in Tasks : HasPermit(v, u)' => HasPermit(v, u)
  BY DEF HasPermit
<1>2. ASSUME NEW v \in Workers, v # w PROVE Truthful(v)'
  <2>1. workers'[v] = workers[v] /\ Truthful(v)
    BY <1>2 DEF TruthInv, Truth
  <2>2. workers[v].step = "outdating" => workers[v].uid \in Tasks
    BY DEF TruthInv, OnceInv, Inv, BusyHasTask, Busy
  <2> QED
    BY <1>1, <2>1, <2>2 DEF Truthful, Untaken
<1>3. ASSUME NEW u \in Tasks PROVE TruthOf(u)'
  BY <1>1 DEF TruthOf, TruthInv, Truth
<1> QED
  BY <1>2, <1>3 DEF Truth

LEMMA RecordTruth ==
  ASSUME TruthInv, NEW w \in Workers, Record(w)
  PROVE  Truth'
<1>t. /\ tasks \in [Tasks -> Document] /\ workers \in [Workers -> WorkerState]
      /\ workers[w] \in WorkerState
  BY DEF TruthInv, OnceInv, Inv, TypeOK
<1> DEFINE t == workers[w].uid
           doc == Recorded(tasks[t], workers[w])
<1>1. /\ t \in Tasks
      /\ workers[w].step \in {"recording", "outdating", "writingOff"}
      /\ tasks' = IF MayRecord(tasks[t], workers[w].claimId) THEN [tasks EXCEPT ![t] = doc] ELSE tasks
      /\ workers' = [workers EXCEPT ![w] = Idle] /\ runs' = runs
  BY DEF Record, TruthInv, OnceInv, Inv, BusyHasTask, Busy
<1>2. \A v \in Workers : workers'[v] = workers[v] \/ workers'[v] = Idle
  BY <1>t, <1>1
<1>3. CASE ~MayRecord(tasks[t], workers[w].claimId)
  BY <1>1, <1>2, <1>3, QuietTruth DEF Untaken
<1>4. CASE MayRecord(tasks[t], workers[w].claimId)
  <2>1. doc.status = workers[w].outcome /\ workers[w].outcome \in Final
    BY <1>t, <1>1, WritesKeepTaken DEF WorkerState
  <2>2. tasks[t].status = "running"
    BY <1>4 DEF MayRecord
  <2>3. /\ Truthful(w)
    BY DEF TruthInv, Truth
  <2>4. \/ workers[w].outcome \in Ran /\ runs[t] = 1
        \/ workers[w].outcome = "failed"
        \/ workers[w].outcome = "outdated" /\ runs[t] = 0 /\ \A v \in Workers : ~HasPermit(v, t)
    BY <1>1, <2>3 DEF Truthful, Ran
  <2> HIDE DEF doc, t
  <2>5. \A u \in Tasks : tasks'[u].status = IF u = t THEN workers[w].outcome ELSE tasks[u].status
    BY <1>t, <1>1, <1>4, <2>1
  <2>6. \A v \in Workers, u \in Tasks : HasPermit(v, u)' => HasPermit(v, u)
    BY <1>2 DEF HasPermit, Idle
  <2>7. \A u \in Tasks : Untaken(u)' => Untaken(u)
    BY <2>4, <2>5 DEF Untaken, Ran
  <2>8. ASSUME NEW v \in Workers PROVE Truthful(v)'
    <3>1. CASE workers'[v] = Idle
      BY <3>1 DEF Truthful, Idle
    <3>2. CASE workers'[v] = workers[v]
      <4>1. Truthful(v) /\ (workers[v].step = "outdating" => workers[v].uid \in Tasks)
        BY DEF TruthInv, Truth, OnceInv, Inv, BusyHasTask, Busy
      <4> QED
        BY <1>1, <2>6, <2>7, <3>2, <4>1 DEF Truthful
    <3> QED
      BY <1>2, <3>1, <3>2
  <2>9. ASSUME NEW u \in Tasks PROVE TruthOf(u)'
    <3>1. TruthOf(u)
      BY DEF TruthInv, Truth
    <3> QED
      BY <1>1, <2>4, <2>5, <2>6, <3>1 DEF TruthOf, Ran, NeverRun
  <2> QED
    BY <2>8, <2>9 DEF Truth
<1> QED
  BY <1>3, <1>4

LEMMA WorkTruth ==
  ASSUME TruthInv, NEW w \in Workers, Work(w) \/ WorkFails(w)
  PROVE  Truth'
<1>t. /\ workers \in [Workers -> WorkerState] /\ Inv
      /\ Truthful(w)
  BY DEF TruthInv, OnceInv, Inv, TypeOK, Truth
<1>o. \A v \in Workers \ {w} : workers'[v] = workers[v]
  BY <1>t, OthersStay
<1>1. CASE ReadClock(w)
  <2>1. tasks' = tasks /\ runs' = runs /\ workers'[w].step = "reading"
    BY <1>t, <1>1 DEF ReadClock, WorkerState
  <2> QED
    BY <1>o, <2>1, OwnStepTruth DEF Truthful
<1>2. CASE \E t \in Tasks : Claim(w, t) \/ ClaimUnheard(w, t)
  BY <1>2, ClaimTruth
<1>3. CASE FindNothing(w) \/ LeaveUnrecorded(w)
  <2>1. tasks' = tasks /\ runs' = runs /\ workers'[w].step = "idle"
    BY <1>t, <1>3 DEF FindNothing, LeaveUnrecorded, Idle
  <2> QED
    BY <1>o, <2>1, OwnStepTruth DEF Truthful
<1>4. CASE Start(w)
  BY <1>4, StartTruth
<1>5. ASSUME NEW outcome \in {"done", "failed", "timeout"}, EndCall(w, outcome)
      PROVE  Truth'
  <2>1. /\ tasks' = tasks /\ runs' = runs /\ workers[w].step = "running"
        /\ workers'[w].step = "recording" /\ workers'[w].uid = workers[w].uid
        /\ workers'[w].outcome = outcome
    BY <1>t, <1>5 DEF EndCall, WorkerState
  <2> QED
    BY <1>t, <1>o, <2>1, OwnStepTruth DEF Truthful
<1>6. CASE Record(w)
  BY <1>6, RecordTruth
<1> QED
  BY <1>1, <1>2, <1>3, <1>4, <1>5, <1>6 DEF Work, WorkFails

LEMMA NextTruth == TruthInv /\ [Next]_vars => Truth'
<1> SUFFICES ASSUME TruthInv, [Next]_vars PROVE Truth'
  OBVIOUS
<1>1. CASE Tick \/ UNCHANGED vars \/ \E p \in Processes : Crash(p) \/ Restart(p)
  <2>1. Inv
    BY DEF TruthInv, OnceInv
  <2>2. runs' = runs /\ \A w \in Workers : workers'[w] = workers[w] \/ workers'[w] = Idle
    BY <1>1, <2>1, QuietSteps
  <2>3. tasks' = tasks
    BY <1>1 DEF Tick, vars, Crash, Restart
  <2> QED
    BY <2>2, <2>3, QuietTruth DEF Untaken
<1> QED
  BY <1>1, ScheduleTruth, WorkTruth, RenewTruth, ManageTruth DEF Next

LEMMA TruthInvariant == Spec => []TruthInv
<1>1. Init => TruthInv
  <2>1. Init => OnceInv
    BY InitOnce
  <2>2. Init => Truth
    BY DEF Init, Truth, Truthful, TruthOf, HasPermit, Idle, Absent, Ran
  <2> QED
    BY <2>1, <2>2 DEF TruthInv
<1>2. TruthInv /\ [Next]_vars => TruthInv'
  BY NextOnce, NextTruth DEF TruthInv
<1> QED
  BY <1>1, <1>2, PTL DEF Spec

\* What a task says became of its call is what became of it: "done" and "timeout" only of
\* one that was started, "outdated" and "incompatible" only of one that never was and
\* never will be.
THEOREM OutcomesAreTrue == Spec => []OutcomeFitsRuns
<1>1. TruthInv => OutcomeFitsRuns
  BY DEF TruthInv, Truth, TruthOf, Ran, NeverRun, OutcomeFitsRuns
<1> QED
  BY <1>1, TruthInvariant, PTL

-----------------------------------------------------------------------------
(* One unfinished task per key                                             *)

KeyFits(doc) == doc.activeKey = IF doc.status \in Unfinished THEN doc.key ELSE NoKey

\* What a step makes of a document that was there: it keeps its key, or frees it.
KeepsKey(doc, new) == KeyFits(new) /\ new.activeKey \in {doc.activeKey, NoKey}

KeyInv == Inv /\ OneTaskPerKey

LEMMA WritesKeepKeys ==
  ASSUME NEW doc \in Document, KeyFits(doc)
  PROVE  /\ KeepsKey(doc, doc) /\ KeepsKey(doc, Deleted)
         /\ doc.status = "pending" => \A d \in Nat : KeepsKey(doc, MovedUp(doc, d))
         /\ doc.status \in Unfinished =>
              \A id \in Nat, at \in Nat : KeepsKey(doc, ClaimedTask(doc, id, at))
         /\ \A at \in Nat : KeepsKey(doc, Renewed(doc, at, LeaseTime))
         /\ \A status \in Final, at \in Nat : KeepsKey(doc, Finish(doc, status, at))
         /\ \A status \in Final, at \in Nat : KeepsKey(doc, LetGo(Finish(doc, status, at)))
         /\ KeepsKey(doc, CanceledTask(doc))
         /\ \A ws \in WorkerState : KeepsKey(doc, Recorded(doc, ws))
<1> USE DEF KeepsKey, KeyFits
<1>1. KeepsKey(doc, doc) /\ KeepsKey(doc, Deleted)
  BY DEF Deleted, Absent, Unfinished
<1>2. doc.status = "pending" => \A d \in Nat : KeepsKey(doc, MovedUp(doc, d))
  BY DEF MovedUp, Document
<1>3. doc.status \in Unfinished =>
        \A id \in Nat, at \in Nat : KeepsKey(doc, ClaimedTask(doc, id, at))
  BY DEF ClaimedTask, Claimed, Document, Unfinished
<1>4. \A at \in Nat : KeepsKey(doc, Renewed(doc, at, LeaseTime))
  BY DEF Renewed, Document
<1>5. \A status \in Final, at \in Nat : KeepsKey(doc, Finish(doc, status, at))
  BY DEF Finish, Document, Final, Unfinished
<1>6. \A status \in Final, at \in Nat : KeepsKey(doc, LetGo(Finish(doc, status, at)))
  BY DEF Finish, LetGo, Document, Final, Unfinished
<1>7. KeepsKey(doc, CanceledTask(doc))
  BY DEF CanceledTask, Canceled, LetGo, Document, Unfinished
<1>8. ASSUME NEW ws \in WorkerState PROVE KeepsKey(doc, Recorded(doc, ws))
  <2>1. ws.outcome \in Final /\ ws.outcome \notin Unfinished
    BY DEF WorkerState, Final, Unfinished
  <2>2. Recorded(doc, ws).activeKey = NoKey /\ Recorded(doc, ws).status = ws.outcome
    BY DEF Recorded, LetGo, Finish, Document
  <2> QED
    BY <2>1, <2>2
<1> QED
  BY <1>1, <1>2, <1>3, <1>4, <1>5, <1>6, <1>7, <1>8

LEMMA KeptKeys ==
  ASSUME OneTaskPerKey, \A t \in Tasks : KeepsKey(tasks[t], tasks'[t])
  PROVE  OneTaskPerKey'
BY DEF OneTaskPerKey, KeepsKey, KeyFits

LEMMA KeyInvFacts ==
  ASSUME KeyInv
  PROVE  /\ tasks \in [Tasks -> Document] /\ workers \in [Workers -> WorkerState]
         /\ now \in Nat /\ nextClaim \in Nat
         /\ \A t \in Tasks : KeyFits(tasks[t])
         /\ tasks' = tasks => \A t \in Tasks : KeepsKey(tasks[t], tasks'[t])
<1>1. \A t \in Tasks : KeyFits(tasks[t])
  BY DEF KeyInv, OneTaskPerKey, KeyFits
<1> QED
  BY <1>1 DEF KeyInv, Inv, TypeOK, KeepsKey

LEMMA InsertKeys ==
  ASSUME KeyInv, NEW t \in Tasks, NEW f \in Names, NEW d \in Deadlines,
         NEW k \in Keys \cup {NoKey}, Insert(t, f, d, k)
  PROVE  OneTaskPerKey'
<1>1. tasks \in [Tasks -> Document]
  BY KeyInvFacts
<1> DEFINE doc == NewTask(f, d, k)
<1>2. doc.status \in Unfinished /\ doc.key = k /\ doc.activeKey = k
  BY DEF NewTask, Absent, Unfinished
<1> HIDE DEF doc
<1>3. tasks' = [tasks EXCEPT ![t] = doc] /\ (k = NoKey \/ \A u \in Tasks : tasks[u].activeKey # k)
  BY DEF Insert, KeyFree, doc
<1> QED
  BY <1>1, <1>2, <1>3 DEF KeyInv, OneTaskPerKey

LEMMA MoveUpKeys ==
  ASSUME KeyInv, NEW t \in Tasks, NEW d \in Deadlines, MoveUp(t, d)
  PROVE  \A u \in Tasks : KeepsKey(tasks[u], tasks'[u])
<1>1. /\ tasks \in [Tasks -> Document] /\ \A u \in Tasks : KeyFits(tasks[u])
      /\ tasks[t].status = "pending" /\ d \in Nat
  BY KeyInvFacts, TimesAssumption DEF MoveUp, Sooner
<1>2. \A u \in Tasks : tasks'[u] = IF u = t THEN MovedUp(tasks[t], d) ELSE tasks[u]
  BY <1>1 DEF MoveUp
<1> QED
  BY <1>1, <1>2, WritesKeepKeys

LEMMA WorkKeys ==
  ASSUME KeyInv, NEW w \in Workers, Work(w) \/ WorkFails(w)
  PROVE  \A u \in Tasks : KeepsKey(tasks[u], tasks'[u])
<1>t. /\ tasks \in [Tasks -> Document] /\ \A u \in Tasks : KeyFits(tasks[u])
      /\ workers[w] \in WorkerState /\ workers[w].at \in Nat /\ nextClaim \in Nat
  BY KeyInvFacts DEF WorkerState
<1>1. ASSUME NEW t \in Tasks, Claim(w, t) \/ ClaimUnheard(w, t)
      PROVE  \A u \in Tasks : KeepsKey(tasks[u], tasks'[u])
  <2>1. /\ tasks[t].status \in Unfinished
        /\ tasks' = [tasks EXCEPT ![t] = ClaimedTask(tasks[t], nextClaim, workers[w].at)]
    BY <1>1 DEF Claim, ClaimUnheard, NextDue, Claimable
  <2>2. KeepsKey(tasks[t], ClaimedTask(tasks[t], nextClaim, workers[w].at))
    BY <1>t, <2>1, WritesKeepKeys
  <2>3. ASSUME NEW u \in Tasks, u # t PROVE KeepsKey(tasks[u], tasks'[u])
    <3>1. tasks'[u] = tasks[u]
      BY <1>t, <2>1, <2>3
    <3> QED
      BY <1>t, <3>1, WritesKeepKeys
  <2> QED
    BY <1>t, <2>1, <2>2, <2>3
<1>2. CASE Record(w)
  <2> DEFINE t == workers[w].uid
             doc == Recorded(tasks[t], workers[w])
  <2>1. t \in Tasks
    BY <1>2 DEF Record, KeyInv, Inv, BusyHasTask, Busy
  <2>2. KeepsKey(tasks[t], doc)
    BY <1>t, <2>1, WritesKeepKeys
  <2>3. tasks' = tasks \/ tasks' = [tasks EXCEPT ![t] = doc]
    BY <1>2 DEF Record
  <2> HIDE DEF doc, t
  <2>4. \A u \in Tasks : tasks'[u] = tasks[u] \/ (u = t /\ tasks'[u] = doc)
    BY <1>t, <2>3
  <2> QED
    BY <1>t, <2>2, <2>4, WritesKeepKeys
<1>3. \/ \E t \in Tasks : Claim(w, t) \/ ClaimUnheard(w, t)
      \/ Record(w)
      \/ tasks' = tasks
  BY DEF Work, WorkFails, ReadClock, FindNothing, Start, EndCall, LeaveUnrecorded
<1> QED
  BY <1>1, <1>2, <1>3, KeyInvFacts

LEMMA RenewKeys ==
  ASSUME KeyInv, NEW p \in Processes, WriteRenewal(p)
  PROVE  \A u \in Tasks : KeepsKey(tasks[u], tasks'[u])
<1>t. /\ tasks \in [Tasks -> Document] /\ \A u \in Tasks : KeyFits(tasks[u])
      /\ now \in Nat /\ renewal[p].at \in Nat
  BY KeyInvFacts DEF KeyInv, Inv, TypeOK
<1>1. PICK at \in renewal[p].at .. now : tasks' = RenewHeld(tasks, renewal[p].claims, at, LeaseTime)
  BY DEF WriteRenewal
<1>2. at \in Nat
  BY <1>t, <1>1
<1>3. \A u \in Tasks : tasks'[u] = tasks[u] \/ tasks'[u] = Renewed(tasks[u], at, LeaseTime)
  BY <1>t, <1>1 DEF RenewHeld
<1> QED
  BY <1>t, <1>2, <1>3, WritesKeepKeys

LEMMA ManageKeys ==
  ASSUME KeyInv, Manage
  PROVE  \A u \in Tasks : KeepsKey(tasks[u], tasks'[u])
<1>t. /\ \A u \in Tasks : tasks[u] \in Document /\ KeyFits(tasks[u])
      /\ now \in Nat
  BY KeyInvFacts
<1>1. ASSUME NEW u \in Tasks
      PROVE  /\ KeepsKey(tasks[u], tasks[u]) /\ KeepsKey(tasks[u], Deleted)
             /\ KeepsKey(tasks[u], CanceledTask(tasks[u]))
             /\ KeepsKey(tasks[u], Finish(tasks[u], "incompatible", now))
             /\ KeepsKey(tasks[u], LetGo(Finish(tasks[u], "failed", now)))
  <2>1. "failed" \in Final /\ "incompatible" \in Final
    BY DEF Final
  <2> QED
    BY <1>t, <2>1, WritesKeepKeys
<1>2. ASSUME NEW u \in Tasks
      PROVE  tasks'[u] \in {tasks[u], Deleted, CanceledTask(tasks[u]),
                            Finish(tasks[u], "incompatible", now),
                            LetGo(Finish(tasks[u], "failed", now))}
  BY DEF Manage, Cancel, Purge, FlagIncompatible, WriteOffStuck
<1> QED
  BY <1>1, <1>2

LEMMA NextKeys == KeyInv /\ [Next]_vars => OneTaskPerKey'
<1> SUFFICES ASSUME KeyInv, [Next]_vars PROVE OneTaskPerKey'
  OBVIOUS
<1>1. CASE \E t \in Tasks, f \in Names, d \in Deadlines, k \in Keys \cup {NoKey} :
             Insert(t, f, d, k)
  BY <1>1, InsertKeys
<1>2. CASE \E t \in Tasks, d \in Deadlines : MoveUp(t, d)
  BY <1>2, MoveUpKeys, KeptKeys DEF KeyInv
<1>3. CASE \E w \in Workers : Work(w) \/ WorkFails(w)
  BY <1>3, WorkKeys, KeptKeys DEF KeyInv
<1>4. CASE \E p \in Processes : WriteRenewal(p)
  BY <1>4, RenewKeys, KeptKeys DEF KeyInv
<1>5. CASE Manage
  BY <1>5, ManageKeys, KeptKeys DEF KeyInv
<1>6. CASE tasks' = tasks
  BY <1>6, KeyInvFacts, KeptKeys DEF KeyInv
<1> QED
  BY <1>1, <1>2, <1>3, <1>4, <1>5, <1>6
     DEF Next, Schedule, Renew, BeginRenewal, FailRenewal, Tick, Crash, Restart, vars

\* A key names one unfinished task at most, and is free as soon as its task ended, however
\* it ended: done, failed, written off, outdated, canceled, flagged or purged.
THEOREM KeysNameOneTask == Spec => []OneTaskPerKey
<1>1. Init => OneTaskPerKey
  BY DEF Init, OneTaskPerKey, Absent, Unfinished
<1>2. KeyInv /\ [Next]_vars => KeyInv'
  BY NextKeys, NextInv DEF KeyInv
<1>3. Spec => []KeyInv
  BY <1>1, <1>2, InitInv, PTL DEF Spec, KeyInv
<1>4. KeyInv => OneTaskPerKey
  BY DEF KeyInv
<1> QED
  BY <1>3, <1>4, PTL

-----------------------------------------------------------------------------
(* The engine implements WorkOnce                                          *)

\* A step of the promise, or none.
Kept == [Promise!Next]_(Promise!vars)

SameStage(t) == StageOf(tasks'[t]) = StageOf(tasks[t])

SamePermit(t) == PermitOf(t)' = PermitOf(t)

LEMMA StageIs ==
  ASSUME NEW doc
  PROVE  /\ doc.status = "absent" => StageOf(doc) = "none"
         /\ doc.status = "pending" => StageOf(doc) = "waiting"
         /\ doc.status = "running" => StageOf(doc) = "taken"
         /\ doc.status = "purged" => StageOf(doc) = "gone"
         /\ doc.status \in Final => StageOf(doc) = "ended"
BY DEF StageOf, Final

LEMMA SameStatusSameStage ==
  ASSUME NEW doc, NEW new, new.status = doc.status
  PROVE  StageOf(new) = StageOf(doc)
BY DEF StageOf

LEMMA PermitIs ==
  \A t \in Tasks :
    /\ (\E w \in Workers : HasPermit(w, t)) => PermitOf(t) = "given"
    /\ (\A w \in Workers : ~HasPermit(w, t)) =>
         PermitOf(t) = IF runs[t] > 0 THEN "spent" ELSE "none"
BY DEF PermitOf, HasPermit

LEMMA SamePermits ==
  ASSUME runs' = runs, \A w \in Workers, t \in Tasks : HasPermit(w, t)' <=> HasPermit(w, t)
  PROVE  \A t \in Tasks : SamePermit(t)
BY DEF SamePermit, PermitOf, HasPermit

\* Each step of the promise, from what it makes of each task.
LEMMA Stutter ==
  ASSUME \A t \in Tasks : SameStage(t) /\ SamePermit(t), runs' = runs
  PROVE  Kept
BY DEF Kept, SameStage, SamePermit, Promise!vars

LEMMA MapSchedule ==
  ASSUME NEW t \in Tasks, StageOf(tasks[t]) = "none", StageOf(tasks'[t]) = "waiting",
         \A u \in Tasks \ {t} : SameStage(u), \A u \in Tasks : SamePermit(u), runs' = runs
  PROVE  Kept
<1>1. Promise!Schedule(t)
  BY DEF Promise!Schedule, SameStage, SamePermit
<1> QED
  BY <1>1 DEF Kept, Promise!Next

LEMMA MapTake ==
  ASSUME NEW t \in Tasks, StageOf(tasks[t]) = "waiting", StageOf(tasks'[t]) = "taken",
         \A u \in Tasks \ {t} : SameStage(u) /\ SamePermit(u),
         PermitOf(t)' \in {PermitOf(t), "given"}, runs' = runs
  PROVE  Kept
<1>1. Promise!Take(t)
  BY DEF Promise!Take, SameStage, SamePermit
<1> QED
  BY <1>1 DEF Kept, Promise!Next

LEMMA MapStart ==
  ASSUME NEW t \in Tasks, PermitOf(t) = "given", PermitOf(t)' = "spent",
         \A u \in Tasks : SameStage(u), \A u \in Tasks \ {t} : SamePermit(u),
         runs \in [Tasks -> Nat], runs' = [runs EXCEPT ![t] = runs[t] + 1]
  PROVE  Kept
<1>1. Promise!Start(t)
  BY DEF Promise!Start, SameStage, SamePermit
<1> QED
  BY <1>1 DEF Kept, Promise!Next

LEMMA MapLose ==
  ASSUME NEW some \in SUBSET Tasks,
         \A t \in some : PermitOf(t) = "given" /\ PermitOf(t)' = "none",
         \A t \in Tasks : SameStage(t), \A t \in Tasks \ some : SamePermit(t), runs' = runs
  PROVE  Kept
<1>1. Promise!Lose(some)
  BY DEF Promise!Lose, SameStage, SamePermit
<1> QED
  BY <1>1 DEF Kept, Promise!Next

LEMMA MapEnd ==
  ASSUME NEW some \in SUBSET Tasks,
         \A t \in some : StageOf(tasks[t]) \in {"waiting", "taken"} /\ StageOf(tasks'[t]) = "ended",
         \A t \in Tasks \ some : SameStage(t), \A t \in Tasks : SamePermit(t), runs' = runs
  PROVE  Kept
<1>1. Promise!End(some)
  BY DEF Promise!End, SameStage, SamePermit
<1> QED
  BY <1>1 DEF Kept, Promise!Next

LEMMA MapDelete ==
  ASSUME NEW some \in SUBSET Tasks,
         \A t \in some : StageOf(tasks[t]) = "ended" /\ StageOf(tasks'[t]) = "gone",
         \A t \in Tasks \ some : SameStage(t), \A t \in Tasks : SamePermit(t), runs' = runs
  PROVE  Kept
<1>1. Promise!Delete(some)
  BY DEF Promise!Delete, SameStage, SamePermit
<1> QED
  BY <1>1 DEF Kept, Promise!Next

\* The engine's steps, one by one.
LEMMA ScheduleMaps ==
  ASSUME OnceInv, Schedule
  PROVE  Kept
<1>t. tasks \in [Tasks -> Document]
  BY DEF OnceInv, Inv, TypeOK
<1>q. runs' = runs /\ \A t \in Tasks : SamePermit(t)
  <2>1. runs' = runs /\ workers' = workers
    BY DEF Schedule, Insert, MoveUp
  <2> QED
    BY <2>1, SamePermits DEF HasPermit
<1>1. ASSUME NEW t \in Tasks, NEW f \in Names, NEW d \in Deadlines,
             NEW k \in Keys \cup {NoKey}, Insert(t, f, d, k)
      PROVE  Kept
  <2>1. NewTask(f, d, k).status = "pending" /\ tasks[t].status = "absent"
    BY <1>1 DEF NewTask, Absent, Insert
  <2>2. tasks'[t] = NewTask(f, d, k) /\ \A u \in Tasks \ {t} : tasks'[u] = tasks[u]
    BY <1>t, <1>1 DEF Insert
  <2>3. StageOf(tasks[t]) = "none" /\ StageOf(tasks'[t]) = "waiting"
    BY <2>1, <2>2, StageIs
  <2> QED
    BY <1>q, <2>2, <2>3, MapSchedule DEF SameStage
<1>2. ASSUME NEW t \in Tasks, NEW d \in Deadlines, MoveUp(t, d)
      PROVE  Kept
  <2>1. \A u \in Tasks : tasks'[u].status = tasks[u].status
    BY <1>t, <1>2 DEF MoveUp, MovedUp, Document
  <2> QED
    BY <1>q, <2>1, SameStatusSameStage, Stutter DEF SameStage
<1> QED
  BY <1>1, <1>2 DEF Schedule

\* The claim of a waiting task takes it, and gives the permit if its call is to start;
\* the claim of an abandoned one is nothing the promise knows of.
LEMMA ClaimMaps ==
  ASSUME OnceInv, NEW w \in Workers, NEW t \in Tasks, Claim(w, t) \/ ClaimUnheard(w, t)
  PROVE  Kept
<1>t. /\ tasks \in [Tasks -> Document] /\ workers \in [Workers -> WorkerState]
      /\ workers[w].at \in Nat /\ nextClaim \in Nat
  BY DEF OnceInv, Inv, TypeOK, WorkerState
<1>1. /\ tasks[t].status \in {"pending", "running"} /\ runs' = runs
      /\ workers[w].step = "reading"
      /\ tasks'[t].status = "running"
      /\ \A u \in Tasks \ {t} : tasks'[u] = tasks[u]
      /\ \A v \in Workers \ {w} : workers'[v] = workers[v]
  <2>1. ClaimedTask(tasks[t], nextClaim, workers[w].at).status = "running"
    BY <1>t, WritesKeepTaken
  <2> QED
    BY <1>t, <2>1 DEF Claim, ClaimUnheard, NextDue, Claimable, Unfinished
<1>2. \/ workers'[w].step # "claimed"
      \/ workers'[w].step = "claimed" /\ workers'[w].uid = t /\ tasks[t].status # "running"
  <2>1. CASE Claim(w, t)
    BY <1>t, <2>1 DEF Claim, AfterClaim, StepAfterClaim
  <2>2. CASE ClaimUnheard(w, t)
    BY <1>t, <2>2 DEF ClaimUnheard, Idle
  <2> QED
    BY <2>1, <2>2
<1>3. \A u \in Tasks \ {t} : SameStage(u) /\ SamePermit(u)
  BY <1>1, <1>2 DEF SameStage, SamePermit, PermitOf
<1>4. CASE workers'[w].step # "claimed"
  <2>1. SamePermit(t)
    BY <1>1, <1>4 DEF SamePermit, PermitOf
  <2>2. CASE tasks[t].status = "running"
    <3>1. SameStage(t)
      BY <1>1, <2>2, SameStatusSameStage DEF SameStage
    <3> QED
      BY <1>1, <1>3, <2>1, <3>1, Stutter
  <2>3. CASE tasks[t].status = "pending"
    <3>1. StageOf(tasks[t]) = "waiting" /\ StageOf(tasks'[t]) = "taken"
      BY <1>1, <2>3, StageIs
    <3> QED
      BY <1>1, <1>3, <2>1, <3>1, MapTake DEF SamePermit
  <2> QED
    BY <1>1, <2>2, <2>3
<1>5. CASE workers'[w].step = "claimed" /\ workers'[w].uid = t /\ tasks[t].status = "pending"
  <2>1. PermitOf(t)' = "given"
    BY <1>5 DEF PermitOf
  <2>2. StageOf(tasks[t]) = "waiting" /\ StageOf(tasks'[t]) = "taken"
    BY <1>1, <1>5, StageIs
  <2> QED
    BY <1>1, <1>3, <2>1, <2>2, MapTake
<1> QED
  BY <1>1, <1>2, <1>4, <1>5

LEMMA StartMaps ==
  ASSUME OnceInv, NEW w \in Workers, Start(w)
  PROVE  Kept
<1>t. workers \in [Workers -> WorkerState] /\ runs \in [Tasks -> Nat]
  BY DEF OnceInv, Inv, TypeOK
<1>0. PICK t \in Tasks : t = workers[w].uid
  BY DEF Start, OnceInv, Inv, BusyHasTask, Busy
<1>1. HasPermit(w, t)
  BY <1>0 DEF Start, HasPermit
<1>2. runs[t] = 0 /\ \A v \in Workers : HasPermit(v, t) => v = w
  BY <1>1 DEF OnceInv, OncePermit
<1>3. /\ tasks' = tasks /\ runs' = [runs EXCEPT ![t] = runs[t] + 1]
      /\ workers'[w].step = "running"
      /\ \A v \in Workers \ {w} : workers'[v] = workers[v]
  BY <1>t, <1>0 DEF Start, WorkerState
<1>4. PermitOf(t) = "given"
  BY <1>1, PermitIs
<1>5. PermitOf(t)' = "spent"
  <2>1. \A v \in Workers : ~(workers'[v].step = "claimed" /\ workers'[v].uid = t)
    BY <1>2, <1>3 DEF HasPermit
  <2>2. runs'[t] > 0
    BY <1>t, <1>1, <1>2, <1>3
  <2> QED
    BY <1>1, <2>1, <2>2 DEF PermitOf
<1>6. ASSUME NEW u \in Tasks, u # t PROVE SamePermit(u)
  <2>1. runs'[u] = runs[u]
    BY <1>t, <1>3, <1>6
  <2>2. \A v \in Workers :
          (workers'[v].step = "claimed" /\ workers'[v].uid = u)
            <=> (workers[v].step = "claimed" /\ workers[v].uid = u)
    BY <1>1, <1>3, <1>6 DEF HasPermit
  <2> QED
    BY <2>1, <2>2 DEF SamePermit, PermitOf
<1> QED
  BY <1>t, <1>1, <1>3, <1>4, <1>5, <1>6, MapStart DEF SameStage

\* Permits go down with the workers that held them.
LEMMA LosesMap ==
  ASSUME OnceInv, tasks' = tasks, runs' = runs,
         \A w \in Workers : workers'[w] = workers[w] \/ workers'[w] = Idle
  PROVE  Kept
<1> DEFINE some == {t \in Tasks : \E w \in Workers : HasPermit(w, t) /\ workers'[w] = Idle}
<1>1. Idle.step # "claimed"
  BY DEF Idle
<1>2. ASSUME NEW t \in some PROVE PermitOf(t) = "given" /\ PermitOf(t)' = "none"
  <2>1. PICK w \in Workers : HasPermit(w, t) /\ workers'[w] = Idle
    OBVIOUS
  <2>2. runs[t] = 0 /\ \A v \in Workers : HasPermit(v, t) => v = w
    BY <2>1 DEF OnceInv, OncePermit
  <2>3. \A v \in Workers : ~(workers'[v].step = "claimed" /\ workers'[v].uid = t)
    BY <1>1, <2>1, <2>2 DEF HasPermit
  <2>4. PermitOf(t)' = "none"
    BY <2>2, <2>3 DEF PermitOf
  <2> QED
    BY <2>1, <2>4, PermitIs
<1>3. ASSUME NEW t \in Tasks \ some PROVE SamePermit(t)
  <2>1. \A w \in Workers : HasPermit(w, t) => workers'[w] = workers[w]
    OBVIOUS
  <2>2. \A w \in Workers : HasPermit(w, t)' <=> HasPermit(w, t)
    BY <1>1, <2>1 DEF HasPermit
  <2> QED
    BY <2>2 DEF SamePermit, PermitOf, HasPermit
<1>4. some \in SUBSET Tasks
  OBVIOUS
<1> HIDE DEF some
<1> QED
  BY <1>2, <1>3, <1>4, MapLose DEF SameStage

LEMMA RecordMaps ==
  ASSUME OnceInv, NEW w \in Workers, Record(w)
  PROVE  Kept
<1>t. /\ tasks \in [Tasks -> Document] /\ workers \in [Workers -> WorkerState]
      /\ workers[w] \in WorkerState
  BY DEF OnceInv, Inv, TypeOK
<1> DEFINE t == workers[w].uid
           doc == Recorded(tasks[t], workers[w])
<1>1. /\ t \in Tasks
      /\ tasks' = IF MayRecord(tasks[t], workers[w].claimId) THEN [tasks EXCEPT ![t] = doc] ELSE tasks
      /\ workers[w].step # "claimed" /\ workers'[w] = Idle /\ runs' = runs
      /\ \A v \in Workers \ {w} : workers'[v] = workers[v]
  BY <1>t DEF Record, OnceInv, Inv, BusyHasTask, Busy
<1>2. \A u \in Tasks : SamePermit(u)
  <2>1. \A v \in Workers, u \in Tasks : HasPermit(v, u)' <=> HasPermit(v, u)
    BY <1>1 DEF HasPermit, Idle
  <2> QED
    BY <1>1, <2>1, SamePermits
<1>3. CASE MayRecord(tasks[t], workers[w].claimId)
  <2>1. doc.status \in Final
    BY <1>t, <1>1, WritesKeepTaken DEF WorkerState
  <2>2. StageOf(tasks[t]) = "taken" /\ StageOf(doc) = "ended"
    BY <1>3, <2>1, StageIs DEF MayRecord
  <2> HIDE DEF doc, t
  <2>3. tasks'[t] = doc /\ \A u \in Tasks \ {t} : tasks'[u] = tasks[u]
    BY <1>t, <1>1, <1>3
  <2> DEFINE some == {t}
  <2>4. /\ some \in SUBSET Tasks
        /\ \A u \in some : StageOf(tasks[u]) \in {"waiting", "taken"} /\ StageOf(tasks'[u]) = "ended"
        /\ \A u \in Tasks \ some : SameStage(u)
    BY <1>1, <2>2, <2>3 DEF SameStage
  <2> HIDE DEF some
  <2> QED
    BY <1>1, <1>2, <2>4, MapEnd
<1>4. CASE ~MayRecord(tasks[t], workers[w].claimId)
  BY <1>1, <1>2, <1>4, Stutter DEF SameStage
<1> QED
  BY <1>3, <1>4

LEMMA WorkMaps ==
  ASSUME OnceInv, NEW w \in Workers, Work(w) \/ WorkFails(w)
  PROVE  Kept
<1>t. workers \in [Workers -> WorkerState]
  BY DEF OnceInv, Inv, TypeOK
<1>1. ASSUME ReadClock(w) \/ \E outcome \in {"done", "failed", "timeout"} : EndCall(w, outcome)
      PROVE  Kept
  <2>1. /\ tasks' = tasks /\ runs' = runs
        /\ \A v \in Workers, u \in Tasks : HasPermit(v, u)' <=> HasPermit(v, u)
    BY <1>t, <1>1 DEF ReadClock, EndCall, HasPermit, WorkerState
  <2> QED
    BY <2>1, SamePermits, Stutter DEF SameStage
<1>2. CASE FindNothing(w) \/ LeaveUnrecorded(w)
  <2>1. /\ tasks' = tasks /\ runs' = runs
        /\ \A v \in Workers : workers'[v] = workers[v] \/ workers'[v] = Idle
    BY <1>t, <1>2 DEF FindNothing, LeaveUnrecorded
  <2> QED
    BY <2>1, LosesMap
<1> QED
  BY <1>1, <1>2, ClaimMaps, StartMaps, RecordMaps DEF Work, WorkFails

LEMMA RenewMaps ==
  ASSUME OnceInv, NEW p \in Processes, Renew(p)
  PROVE  Kept
<1>t. tasks \in [Tasks -> Document]
  BY DEF OnceInv, Inv, TypeOK
<1>q. runs' = runs /\ workers' = workers
  BY DEF Renew, BeginRenewal, WriteRenewal, FailRenewal
<1>1. \A t \in Tasks : tasks'[t].status = tasks[t].status
  <2>1. CASE WriteRenewal(p)
    <3>1. PICK at \in renewal[p].at .. now :
            tasks' = RenewHeld(tasks, renewal[p].claims, at, LeaseTime)
      BY <2>1 DEF WriteRenewal
    <3>2. \A t \in Tasks : tasks'[t] = tasks[t] \/ tasks'[t] = Renewed(tasks[t], at, LeaseTime)
      BY <1>t, <3>1 DEF RenewHeld
    <3> QED
      BY <1>t, <3>2 DEF Renewed, Document
  <2>2. CASE BeginRenewal(p) \/ FailRenewal(p)
    BY <2>2 DEF BeginRenewal, FailRenewal
  <2> QED
    BY <2>1, <2>2 DEF Renew
<1>2. \A t \in Tasks : SameStage(t)
  BY <1>1, SameStatusSameStage DEF SameStage
<1>3. \A t \in Tasks : SamePermit(t)
  BY <1>q, SamePermits DEF HasPermit
<1> QED
  BY <1>q, <1>2, <1>3, Stutter

\* Several tasks end in one update, or are deleted in one.
LEMMA ManageMaps ==
  ASSUME OnceInv, Manage
  PROVE  Kept
<1>t. (\A t \in Tasks : tasks[t] \in Document) /\ now \in Nat
  BY DEF OnceInv, Inv, TypeOK
<1>q. runs' = runs /\ \A t \in Tasks : SamePermit(t)
  <2>1. runs' = runs /\ workers' = workers
    BY DEF Manage, Cancel, Purge, FlagIncompatible, WriteOffStuck
  <2> QED
    BY <2>1, SamePermits DEF HasPermit
<1>w. \A t \in Tasks : /\ StageOf(CanceledTask(tasks[t])) = "ended"
                       /\ StageOf(Finish(tasks[t], "incompatible", now)) = "ended"
                       /\ StageOf(LetGo(Finish(tasks[t], "failed", now))) = "ended"
  <2>1. "failed" \in Final /\ "incompatible" \in Final /\ "canceled" \in Final
    BY DEF Final
  <2> QED
    BY <1>t, <2>1, WritesKeepTaken, StageIs
<1>1. ASSUME NEW picked \in SUBSET Tasks, Cancel(picked) PROVE Kept
  <2> DEFINE some == {t \in Tasks : t \in picked /\ NotStarted(tasks[t], now)}
  <2>1. \A t \in some : tasks[t].status \in {"pending", "running"}
    BY DEF NotStarted
  <2>2. /\ some \in SUBSET Tasks
        /\ \A t \in some : tasks'[t] = CanceledTask(tasks[t])
        /\ \A t \in Tasks \ some : tasks'[t] = tasks[t]
    BY <1>1 DEF Cancel
  <2> HIDE DEF some
  <2>3. \A t \in some : StageOf(tasks[t]) \in {"waiting", "taken"} /\ StageOf(tasks'[t]) = "ended"
    BY <1>w, <2>1, <2>2, StageIs
  <2> QED
    BY <1>q, <2>2, <2>3, MapEnd DEF SameStage
<1>2. ASSUME NEW request \in PurgeRequests, Purge(request[1], request[2]) PROVE Kept
  <2> DEFINE some == {t \in Tasks : EndedBefore(tasks[t], request[1], now - request[2])}
  <2>1. \A t \in some : tasks[t].status \in Final
    BY <1>2 DEF Purge, EndedBefore
  <2>2. /\ some \in SUBSET Tasks
        /\ \A t \in some : tasks'[t] = Deleted
        /\ \A t \in Tasks \ some : tasks'[t] = tasks[t]
    BY <1>2 DEF Purge
  <2>3. Deleted.status = "purged"
    BY DEF Deleted, Absent
  <2> HIDE DEF some
  <2>4. \A t \in some : StageOf(tasks[t]) = "ended" /\ StageOf(tasks'[t]) = "gone"
    BY <2>1, <2>2, <2>3, StageIs
  <2> QED
    BY <1>q, <2>2, <2>4, MapDelete DEF SameStage
<1>3. ASSUME NEW p \in Processes, FlagIncompatible(p) PROVE Kept
  <2> DEFINE some == {t \in Tasks : tasks[t].status = "pending" /\ Unknown(p, t)}
  <2>1. /\ some \in SUBSET Tasks
        /\ \A t \in some : tasks[t].status = "pending"
        /\ \A t \in some : tasks'[t] = Finish(tasks[t], "incompatible", now)
        /\ \A t \in Tasks \ some : tasks'[t] = tasks[t]
    BY <1>3 DEF FlagIncompatible
  <2> HIDE DEF some
  <2>2. \A t \in some : StageOf(tasks[t]) \in {"waiting", "taken"} /\ StageOf(tasks'[t]) = "ended"
    BY <1>w, <2>1, StageIs
  <2> QED
    BY <1>q, <2>1, <2>2, MapEnd DEF SameStage
<1>4. ASSUME NEW p \in Processes, WriteOffStuck(p) PROVE Kept
  <2> DEFINE some == {t \in Tasks : /\ tasks[t].status = "running"
                                    /\ Lapsed(tasks[t], now)
                                    /\ Unknown(p, t)}
  <2>1. /\ some \in SUBSET Tasks
        /\ \A t \in some : tasks[t].status = "running"
        /\ \A t \in some : tasks'[t] = LetGo(Finish(tasks[t], "failed", now))
        /\ \A t \in Tasks \ some : tasks'[t] = tasks[t]
    BY <1>4 DEF WriteOffStuck
  <2> HIDE DEF some
  <2>2. \A t \in some : StageOf(tasks[t]) \in {"waiting", "taken"} /\ StageOf(tasks'[t]) = "ended"
    BY <1>w, <2>1, StageIs
  <2> QED
    BY <1>q, <2>1, <2>2, MapEnd DEF SameStage
<1> QED
  BY <1>1, <1>2, <1>3, <1>4 DEF Manage

LEMMA NextMaps == OnceInv /\ [Next]_vars => Kept
<1> SUFFICES ASSUME OnceInv, [Next]_vars PROVE Kept
  OBVIOUS
<1>1. CASE Tick \/ UNCHANGED vars \/ \E p \in Processes : Crash(p) \/ Restart(p)
  <2>1. Inv
    BY DEF OnceInv
  <2>2. runs' = runs /\ \A w \in Workers : workers'[w] = workers[w] \/ workers'[w] = Idle
    BY <1>1, <2>1, QuietSteps
  <2>3. tasks' = tasks
    BY <1>1 DEF Tick, vars, Crash, Restart
  <2> QED
    BY <2>2, <2>3, LosesMap
<1> QED
  BY <1>1, ScheduleMaps, WorkMaps, RenewMaps, ManageMaps DEF Next

LEMMA InitMaps == Init => Promise!Init
<1> SUFFICES ASSUME Init PROVE Promise!Init
  OBVIOUS
<1>1. \A t \in Tasks : StageOf(tasks[t]) = "none"
  BY StageIs DEF Init, Absent
<1>2. \A t \in Tasks : PermitOf(t) = "none"
  BY DEF Init, PermitOf, Idle
<1> QED
  BY <1>1, <1>2 DEF Init, Promise!Init

\* Whoever schedules a task may forget workers, clocks, leases and crashes: seen through
\* its status and the permit to start its call, every step of the engine is a step of
\* WorkOnce, or none.
THEOREM EngineImplementsWorkOnce == Spec => ImplementsWorkOnce
<1>1. Spec => []OnceInv
  BY InitOnce, NextOnce, PTL DEF Spec
<1>2. OnceInv /\ [Next]_vars => [Promise!Next]_(Promise!vars)
  BY NextMaps DEF Kept
<1> QED
  BY <1>1, <1>2, InitMaps, PTL DEF Spec, ImplementsWorkOnce, Promise!Spec
=============================================================================
