-------------------------- MODULE TaskEngineProofs --------------------------
(***************************************************************************)
(* Theorems about TaskEngine, for any number of tasks, workers, processes  *)
(* and functions, any lease time and any faults: types, one start at most, *)
(* and then claims (ClaimInv) and what may become of a document.           *)
(***************************************************************************)
EXTENDS TaskEngine, TLAPS

Busy == {"claimed", "running", "recording", "outdating", "writingOff"}

\* A worker past its claim knows which task it claimed.
BusyHasTask == \A w \in Workers : workers[w].step \in Busy => workers[w].uid \in Tasks

Inv == TypeOK /\ BusyHasTask

-----------------------------------------------------------------------------
(* Types                                                                   *)

\* The documents the engine writes are documents.
LEMMA DocumentTypes ==
  /\ Absent \in Document
  /\ Deleted \in Document
  /\ \A f \in Names, d \in Nat, k \in Keys \cup {NoKey} : NewTask(f, d, k) \in Document
BY FunctionsAssumption DEF Absent, Deleted, NewTask, Document, AnyName, Statuses, Unfinished,
   Final, Times, NoTime, NoClaim

LEMMA IdleType == Idle \in WorkerState
BY DEF Idle, WorkerState, WorkerSteps, Final, Times, NoTime, NoClaim

\* ... and so is whatever one of its writes makes of a document.
LEMMA WriteTypes ==
  ASSUME NEW doc \in Document
  PROVE  /\ \A d \in Nat : MovedUp(doc, d) \in Document
         /\ \A id \in Nat, at \in Nat : ClaimedTask(doc, id, at) \in Document
         /\ \A at \in Nat : Renewed(doc, at, LeaseTime) \in Document
         /\ \A status \in Final, at \in Nat : Finish(doc, status, at) \in Document
         /\ LetGo(doc) \in Document
<1>1. \A d \in Nat : MovedUp(doc, d) \in Document
  BY DEF MovedUp, Document
<1>2. ASSUME NEW id \in Nat, NEW at \in Nat PROVE ClaimedTask(doc, id, at) \in Document
  <2>1. "running" \in Statuses /\ at \in Times /\ at + LeaseTime \in Nat
    BY TimesAssumption DEF Statuses, Unfinished, Times
  <2> QED BY <2>1 DEF ClaimedTask, Claimed, Document
<1>3. ASSUME NEW at \in Nat PROVE Renewed(doc, at, LeaseTime) \in Document
  <2>1. at + LeaseTime \in Nat
    BY TimesAssumption
  <2> QED BY <2>1 DEF Renewed, Document
<1>4. ASSUME NEW status \in Final, NEW at \in Nat PROVE Finish(doc, status, at) \in Document
  <2>1. status \in Statuses /\ at \in Times
    BY DEF Statuses, Times
  <2> QED BY <2>1 DEF Finish, Document
<1>5. LetGo(doc) \in Document
  BY DEF LetGo, Document, NoClaim
<1> QED
  BY <1>1, <1>2, <1>3, <1>4, <1>5

LEMMA RecordedType ==
  ASSUME NEW doc \in Document, NEW ws \in WorkerState
  PROVE  Recorded(doc, ws) \in Document
<1>1. ws.outcome \in Final /\ ws.at \in Nat /\ ws.claimedAt \in Times /\ ws.leaseUntil \in Nat
  BY DEF WorkerState
<1>2. LetGo(Finish(doc, ws.outcome, ws.at)) \in Document
  BY <1>1, WriteTypes
<1> QED
  BY <1>1, <1>2 DEF Recorded, Document

LEMMA CanceledType ==
  ASSUME NEW doc \in Document, now \in Nat
  PROVE  CanceledTask(doc) \in Document
BY DEF CanceledTask, Canceled, LetGo, Document, Statuses, Final, Times, NoClaim

LEMMA AfterClaimType ==
  ASSUME TypeOK, NEW w \in Workers, NEW t \in Tasks
  PROVE  AfterClaim(w, t) \in WorkerState /\ AfterClaim(w, t).step \in Busy /\ AfterClaim(w, t).uid = t
<1>1. StepAfterClaim(tasks[t], workers[w].at) \in {"writingOff", "outdating", "claimed"}
  BY DEF StepAfterClaim
<1>2. tasks[t] \in Document /\ workers[w].at \in Nat /\ now \in Nat /\ nextClaim \in Nat
  BY DEF TypeOK, WorkerState
<1> QED
  BY <1>1, <1>2 DEF AfterClaim, WorkerState, WorkerSteps, Busy, Document, Final

\* Every action leaves every variable in its type, and a worker past its claim
\* with the task it claimed.
LEMMA InitInv == Init => Inv
BY DocumentTypes, IdleType DEF Init, Inv, TypeOK, BusyHasTask, Busy, Idle, NoRenewal

LEMMA ScheduleTypes ==
  ASSUME Inv, Schedule
  PROVE  Inv'
<1> USE DEF Inv
<1>1. ASSUME NEW t \in Tasks, NEW f \in Names, NEW d \in Deadlines,
             NEW k \in Keys \cup {NoKey}, Insert(t, f, d, k)
      PROVE  Inv'
  <2>1. NewTask(f, d, k) \in Document
    BY DocumentTypes, TimesAssumption
  <2> QED
    BY <1>1, <2>1 DEF Insert, TypeOK, BusyHasTask
<1>2. ASSUME NEW t \in Tasks, NEW d \in Deadlines, MoveUp(t, d)
      PROVE  Inv'
  <2>1. MovedUp(tasks[t], d) \in Document
    BY WriteTypes, TimesAssumption DEF TypeOK
  <2> QED
    BY <1>2, <2>1 DEF MoveUp, TypeOK, BusyHasTask
<1> QED
  BY <1>1, <1>2 DEF Schedule

LEMMA WorkTypes ==
  ASSUME Inv, NEW w \in Workers, Work(w) \/ WorkFails(w)
  PROVE  Inv'
<1> USE DEF Inv
<1>w. workers[w] \in WorkerState
  BY DEF TypeOK
<1>1. ASSUME ReadClock(w) PROVE Inv'
  <2>1. [workers[w] EXCEPT !.step = "reading", !.at = now] \in WorkerState
    BY <1>w DEF WorkerState, WorkerSteps, TypeOK
  <2> QED
    BY <1>1, <2>1 DEF ReadClock, TypeOK, BusyHasTask, Busy, WorkerState
<1>2. ASSUME NEW t \in Tasks, Claim(w, t) PROVE Inv'
  <2>1. ClaimedTask(tasks[t], nextClaim, workers[w].at) \in Document
    BY <1>w, WriteTypes DEF TypeOK, WorkerState
  <2>2. /\ AfterClaim(w, t) \in WorkerState
        /\ AfterClaim(w, t).uid = t
    BY AfterClaimType
  <2>3. workers' = [workers EXCEPT ![w] = AfterClaim(w, t)]
    BY <1>2 DEF Claim
  <2>4. workers' \in [Workers -> WorkerState]
    BY <2>2, <2>3 DEF TypeOK
  <2>5. tasks' \in [Tasks -> Document]
    BY <1>2, <2>1 DEF Claim, TypeOK
  <2>6. BusyHasTask'
    BY <2>2, <2>3 DEF BusyHasTask, TypeOK
  <2> QED
    BY <1>2, <2>4, <2>5, <2>6 DEF Claim, TypeOK
<1>3. ASSUME NEW t \in Tasks, ClaimUnheard(w, t) PROVE Inv'
  <2>1. ClaimedTask(tasks[t], nextClaim, workers[w].at) \in Document
    BY <1>w, WriteTypes DEF TypeOK, WorkerState
  <2> QED
    BY <1>3, <2>1, IdleType DEF ClaimUnheard, TypeOK, BusyHasTask, Busy, Idle
<1>4. ASSUME FindNothing(w) PROVE Inv'
  BY <1>4, IdleType DEF FindNothing, TypeOK, BusyHasTask, Busy, Idle
<1>5. ASSUME Start(w) PROVE Inv'
  <2>1. [workers[w] EXCEPT !.step = "running"] \in WorkerState
    BY <1>w DEF WorkerState, WorkerSteps
  <2>2. workers[w].uid \in Tasks
    BY <1>5 DEF Start, BusyHasTask, Busy
  <2>3. runs' \in [Tasks -> Nat]
    BY <1>5, <2>2 DEF Start, TypeOK
  <2> QED
    BY <1>5, <2>1, <2>2, <2>3 DEF Start, TypeOK, BusyHasTask, Busy, WorkerState
<1>6. ASSUME NEW outcome \in {"done", "failed", "timeout"}, EndCall(w, outcome) PROVE Inv'
  <2>1. [workers[w] EXCEPT !.step = "recording", !.at = now, !.outcome = outcome] \in WorkerState
    BY <1>w DEF WorkerState, WorkerSteps, Final, TypeOK
  <2> QED
    BY <1>6, <2>1 DEF EndCall, TypeOK, BusyHasTask, Busy, WorkerState
<1>7. ASSUME Record(w) PROVE Inv'
  <2>1. Recorded(tasks[workers[w].uid], workers[w]) \in Document \/ workers[w].uid \notin Tasks
    BY <1>w, RecordedType DEF TypeOK
  <2>2. tasks' \in [Tasks -> Document]
    BY <1>7, <2>1 DEF Record, TypeOK
  <2> QED
    BY <1>7, <2>2, IdleType DEF Record, TypeOK, BusyHasTask, Busy, Idle
<1>8. ASSUME LeaveUnrecorded(w) PROVE Inv'
  BY <1>8, IdleType DEF LeaveUnrecorded, TypeOK, BusyHasTask, Busy, Idle
<1> QED
  BY <1>1, <1>2, <1>3, <1>4, <1>5, <1>6, <1>7, <1>8 DEF Work, WorkFails

LEMMA RenewTypes ==
  ASSUME Inv, NEW p \in Processes, Renew(p)
  PROVE  Inv'
<1> USE DEF Inv
<1>1. ASSUME BeginRenewal(p) PROVE Inv'
  <2>1. Held(p) \subseteq Nat
    BY DEF Held, TypeOK, WorkerState
  <2> QED
    BY <1>1, <2>1 DEF BeginRenewal, TypeOK, BusyHasTask
<1>2. ASSUME WriteRenewal(p) PROVE Inv'
  <2>1. PICK at \in renewal[p].at .. now :
                tasks' = RenewHeld(tasks, renewal[p].claims, at, LeaseTime)
    BY <1>2 DEF WriteRenewal
  <2>2. at \in Nat
    BY <2>1 DEF TypeOK
  <2>3. \A t \in Tasks : Renewed(tasks[t], at, LeaseTime) \in Document
    BY <2>2, WriteTypes DEF TypeOK
  <2>4. tasks' \in [Tasks -> Document]
    BY <2>1, <2>3 DEF RenewHeld, TypeOK
  <2> QED
    BY <1>2, <2>4 DEF WriteRenewal, TypeOK, BusyHasTask, NoRenewal
<1>3. ASSUME FailRenewal(p) PROVE Inv'
  BY <1>3 DEF FailRenewal, TypeOK, BusyHasTask, NoRenewal
<1> QED
  BY <1>1, <1>2, <1>3 DEF Renew

LEMMA ManageTypes ==
  ASSUME Inv, Manage
  PROVE  Inv'
<1> USE DEF Inv
<1>n. now \in Nat
  BY DEF TypeOK
<1>t. \A t \in Tasks : tasks[t] \in Document
  BY DEF TypeOK
<1>1. ASSUME NEW picked \in SUBSET Tasks, Cancel(picked) PROVE Inv'
  <2>1. \A t \in Tasks : CanceledTask(tasks[t]) \in Document
    BY <1>n, <1>t, CanceledType
  <2> QED
    BY <1>1, <2>1 DEF Cancel, TypeOK, BusyHasTask
<1>2. ASSUME NEW request \in PurgeRequests, Purge(request[1], request[2]) PROVE Inv'
  BY <1>2, DocumentTypes DEF Purge, TypeOK, BusyHasTask
<1>3. ASSUME NEW p \in Processes, FlagIncompatible(p) PROVE Inv'
  <2>1. \A t \in Tasks : Finish(tasks[t], "incompatible", now) \in Document
    BY <1>n, <1>t, WriteTypes DEF Final
  <2> QED
    BY <1>3, <2>1 DEF FlagIncompatible, TypeOK, BusyHasTask
<1>4. ASSUME NEW p \in Processes, WriteOffStuck(p) PROVE Inv'
  <2>1. \A t \in Tasks : LetGo(Finish(tasks[t], "failed", now)) \in Document
    BY <1>n, <1>t, WriteTypes DEF Final
  <2> QED
    BY <1>4, <2>1 DEF WriteOffStuck, TypeOK, BusyHasTask
<1> QED
  BY <1>1, <1>2, <1>3, <1>4 DEF Manage

LEMMA ProcessTypes ==
  ASSUME Inv, NEW p \in Processes, Crash(p) \/ Restart(p)
  PROVE  Inv'
<1>1. ASSUME Crash(p) PROVE Inv'
  BY <1>1, IdleType DEF Crash, Inv, TypeOK, BusyHasTask, Busy, Idle, NoRenewal
<1>2. ASSUME Restart(p) PROVE Inv'
  BY <1>2 DEF Restart, Inv, TypeOK, BusyHasTask
<1> QED
  BY <1>1, <1>2

LEMMA NextInv == Inv /\ [Next]_vars => Inv'
<1> SUFFICES ASSUME Inv, [Next]_vars PROVE Inv'
  OBVIOUS
<1>1. CASE Tick
  BY <1>1 DEF Tick, Inv, TypeOK, BusyHasTask
<1>2. CASE UNCHANGED vars
  BY <1>2 DEF vars, Inv, TypeOK, BusyHasTask
<1> QED
  BY <1>1, <1>2, ScheduleTypes, WorkTypes, RenewTypes, ManageTypes, ProcessTypes DEF Next

\* Every variable of the task engine keeps its type.
THEOREM TypeCorrect == Spec => []TypeOK
<1>1. Spec => []Inv
  BY InitInv, NextInv, PTL DEF Spec
<1>2. Inv => TypeOK
  BY DEF Inv
<1> QED
  BY <1>1, <1>2, PTL

-----------------------------------------------------------------------------
(* At most once.  Why a call is not started twice: the permit to start it   *)
(* is the step "claimed", reached only from a document found waiting, and   *)
(* no document goes back to waiting.                                        *)

Untaken(t) == tasks[t].status \in {"absent", "pending"}

HasPermit(w, t) == workers[w].step = "claimed" /\ workers[w].uid = t

OncePermit ==
  \A t \in Tasks :
    /\ Untaken(t) => runs[t] = 0
    /\ \A w \in Workers : HasPermit(w, t) => runs[t] = 0 /\ ~Untaken(t)
    /\ \A v, w \in Workers : HasPermit(v, t) /\ HasPermit(w, t) => v = w

OnceInv == Inv /\ OncePermit /\ AtMostOnce

\* A step that starts no call, hands out no permit and puts no document back
\* keeps the invariant.
LEMMA KeepsOnce ==
  ASSUME OncePermit, AtMostOnce, runs' = runs,
         \A t \in Tasks : Untaken(t)' => Untaken(t),
         \A w \in Workers, t \in Tasks : HasPermit(w, t)' => HasPermit(w, t)
  PROVE  (OncePermit /\ AtMostOnce)'
BY DEF OncePermit, AtMostOnce

\* None of the writes of an end, a cancel or a renewal makes a document waiting.
LEMMA WritesKeepTaken ==
  ASSUME NEW doc \in Document
  PROVE  /\ Deleted.status = "purged"
         /\ CanceledTask(doc).status = "canceled"
         /\ \A at \in Nat : Renewed(doc, at, LeaseTime).status = doc.status
         /\ \A status \in Final, at \in Nat : Finish(doc, status, at).status = status
         /\ \A status \in Final, at \in Nat : LetGo(Finish(doc, status, at)).status = status
         /\ \A id \in Nat, at \in Nat : ClaimedTask(doc, id, at).status = "running"
         /\ \A ws \in WorkerState : Recorded(doc, ws).status = ws.outcome
BY DEF Document, Deleted, Absent, CanceledTask, Canceled, Renewed, Finish, LetGo, ClaimedTask,
   Claimed, Recorded

LEMMA ScheduleOnce ==
  ASSUME OnceInv, Schedule
  PROVE  (OncePermit /\ AtMostOnce)'
<1>1. runs' = runs /\ workers' = workers
  BY DEF Schedule, Insert, MoveUp
<1>2. \A t \in Tasks : Untaken(t)' => Untaken(t)
  <2>1. ASSUME NEW t \in Tasks, NEW f \in Names, NEW d \in Deadlines,
               NEW k \in Keys \cup {NoKey}, Insert(t, f, d, k)
        PROVE  \A u \in Tasks : Untaken(u)' => Untaken(u)
    BY <2>1 DEF Insert, Untaken, OnceInv, Inv, TypeOK
  <2>2. ASSUME NEW t \in Tasks, NEW d \in Deadlines, MoveUp(t, d)
        PROVE  \A u \in Tasks : Untaken(u)' => Untaken(u)
    BY <2>2 DEF MoveUp, Sooner, Untaken, OnceInv, Inv, TypeOK
  <2> QED
    BY <2>1, <2>2 DEF Schedule
<1>3. \A w \in Workers, t \in Tasks : HasPermit(w, t)' => HasPermit(w, t)
  BY <1>1 DEF HasPermit
<1> QED
  BY <1>1, <1>2, <1>3, KeepsOnce DEF OnceInv

LEMMA WorkOnceOnly ==
  ASSUME OnceInv, NEW w \in Workers, Work(w) \/ WorkFails(w)
  PROVE  (OncePermit /\ AtMostOnce)'
<1>t. tasks \in [Tasks -> Document] /\ workers \in [Workers -> WorkerState] /\ runs \in [Tasks -> Nat]
  BY DEF OnceInv, Inv, TypeOK
<1>w. workers[w] \in WorkerState /\ workers[w].at \in Nat /\ nextClaim \in Nat
  BY DEF WorkerState, OnceInv, Inv, TypeOK
<1>1. CASE ReadClock(w)
  <2>1. \A v \in Workers, t \in Tasks : HasPermit(v, t)' => HasPermit(v, t)
    BY <1>1, <1>t DEF ReadClock, HasPermit, WorkerState
  <2> QED
    BY <1>1, <2>1, KeepsOnce DEF ReadClock, Untaken, OnceInv
<1>2. ASSUME NEW t \in Tasks, Claim(w, t) PROVE (OncePermit /\ AtMostOnce)'
  <2>1. tasks[t].status \in Unfinished /\ runs' = runs
    BY <1>2 DEF Claim, NextDue, Claimable
  <2>2. ClaimedTask(tasks[t], nextClaim, workers[w].at).status = "running"
    BY <1>t, <1>w, WritesKeepTaken
  <2>3. \A u \in Tasks : tasks'[u].status = IF u = t THEN "running" ELSE tasks[u].status
    BY <1>2, <1>t, <2>2 DEF Claim
  <2>4. \A v \in Workers, u \in Tasks :
          HasPermit(v, u)' => HasPermit(v, u) \/ (v = w /\ u = t /\ tasks[t].status # "running")
    BY <1>2, <1>t DEF Claim, HasPermit, AfterClaim, StepAfterClaim
  <2>5. tasks[t].status # "running" => runs[t] = 0 /\ \A v \in Workers : ~HasPermit(v, t)
    BY <2>1 DEF Unfinished, Untaken, OnceInv, OncePermit
  <2> QED
    BY <2>1, <2>3, <2>4, <2>5 DEF OnceInv, OncePermit, AtMostOnce, Untaken
<1>3. ASSUME NEW t \in Tasks, ClaimUnheard(w, t) PROVE (OncePermit /\ AtMostOnce)'
  <2>1. ClaimedTask(tasks[t], nextClaim, workers[w].at).status = "running"
    BY <1>t, <1>w, WritesKeepTaken
  <2>2. \A u \in Tasks : Untaken(u)' => Untaken(u)
    BY <1>3, <1>t, <2>1 DEF ClaimUnheard, Untaken
  <2>3. \A v \in Workers, u \in Tasks : HasPermit(v, u)' => HasPermit(v, u)
    BY <1>3, <1>t DEF ClaimUnheard, HasPermit, Idle
  <2> QED
    BY <1>3, <2>2, <2>3, KeepsOnce DEF ClaimUnheard, OnceInv
<1>4. CASE FindNothing(w) \/ LeaveUnrecorded(w)
  <2>1. \A v \in Workers, u \in Tasks : HasPermit(v, u)' => HasPermit(v, u)
    BY <1>4, <1>t DEF FindNothing, LeaveUnrecorded, HasPermit, Idle
  <2> QED
    BY <1>4, <2>1, KeepsOnce DEF FindNothing, LeaveUnrecorded, Untaken, OnceInv
<1>5. CASE Start(w)
  <2> DEFINE t == workers[w].uid
  <2>1. t \in Tasks /\ HasPermit(w, t)
    BY <1>5 DEF Start, OnceInv, Inv, BusyHasTask, Busy, HasPermit
  <2>2. runs[t] = 0 /\ ~Untaken(t) /\ \A v \in Workers : HasPermit(v, t) => v = w
    BY <2>1 DEF OnceInv, OncePermit
  <2>3. runs' = [runs EXCEPT ![t] = runs[t] + 1] /\ tasks' = tasks
    BY <1>5 DEF Start
  <2>4. \A u \in Tasks : runs'[u] = IF u = t THEN 1 ELSE runs[u]
    BY <1>t, <2>1, <2>2, <2>3
  <2>5. \A v \in Workers, u \in Tasks : HasPermit(v, u)' => v # w /\ HasPermit(v, u)
    BY <1>5, <1>t DEF Start, HasPermit, WorkerState
  <2> QED
    BY <2>1, <2>2, <2>3, <2>4, <2>5 DEF OnceInv, OncePermit, AtMostOnce, Untaken
<1>6. ASSUME NEW outcome \in {"done", "failed", "timeout"}, EndCall(w, outcome)
      PROVE  (OncePermit /\ AtMostOnce)'
  <2>1. \A v \in Workers, t \in Tasks : HasPermit(v, t)' => HasPermit(v, t)
    BY <1>6, <1>t DEF EndCall, HasPermit, WorkerState
  <2> QED
    BY <1>6, <2>1, KeepsOnce DEF EndCall, Untaken, OnceInv
<1>7. CASE Record(w)
  <2>1. workers[w].uid \in Tasks
    BY <1>7 DEF Record, OnceInv, Inv, BusyHasTask, Busy
  <2>2. Recorded(tasks[workers[w].uid], workers[w]).status \in Final
    BY <1>t, <1>w, <2>1, WritesKeepTaken DEF WorkerState
  <2>3. \A u \in Tasks : Untaken(u)' => Untaken(u)
    BY <1>7, <1>t, <2>1, <2>2 DEF Record, Untaken, Final
  <2>4. \A v \in Workers, u \in Tasks : HasPermit(v, u)' => HasPermit(v, u)
    BY <1>7, <1>t DEF Record, HasPermit, Idle
  <2> QED
    BY <1>7, <2>3, <2>4, KeepsOnce DEF Record, OnceInv
<1> QED
  BY <1>1, <1>2, <1>3, <1>4, <1>5, <1>6, <1>7 DEF Work, WorkFails

LEMMA RenewOnce ==
  ASSUME OnceInv, NEW p \in Processes, Renew(p)
  PROVE  (OncePermit /\ AtMostOnce)'
<1>t. /\ tasks \in [Tasks -> Document] /\ now \in Nat
      /\ renewal \in [Processes -> [claims : SUBSET Nat, at : Nat]]
  BY DEF OnceInv, Inv, TypeOK
<1>1. runs' = runs /\ workers' = workers
  BY DEF Renew, BeginRenewal, WriteRenewal, FailRenewal
<1>2. \A t \in Tasks : tasks'[t].status = tasks[t].status
  <2>1. CASE WriteRenewal(p)
    <3>1. PICK at \in renewal[p].at .. now :
                  tasks' = RenewHeld(tasks, renewal[p].claims, at, LeaseTime)
      BY <2>1 DEF WriteRenewal
    <3>2. at \in Nat
      BY <1>t, <3>1
    <3>3. \A t \in Tasks : Renewed(tasks[t], at, LeaseTime).status = tasks[t].status
      BY <1>t, <3>2, WritesKeepTaken
    <3> QED
      BY <1>t, <3>1, <3>3 DEF RenewHeld
  <2>2. CASE BeginRenewal(p) \/ FailRenewal(p)
    BY <2>2 DEF BeginRenewal, FailRenewal
  <2> QED
    BY <2>1, <2>2 DEF Renew
<1> QED
  BY <1>1, <1>2, KeepsOnce DEF HasPermit, Untaken, OnceInv

LEMMA ManageOnce ==
  ASSUME OnceInv, Manage
  PROVE  (OncePermit /\ AtMostOnce)'
<1>t. tasks \in [Tasks -> Document] /\ now \in Nat
  BY DEF OnceInv, Inv, TypeOK
<1>1. runs' = runs /\ workers' = workers
  BY DEF Manage, Cancel, Purge, FlagIncompatible, WriteOffStuck
<1>2. \A t \in Tasks :
        tasks'[t] \in {tasks[t], Deleted, CanceledTask(tasks[t]), Finish(tasks[t], "incompatible", now),
                      LetGo(Finish(tasks[t], "failed", now))}
  BY DEF Manage, Cancel, Purge, FlagIncompatible, WriteOffStuck
<1>3. \A t \in Tasks : /\ Deleted.status = "purged"
                       /\ CanceledTask(tasks[t]).status = "canceled"
                       /\ Finish(tasks[t], "incompatible", now).status = "incompatible"
                       /\ LetGo(Finish(tasks[t], "failed", now)).status = "failed"
  <2> SUFFICES ASSUME NEW t \in Tasks
               PROVE  /\ Deleted.status = "purged"
                      /\ CanceledTask(tasks[t]).status = "canceled"
                      /\ Finish(tasks[t], "incompatible", now).status = "incompatible"
                      /\ LetGo(Finish(tasks[t], "failed", now)).status = "failed"
    OBVIOUS
  <2>1. tasks[t] \in Document /\ "incompatible" \in Final /\ "failed" \in Final
    BY <1>t DEF Final
  <2>2. \A status \in Final : /\ Finish(tasks[t], status, now).status = status
                             /\ LetGo(Finish(tasks[t], status, now)).status = status
    BY <1>t, <2>1, WritesKeepTaken
  <2> QED
    BY <2>1, <2>2, WritesKeepTaken
<1>4. \A t \in Tasks : Untaken(t)' => Untaken(t)
  BY <1>2, <1>3 DEF Untaken
<1> QED
  BY <1>1, <1>4, KeepsOnce DEF HasPermit, OnceInv

LEMMA InitOnce == Init => OnceInv
<1> SUFFICES ASSUME Init PROVE OnceInv
  OBVIOUS
<1>1. Inv
  BY InitInv
<1>2. OncePermit /\ AtMostOnce
  BY DEF Init, OncePermit, AtMostOnce, HasPermit, Idle
<1> QED
  BY <1>1, <1>2 DEF OnceInv

LEMMA NextOnce == OnceInv /\ [Next]_vars => OnceInv'
<1> SUFFICES ASSUME OnceInv, [Next]_vars PROVE OnceInv'
  OBVIOUS
<1>1. Inv'
  BY NextInv DEF OnceInv
<1>2. CASE Tick \/ UNCHANGED vars
  <2>1. runs' = runs /\ workers' = workers /\ tasks' = tasks
    BY <1>2 DEF Tick, vars
  <2> QED
    BY <1>1, <2>1, KeepsOnce DEF HasPermit, Untaken, OnceInv
<1>3. ASSUME NEW p \in Processes, Crash(p) \/ Restart(p) PROVE (OncePermit /\ AtMostOnce)'
  <2>1. \A w \in Workers, t \in Tasks : HasPermit(w, t)' => HasPermit(w, t)
    BY <1>3 DEF Crash, Restart, HasPermit, Idle
  <2> QED
    BY <1>3, <2>1, KeepsOnce DEF Crash, Restart, Untaken, OnceInv
<1> QED
  BY <1>1, <1>2, <1>3, ScheduleOnce, WorkOnceOnly, RenewOnce, ManageOnce DEF Next, OnceInv

\* No call of any task is ever started twice, whatever number of processes and
\* workers crash, stall, lose answers or let leases lapse.
THEOREM CallsStartAtMostOnce == Spec => []AtMostOnce
<1>1. Spec => []OnceInv
  BY InitOnce, NextOnce, PTL DEF Spec
<1>2. OnceInv => AtMostOnce
  BY DEF OnceInv
<1> QED
  BY <1>1, <1>2, PTL

-----------------------------------------------------------------------------
(* The claims: a claim stands exactly while its task is running, and a task *)
(* that ended stays as it ended.                                            *)

\* A document that keeps to ClaimStandsWhileRunning.
Fits(doc) ==
  /\ (doc.claimId # NoClaim) <=> (doc.status = "running")
  /\ doc.status = "pending" => doc.leaseUntil = doc.deadline

\* What a step may make of a document: nothing else happens to one that ended.
MayBecome(doc, new) ==
  \/ new = doc
  \/ new = Deleted
  \/ doc.status \notin Final /\ Fits(new)

Harmless == \A t \in Tasks : MayBecome(tasks[t], tasks'[t])

\* Workers and renewals name real claims, so none of their writes can hit a
\* document no claim holds.
ClaimsNamed ==
  /\ \A w \in Workers : workers[w].step \in Busy => workers[w].claimId # NoClaim
  /\ \A p \in Processes : NoClaim \notin renewal[p].claims

ClaimInv == Inv /\ ClaimsNamed /\ ClaimStandsWhileRunning

-----------------------------------------------------------------------------
LEMMA NewDocumentsFit ==
  /\ Fits(Absent) /\ Fits(Deleted)
  /\ \A f \in Names, d \in Nat, k \in Keys \cup {NoKey} : Fits(NewTask(f, d, k))
BY DEF Fits, Absent, Deleted, NewTask, NoClaim

\* Each write of the engine leaves a document that fits, of one that fits.
LEMMA WritesFit ==
  ASSUME NEW doc \in Document, Fits(doc)
  PROVE  /\ doc.status = "pending" => \A d \in Nat : Fits(MovedUp(doc, d))
         /\ \A id \in Nat \ {NoClaim}, at \in Nat : Fits(ClaimedTask(doc, id, at))
         /\ doc.claimId # NoClaim => \A at \in Nat : Fits(Renewed(doc, at, LeaseTime))
         /\ \A status \in Final, at \in Nat : Fits(LetGo(Finish(doc, status, at)))
         /\ doc.status = "pending" =>
              \A status \in Final, at \in Nat : Fits(Finish(doc, status, at))
         /\ \A at \in Nat : Fits(CanceledTask(doc))
         /\ \A ws \in WorkerState : Fits(Recorded(doc, ws))
<1>1. doc.status = "pending" => \A d \in Nat : Fits(MovedUp(doc, d))
  BY DEF Fits, MovedUp, Document
<1>2. \A id \in Nat \ {NoClaim}, at \in Nat : Fits(ClaimedTask(doc, id, at))
  BY DEF Fits, ClaimedTask, Claimed, Document
<1>3. doc.claimId # NoClaim => \A at \in Nat : Fits(Renewed(doc, at, LeaseTime))
  BY DEF Fits, Renewed, Document
<1>4. \A status \in Final, at \in Nat : Fits(LetGo(Finish(doc, status, at)))
  BY DEF Fits, LetGo, Finish, Document, Final
<1>5. doc.status = "pending" => \A status \in Final, at \in Nat : Fits(Finish(doc, status, at))
  BY DEF Fits, Finish, Document, Final
<1>6. Fits(CanceledTask(doc))
  BY DEF Fits, CanceledTask, Canceled, LetGo, Document
<1>7. ASSUME NEW ws \in WorkerState PROVE Fits(Recorded(doc, ws))
  <2>1. ws.outcome \in Final /\ ws.at \in Nat
    BY DEF WorkerState
  <2>2. Recorded(doc, ws).claimId = NoClaim /\ Recorded(doc, ws).status = ws.outcome
    BY DEF Recorded, LetGo, Finish, Document
  <2> QED
    BY <2>1, <2>2 DEF Fits, Final
<1> QED
  BY <1>1, <1>2, <1>3, <1>4, <1>5, <1>6, <1>7

LEMMA StandingIsFitting == ClaimStandsWhileRunning <=> \A t \in Tasks : Fits(tasks[t])
BY DEF ClaimStandsWhileRunning, Fits

LEMMA HarmlessStands ==
  ASSUME ClaimStandsWhileRunning, Harmless
  PROVE  ClaimStandsWhileRunning'
BY NewDocumentsFit DEF ClaimStandsWhileRunning, Harmless, MayBecome, Fits

-----------------------------------------------------------------------------
(* Every step is harmless.                                                 *)

LEMMA ScheduleHarmless ==
  ASSUME ClaimInv, Schedule
  PROVE  Harmless
<1>t. /\ tasks \in [Tasks -> Document]
      /\ \A t \in Tasks : Fits(tasks[t])
  BY StandingIsFitting DEF ClaimInv, Inv, TypeOK
<1>1. ASSUME NEW t \in Tasks, NEW f \in Names, NEW d \in Deadlines,
             NEW k \in Keys \cup {NoKey}, Insert(t, f, d, k)
      PROVE  Harmless
  <2>1. Fits(NewTask(f, d, k))
    BY NewDocumentsFit, TimesAssumption
  <2> QED
    BY <1>t, <1>1, <2>1 DEF Insert, Harmless, MayBecome, Final
<1>2. ASSUME NEW t \in Tasks, NEW d \in Deadlines, MoveUp(t, d) PROVE Harmless
  <2>1. Fits(MovedUp(tasks[t], d)) /\ tasks[t].status = "pending"
    BY <1>t, <1>2, WritesFit, TimesAssumption DEF MoveUp, Sooner
  <2> QED
    BY <1>t, <1>2, <2>1 DEF MoveUp, Harmless, MayBecome, Final
<1> QED
  BY <1>1, <1>2 DEF Schedule

LEMMA WorkHarmless ==
  ASSUME ClaimInv, NEW w \in Workers, Work(w) \/ WorkFails(w)
  PROVE  Harmless
<1>t. /\ tasks \in [Tasks -> Document]
      /\ workers[w] \in WorkerState
      /\ workers[w].at \in Nat
      /\ nextClaim \in Nat \ {NoClaim}
      /\ \A t \in Tasks : Fits(tasks[t])
  BY StandingIsFitting DEF ClaimInv, Inv, TypeOK, WorkerState, NoClaim
<1>1. ASSUME NEW t \in Tasks, Claim(w, t) \/ ClaimUnheard(w, t) PROVE Harmless
  <2>1. Fits(ClaimedTask(tasks[t], nextClaim, workers[w].at))
    BY <1>t, WritesFit
  <2>2. tasks[t].status \notin Final
    BY <1>1 DEF Claim, ClaimUnheard, NextDue, Claimable, Unfinished, Final
  <2>3. tasks' = [tasks EXCEPT ![t] = ClaimedTask(tasks[t], nextClaim, workers[w].at)]
    BY <1>1 DEF Claim, ClaimUnheard
  <2> QED
    BY <1>t, <2>1, <2>2, <2>3 DEF Harmless, MayBecome
<1>2. CASE Record(w)
  <2> DEFINE t == workers[w].uid
  <2>1. t \in Tasks
    BY <1>2 DEF Record, ClaimInv, Inv, BusyHasTask, Busy
  <2>2. CASE MayRecord(tasks[t], workers[w].claimId)
    <3>1. Fits(Recorded(tasks[t], workers[w])) /\ tasks[t].status \notin Final
      BY <1>t, <2>1, <2>2, WritesFit DEF MayRecord, Final
    <3>2. tasks' = [tasks EXCEPT ![t] = Recorded(tasks[t], workers[w])]
      BY <1>2, <2>2 DEF Record
    <3> QED
      BY <1>t, <3>1, <3>2 DEF Harmless, MayBecome
  <2>3. CASE ~MayRecord(tasks[t], workers[w].claimId)
    BY <1>2, <2>3 DEF Record, Harmless, MayBecome
  <2> QED
    BY <2>2, <2>3
<1>3. CASE tasks' = tasks
  BY <1>3 DEF Harmless, MayBecome
<1>4. \/ \E t \in Tasks : Claim(w, t) \/ ClaimUnheard(w, t)
      \/ Record(w)
      \/ tasks' = tasks
  BY DEF Work, WorkFails, ReadClock, FindNothing, Start, EndCall, LeaveUnrecorded
<1> QED
  BY <1>1, <1>2, <1>3, <1>4

\* A renewal writes to documents the claims it names still hold, and a document
\* that ended is held by none.
LEMMA RenewHarmless ==
  ASSUME ClaimInv, NEW p \in Processes, Renew(p)
  PROVE  Harmless
<1>t. /\ tasks \in [Tasks -> Document]
      /\ renewal \in [Processes -> [claims : SUBSET Nat, at : Nat]] /\ now \in Nat
      /\ NoClaim \notin renewal[p].claims
      /\ \A t \in Tasks : Fits(tasks[t])
  BY StandingIsFitting DEF ClaimInv, ClaimsNamed, Inv, TypeOK
<1>1. CASE WriteRenewal(p)
  <2>1. PICK at \in renewal[p].at .. now :
                tasks' = RenewHeld(tasks, renewal[p].claims, at, LeaseTime)
    BY <1>1 DEF WriteRenewal
  <2>2. at \in Nat
    BY <1>t, <2>1
  <2>3. ASSUME NEW t \in Tasks PROVE MayBecome(tasks[t], tasks'[t])
    <3>1. tasks'[t] = IF tasks[t].claimId \in renewal[p].claims
                      THEN Renewed(tasks[t], at, LeaseTime) ELSE tasks[t]
      BY <1>t, <2>1 DEF RenewHeld
    <3>2. tasks[t].claimId # NoClaim =>
            Fits(Renewed(tasks[t], at, LeaseTime)) /\ tasks[t].status = "running"
      BY <1>t, <2>2, WritesFit DEF Fits
    <3> QED
      BY <1>t, <3>1, <3>2 DEF MayBecome, Final
  <2> QED
    BY <2>3 DEF Harmless
<1>2. CASE BeginRenewal(p) \/ FailRenewal(p)
  BY <1>2 DEF BeginRenewal, FailRenewal, Harmless, MayBecome
<1> QED
  BY <1>1, <1>2 DEF Renew

LEMMA ManageHarmless ==
  ASSUME ClaimInv, Manage
  PROVE  Harmless
<1>t. /\ \A t \in Tasks : tasks[t] \in Document /\ Fits(tasks[t])
      /\ now \in Nat
  BY StandingIsFitting DEF ClaimInv, Inv, TypeOK
<1>w. ASSUME NEW t \in Tasks
      PROVE  /\ Fits(CanceledTask(tasks[t]))
             /\ Fits(LetGo(Finish(tasks[t], "failed", now)))
             /\ tasks[t].status = "pending" => Fits(Finish(tasks[t], "incompatible", now))
  <2>1. "failed" \in Final /\ "incompatible" \in Final
    BY DEF Final
  <2> QED
    BY <1>t, <2>1, WritesFit
<1>1. ASSUME NEW picked \in SUBSET Tasks, Cancel(picked) PROVE Harmless
  <2>1. ASSUME NEW t \in Tasks PROVE MayBecome(tasks[t], tasks'[t])
    <3>1. tasks'[t] = IF t \in picked /\ NotStarted(tasks[t], now)
                      THEN CanceledTask(tasks[t]) ELSE tasks[t]
      BY <1>1 DEF Cancel
    <3>2. NotStarted(tasks[t], now) => tasks[t].status \notin Final
      BY DEF NotStarted, Final
    <3> QED
      BY <1>w, <3>1, <3>2 DEF MayBecome
  <2> QED
    BY <2>1 DEF Harmless
<1>2. ASSUME NEW request \in PurgeRequests, Purge(request[1], request[2]) PROVE Harmless
  BY <1>2 DEF Purge, Harmless, MayBecome
<1>3. ASSUME NEW p \in Processes, FlagIncompatible(p) PROVE Harmless
  BY <1>w, <1>3 DEF FlagIncompatible, Harmless, MayBecome, Final
<1>4. ASSUME NEW p \in Processes, WriteOffStuck(p) PROVE Harmless
  BY <1>w, <1>4 DEF WriteOffStuck, Harmless, MayBecome, Final
<1> QED
  BY <1>1, <1>2, <1>3, <1>4 DEF Manage

LEMMA NextHarmless == ClaimInv /\ [Next]_vars => Harmless
<1> SUFFICES ASSUME ClaimInv, [Next]_vars PROVE Harmless
  OBVIOUS
<1>1. CASE Tick \/ UNCHANGED vars \/ \E p \in Processes : Crash(p) \/ Restart(p)
  BY <1>1 DEF Tick, vars, Crash, Restart, Harmless, MayBecome
<1> QED
  BY <1>1, ScheduleHarmless, WorkHarmless, RenewHarmless, ManageHarmless DEF Next

-----------------------------------------------------------------------------
(* Workers and renewals go on naming real claims.                          *)

LEMMA WorkNames ==
  ASSUME ClaimInv, NEW w \in Workers, Work(w) \/ WorkFails(w)
  PROVE  ClaimsNamed'
<1>t. /\ workers \in [Workers -> WorkerState]
      /\ nextClaim \in Nat \ {NoClaim}
  BY DEF ClaimInv, Inv, TypeOK, NoClaim
<1>1. renewal' = renewal
  BY DEF Work, WorkFails, ReadClock, Claim, ClaimUnheard, FindNothing, Start, EndCall, Record,
         LeaveUnrecorded
<1>2. \A v \in Workers \ {w} : workers'[v] = workers[v]
  BY <1>t DEF Work, WorkFails, ReadClock, Claim, ClaimUnheard, FindNothing, Start, EndCall, Record,
              LeaveUnrecorded
<1>3. workers'[w].step \in Busy => workers'[w].claimId # NoClaim
  <2>1. CASE ReadClock(w)
    BY <1>t, <2>1 DEF ReadClock, Busy, WorkerState
  <2>2. ASSUME NEW t \in Tasks, Claim(w, t)
        PROVE  workers'[w].step \in Busy => workers'[w].claimId # NoClaim
    BY <1>t, <2>2 DEF Claim, AfterClaim
  <2>3. CASE workers'[w] = Idle
    BY <2>3 DEF Idle, Busy
  <2>4. CASE Start(w)
    BY <1>t, <2>4 DEF Start, Busy, WorkerState, ClaimInv, ClaimsNamed
  <2>5. ASSUME NEW outcome \in {"done", "failed", "timeout"}, EndCall(w, outcome)
        PROVE  workers'[w].step \in Busy => workers'[w].claimId # NoClaim
    BY <1>t, <2>5 DEF EndCall, Busy, WorkerState, ClaimInv, ClaimsNamed
  <2>6. (\E t \in Tasks : ClaimUnheard(w, t)) \/ FindNothing(w) \/ Record(w) \/ LeaveUnrecorded(w)
          => workers'[w] = Idle
    BY <1>t DEF ClaimUnheard, FindNothing, Record, LeaveUnrecorded
  <2> QED
    BY <2>1, <2>2, <2>3, <2>4, <2>5, <2>6 DEF Work, WorkFails
<1> QED
  BY <1>1, <1>2, <1>3 DEF ClaimInv, ClaimsNamed

LEMMA RenewNames ==
  ASSUME ClaimInv, NEW p \in Processes, Renew(p)
  PROVE  ClaimsNamed'
<1>t. renewal \in [Processes -> [claims : SUBSET Nat, at : Nat]]
  BY DEF ClaimInv, Inv, TypeOK
<1>1. workers' = workers
  BY DEF Renew, BeginRenewal, WriteRenewal, FailRenewal
<1>2. NoClaim \notin Held(p)
  BY DEF Held, Holding, Busy, ClaimInv, ClaimsNamed
<1>3. NoClaim \notin NoRenewal.claims
  BY DEF NoRenewal
<1>4. \A q \in Processes : NoClaim \notin renewal'[q].claims
  BY <1>t, <1>2, <1>3 DEF Renew, BeginRenewal, WriteRenewal, FailRenewal, ClaimInv, ClaimsNamed
<1> QED
  BY <1>1, <1>4 DEF ClaimInv, ClaimsNamed

LEMMA NextNames == ClaimInv /\ [Next]_vars => ClaimsNamed'
<1> SUFFICES ASSUME ClaimInv, [Next]_vars PROVE ClaimsNamed'
  OBVIOUS
<1>1. CASE Tick \/ UNCHANGED vars \/ Schedule \/ Manage
  <2>1. workers' = workers /\ renewal' = renewal
    BY <1>1 DEF Tick, vars, Schedule, Insert, MoveUp, Manage, Cancel, Purge, FlagIncompatible,
                WriteOffStuck
  <2> QED
    BY <2>1 DEF ClaimInv, ClaimsNamed
<1>2. ASSUME NEW p \in Processes, Crash(p) \/ Restart(p) PROVE ClaimsNamed'
  BY <1>2 DEF Crash, Restart, Idle, Busy, NoRenewal, ClaimInv, ClaimsNamed, Inv, TypeOK
<1> QED
  BY <1>1, <1>2, WorkNames, RenewNames DEF Next

-----------------------------------------------------------------------------
LEMMA InitClaims == Init => ClaimInv
<1> SUFFICES ASSUME Init PROVE ClaimInv
  OBVIOUS
<1>1. Inv
  BY InitInv
<1>2. ClaimsNamed
  BY DEF Init, ClaimsNamed, Idle, Busy, NoRenewal
<1>3. ClaimStandsWhileRunning
  BY NewDocumentsFit, StandingIsFitting DEF Init
<1> QED
  BY <1>1, <1>2, <1>3 DEF ClaimInv

LEMMA NextClaims == ClaimInv /\ [Next]_vars => ClaimInv'
<1> SUFFICES ASSUME ClaimInv, [Next]_vars PROVE ClaimInv'
  OBVIOUS
<1>1. Inv'
  BY NextInv DEF ClaimInv
<1>2. ClaimStandsWhileRunning'
  BY NextHarmless, HarmlessStands DEF ClaimInv
<1> QED
  BY <1>1, <1>2, NextNames DEF ClaimInv

LEMMA ClaimInvariant == Spec => []ClaimInv
BY InitClaims, NextClaims, PTL DEF Spec

\* Whatever outcomes, cancels, renewals and housekeeping meet, a claim stands
\* exactly while its task is running, and a waiting task's lease is its deadline.
THEOREM ClaimsStandWhileRunning == Spec => []ClaimStandsWhileRunning
<1>1. ClaimInv => ClaimStandsWhileRunning
  BY DEF ClaimInv
<1> QED
  BY <1>1, ClaimInvariant, PTL

\* No late outcome, cancel, flag or renewal in flight changes a task that ended.
THEOREM EndedStaysFrozen == Spec => EndedIsFrozen
<1>1. ClaimInv /\ [Next]_vars =>
        [\A t \in Tasks : tasks[t].status \in Final => tasks'[t] \in {tasks[t], Deleted}]_vars
  BY NextHarmless DEF Harmless, MayBecome
<1> QED
  BY <1>1, ClaimInvariant, PTL DEF Spec, EndedIsFrozen
=============================================================================
