--------------------------- MODULE SchedulerProofs ---------------------------
(***************************************************************************)
(* Theorems about SchedulerEngine, for any schedulers, workers, clients,   *)
(* rhythms and policies.                                                   *)
(***************************************************************************)
EXTENDS SchedulerEngine, TLAPS

\* A lease never ends before the deadline it stands for, and a scheduler nobody
\* holds is claimable at its deadline.
Fits(doc) ==
  /\ doc.leaseUntil >= doc.deadline
  /\ doc.claimId = NoClaim => doc.leaseUntil = doc.deadline

\* What a change may be about to write.
ChangeInHand ==
  [status : {"enabled", "disabled", AsStored}, distribution : Distributions \cup {AsStored},
   deadline : Nat \cup {NoTime}, leaseUntil : {0}, claimId : {NoClaim}]

CallOK(call) ==
  \/ call = NoCall
  \/ /\ call \in [step : {"creating", "saving"}, uid : Schedulers, hand : Scheduler]
     /\ Fits(call.hand)
  \/ call \in [step : {"changing"}, uid : Schedulers, hand : ChangeInHand]

\* A worker names a scheduler and a claim from its claim on, which it made when
\* the beat was due.
WorkerOK(w) ==
  /\ workers[w].at <= now
  /\ workers[w].step \in {"idle", "reading"} => workers[w].uid = NoScheduler
  /\ workers[w].step \in {"emitting", "moving"} =>
       /\ workers[w].uid \in Schedulers
       /\ workers[w].copy.claimId # NoClaim
       /\ workers[w].copy.deadline <= workers[w].at

DocsOK == schedulers \in [Schedulers -> Scheduler] /\ \A s \in Schedulers : Fits(schedulers[s])

WorkersOK == workers \in [Workers -> WorkerState] /\ \A w \in Workers : WorkerOK(w)

CallsOK == DOMAIN clients = Clients /\ \A c \in Clients : CallOK(clients[c])

BeatsOK ==
  /\ again \subseteq emitted /\ queued \subseteq emitted
  /\ emitted \subseteq Schedulers \X Nat
  /\ EmittedWhenDue

RestOK ==
  /\ missed \in Policies
  /\ now \in Nat
  /\ up \subseteq Processes
  /\ first \in [Schedulers -> Nat \cup {NoTime}]
  /\ overtaken \subseteq Workers

Inv == DocsOK /\ WorkersOK /\ CallsOK /\ BeatsOK /\ RestOK

LEMMA InvHasTypes == Inv => TypeOK
BY DEF Inv, DocsOK, WorkersOK, CallsOK, BeatsOK, RestOK, TypeOK

-----------------------------------------------------------------------------
(* What each write leaves of a document that fits                          *)

LEMMA AbsentFits == Absent \in Scheduler /\ Fits(Absent)
BY IntervalsAssumption DEF Absent, AnyDistribution, Scheduler, Fits, NoClaim

LEMMA NewFits ==
  ASSUME NEW status \in {"enabled", "disabled"}, NEW d \in Distributions, NEW deadline \in Nat
  PROVE  /\ NewScheduler(status, d, deadline) \in Scheduler
         /\ Fits(NewScheduler(status, d, deadline))
<1>1. NewScheduler(status, d, deadline) =
        [status |-> status, distribution |-> d, deadline |-> deadline,
         leaseUntil |-> deadline, claimId |-> NoClaim]
  BY DEF NewScheduler, Prepared, Absent
<1> QED
  BY <1>1 DEF Scheduler, Fits, NoClaim

LEMMA ClaimedFits ==
  ASSUME NEW doc \in Scheduler, Fits(doc), NEW at \in Nat, Lapsed(doc, at),
         NEW id \in Nat \ {NoClaim}
  PROVE  /\ Claimed(doc, id, at, LeaseTime) \in Scheduler
         /\ Fits(Claimed(doc, id, at, LeaseTime))
<1>1. /\ Claimed(doc, id, at, LeaseTime).deadline = doc.deadline
      /\ Claimed(doc, id, at, LeaseTime).leaseUntil = at + LeaseTime
      /\ Claimed(doc, id, at, LeaseTime).claimId = id
      /\ at + LeaseTime \in Nat /\ at + LeaseTime > at
  BY TimesAssumption DEF Claimed, Scheduler
<1>2. Claimed(doc, id, at, LeaseTime) \in Scheduler
  BY <1>1 DEF Claimed, Scheduler
<1>3. Fits(Claimed(doc, id, at, LeaseTime))
  BY <1>1 DEF Lapsed, Scheduler, Fits
<1> QED
  BY <1>2, <1>3

LEMMA MovedOnFits ==
  ASSUME NEW doc \in Scheduler, NEW time \in Nat
  PROVE  /\ [LetGo(doc) EXCEPT !.deadline = time, !.leaseUntil = time] \in Scheduler
         /\ Fits([LetGo(doc) EXCEPT !.deadline = time, !.leaseUntil = time])
<1> DEFINE new == [LetGo(doc) EXCEPT !.deadline = time, !.leaseUntil = time]
<1>1. LetGo(doc) \in Scheduler
  BY DEF LetGo, Scheduler, NoClaim
<1>2. new \in Scheduler
  BY <1>1 DEF Scheduler
<1>3. new.deadline = time /\ new.leaseUntil = time
  BY <1>1 DEF Scheduler
<1> HIDE DEF new
<1>4. Fits(new)
  BY <1>3 DEF Fits
<1> QED
  BY <1>2, <1>4 DEF new

LEMMA ChangedFits ==
  ASSUME NEW doc \in Scheduler, Fits(doc), NEW hand \in ChangeInHand
  PROVE  Changed(doc, hand) \in Scheduler /\ Fits(Changed(doc, hand))
<1> DEFINE moved == Moved(doc, hand.deadline)
<1>1. moved \in Scheduler /\ Fits(moved)
  <2>1. CASE hand.deadline = NoTime
    BY <2>1 DEF Moved
  <2>2. CASE hand.deadline \in Nat
    <3>1. hand.deadline # NoTime
      BY <2>2 DEF NoTime
    <3>2. moved = [status |-> doc.status, distribution |-> doc.distribution,
                   deadline |-> hand.deadline, leaseUntil |-> hand.deadline,
                   claimId |-> NoClaim]
      BY <3>1 DEF Moved, LetGo, Scheduler
    <3> QED
      BY <2>2, <3>2 DEF Scheduler, Fits, NoClaim
  <2> QED
    BY <2>1, <2>2 DEF ChangeInHand
<1>2. /\ Changed(doc, hand) = [moved EXCEPT
           !.status = IF hand.status = AsStored THEN moved.status ELSE hand.status,
           !.distribution = IF hand.distribution = AsStored THEN moved.distribution
                            ELSE hand.distribution]
      /\ hand.status \in {"enabled", "disabled", AsStored}
      /\ hand.distribution \in Distributions \cup {AsStored}
  BY <1>1 DEF Changed, ChangeInHand, Scheduler
<1> HIDE DEF moved
<1> QED
  BY <1>1, <1>2 DEF Scheduler, Fits

LEMMA KeptFits ==
  ASSUME NEW doc \in Scheduler, Fits(doc), NEW d \in Distributions, NEW deadline \in Nat
  PROVE  Kept(doc, d, deadline) \in Scheduler /\ Fits(Kept(doc, d, deadline))
<1> DEFINE kept == Kept(doc, d, deadline)
<1>1. CASE doc.claimId # NoClaim /\ doc.deadline = deadline
  <2>1. kept = [doc EXCEPT !.distribution = d]
    BY <1>1 DEF Kept, Prepared, Scheduler
  <2> QED
    BY <1>1, <2>1 DEF Scheduler, Fits
<1>2. CASE doc.claimId = NoClaim \/ doc.deadline # deadline
  <2>1. kept = [status |-> doc.status, distribution |-> d, deadline |-> deadline,
                leaseUntil |-> deadline, claimId |-> NoClaim]
    BY <1>2 DEF Kept, Prepared, Scheduler
  <2> QED
    BY <2>1 DEF Scheduler, Fits, NoClaim
<1> QED
  BY <1>1, <1>2

LEMMA NewClaimIsNew ==
  ASSUME ClaimIds \ InUse # {}
  PROVE  NewClaim \in Nat \ {NoClaim} /\ NewClaim \notin InUse
BY ClaimsAssumption DEF NewClaim

LEMMA NextDeadlineLater ==
  ASSUME NEW doc \in Scheduler, NEW interval \in Nat \ {0}, NEW at \in Nat
  PROVE  /\ NextDeadline(doc, interval, at) \in Nat
         /\ missed # "replay" => NextDeadline(doc, interval, at) > at
BY DEF NextDeadline, Behind, Scheduler

-----------------------------------------------------------------------------
(* Every step keeps every part                                             *)

\* Which steps write to the collection.
LEMMA WhoWrites ==
  ASSUME [Next]_vars
  PROVE  \/ \E w \in Workers, s \in Schedulers : ClaimScheduler(w, s)
         \/ \E w \in Workers : MoveOn(w)
         \/ \E c \in Clients : Create(c) \/ Change(c) \/ Save(c)
         \/ \E c \in Clients, s \in Schedulers : Delete(c, s)
         \/ schedulers' = schedulers
BY DEF Next, Tick, Work, WorkFails, Edit, ReadClock, Claim, FindNothing, Emit, SkipBeat,
       ClaimUnheard, Abort, BeginCreate, BeginChange, BeginSave, Write, PurgeTask, Crash, Restart,
       vars

\* What those who edit leave alone, and what workers do.
LEMMA EditsLeave ==
  ASSUME NEW c \in Clients, Edit(c)
  PROVE  UNCHANGED <<missed, now, workers, up, queued, emitted, again>>
<1>1. CASE \E s \in Schedulers, d \in Distributions, status \in {"enabled", "disabled"} :
             BeginCreate(c, s, d, status)
  BY <1>1 DEF BeginCreate, Write, history
<1>2. CASE Create(c)
  BY <1>2 DEF Create, Edited, history
<1>3. CASE \E s \in Schedulers, deadline \in Moves \cup {NoTime},
             d \in Distributions \cup {AsStored}, status \in {"enabled", "disabled", AsStored} :
             BeginChange(c, s, deadline, d, status)
  BY <1>3 DEF BeginChange, Write, history
<1>4. CASE Change(c)
  BY <1>4 DEF Change, Edited, history
<1>5. CASE \E s \in Schedulers, d \in Distributions :
             \E deadline \in Moves \cup {schedulers[s].deadline} : BeginSave(c, s, d, deadline)
  BY <1>5 DEF BeginSave, Write, history
<1>6. CASE Save(c)
  BY <1>6 DEF Save, Edited
<1>7. CASE \E s \in Schedulers : Delete(c, s)
  BY <1>7 DEF Delete, Edited
<1> QED
  BY <1>1, <1>2, <1>3, <1>4, <1>5, <1>6, <1>7 DEF Edit

LEMMA WorkLeaves ==
  ASSUME NEW w \in Workers, Work(w) \/ WorkFails(w)
  PROVE  UNCHANGED <<missed, now, clients, up, first>>
BY DEF Work, WorkFails, ReadClock, Claim, ClaimScheduler, FindNothing, Emit, SkipBeat, MoveOn,
       ClaimUnheard, Abort, history

\* What the history makes of a write over scheduler s by those who edit.
EditOf(s) ==
  /\ \A r \in Schedulers \ {s} : schedulers'[r] = schedulers[r]
  /\ first' = [first EXCEPT ![s] = IF schedulers'[s].claimId = NoClaim
                                      /\ schedulers'[s].status = "enabled"
                                   THEN schedulers'[s].deadline ELSE NoTime]
  /\ overtaken' \subseteq overtaken \cup {w \in Workers : workers[w].uid = s}
  /\ \A w \in overtaken' :
       w \in Workers /\ workers[w].uid = s => ~HeldBy(schedulers'[s], workers[w].copy.claimId)

LEMMA EditedIs ==
  ASSUME NEW s \in Schedulers, NEW doc, NEW moved \in BOOLEAN,
         schedulers' = [schedulers EXCEPT ![s] = doc], Edited(s, moved)
  PROVE  EditOf(s)
<1>1. \A r \in Schedulers \ {s} : schedulers'[r] = schedulers[r]
  OBVIOUS
<1> DEFINE working == {w \in Workers : workers[w].uid = s}
           holding == {w \in working : HeldBy(schedulers'[s], workers[w].copy.claimId)}
<1>2. overtaken' = (IF moved THEN overtaken \cup working ELSE overtaken) \ holding
  BY DEF Edited
<1>3. /\ overtaken' \subseteq overtaken \cup working
      /\ overtaken' \cap holding = {}
  BY <1>2
<1> QED
  BY <1>1, <1>3 DEF EditOf, Edited

\* Whoever comes second with a declaration leaves the scheduler that stands alone.
LEMMA DeclaredOnce ==
  ASSUME schedulers \in [Schedulers -> Scheduler], NEW c \in Clients, Create(c)
  PROVE  \/ schedulers' = schedulers /\ first' = first /\ overtaken' = overtaken
         \/ /\ schedulers' = [schedulers EXCEPT ![clients[c].uid] = clients[c].hand]
            /\ Edited(clients[c].uid, FALSE)
<1> DEFINE s == clients[c].uid
<1>1. schedulers' = [schedulers EXCEPT ![s] = Declared(schedulers[s], clients[c].hand)]
  BY DEF Create
<1>2. CASE Stored(s)
  <2>1. Declared(schedulers[s], clients[c].hand) = schedulers[s]
    BY <1>2 DEF Declared, Stored
  <2>2. schedulers' = schedulers
    BY <1>1, <2>1
  <2> QED
    BY <1>2, <2>2 DEF Create, history
<1>3. CASE ~Stored(s)
  <2>1. Declared(schedulers[s], clients[c].hand) = clients[c].hand
    BY <1>3 DEF Declared, Stored
  <2> QED
    BY <1>1, <1>3, <2>1 DEF Create
<1> QED
  BY <1>2, <1>3

\* What a call writes last is an edit, or nothing.
LEMMA WritesOfCalls ==
  ASSUME CallsOK, schedulers \in [Schedulers -> Scheduler], NEW c \in Clients, Create(c) \/ Change(c) \/ Save(c)
  PROVE  \/ \E s \in Schedulers : EditOf(s)
         \/ first' = first /\ overtaken' = overtaken /\ schedulers' = schedulers
<1> DEFINE s == clients[c].uid
<1>1. s \in Schedulers
  <2>1. clients[c].step \in {"creating", "changing", "saving"}
    BY DEF Create, Change, Save
  <2>2. CallOK(clients[c])
    BY DEF CallsOK
  <2> QED
    BY <2>1, <2>2 DEF CallOK, NoCall
<1>2. CASE Create(c)
  BY <1>1, <1>2, DeclaredOnce, EditedIs
<1>3. CASE Change(c)
  <2>1. CASE Stored(s)
    <3> DEFINE moved == clients[c].hand.deadline # NoTime
    <3>1. moved \in BOOLEAN
      OBVIOUS
    <3>2. Edited(s, moved) /\ schedulers' = [schedulers EXCEPT ![s] = Changed(@, clients[c].hand)]
      BY <1>3, <2>1 DEF Change
    <3> HIDE DEF moved
    <3> QED
      BY <1>1, <3>1, <3>2, EditedIs
  <2>2. CASE ~Stored(s)
    BY <1>3, <2>2 DEF Change, history
  <2> QED
    BY <2>1, <2>2
<1>4. CASE Save(c)
  <2> DEFINE moved == clients[c].hand.deadline # schedulers[s].deadline
  <2>1. moved \in BOOLEAN
    OBVIOUS
  <2>2. Edited(s, moved) /\ schedulers' = [schedulers EXCEPT ![s] = clients[c].hand]
    BY <1>4 DEF Save
  <2> HIDE DEF moved
  <2> QED
    BY <1>1, <2>1, <2>2, EditedIs
<1> QED
  BY <1>2, <1>3, <1>4

Editing == (\E s \in Schedulers : EditOf(s)) /\ UNCHANGED <<workers, emitted>>

\* An edit, or a step of which the history knows no edit.
LEMMA Writes ==
  ASSUME Inv, [Next]_vars
  PROVE  \/ Editing
         \/ /\ first' = first /\ overtaken' \subseteq overtaken
            /\ \/ schedulers' = schedulers
               \/ \E w \in Workers, s \in Schedulers : ClaimScheduler(w, s)
               \/ \E w \in Workers : MoveOn(w)
<1>c. CallsOK /\ schedulers \in [Schedulers -> Scheduler]
  BY DEF Inv, DocsOK
<1>1. ASSUME NEW c \in Clients, Edit(c)
      PROVE  \/ \E s \in Schedulers : EditOf(s)
             \/ first' = first /\ overtaken' = overtaken /\ schedulers' = schedulers
  <2>1. CASE Create(c) \/ Change(c) \/ Save(c)
    BY <1>c, <2>1, WritesOfCalls
  <2>2. CASE \E s \in Schedulers : Delete(c, s)
    BY <2>2, EditedIs DEF Delete
  <2> QED
    BY <1>1, <2>1, <2>2 DEF Edit, BeginCreate, BeginChange, BeginSave, Write, history
<1>2. ASSUME NEW w \in Workers, Work(w) \/ WorkFails(w)
      PROVE  /\ first' = first /\ overtaken' \subseteq overtaken
             /\ \/ schedulers' = schedulers
                \/ \E s \in Schedulers : ClaimScheduler(w, s)
                \/ MoveOn(w)
  BY <1>2 DEF Work, WorkFails, ReadClock, Claim, ClaimScheduler, FindNothing, Emit, SkipBeat,
              MoveOn, ClaimUnheard, Abort, history
<1>3. CASE \E c \in Clients : Edit(c)
  BY <1>1, <1>3, EditsLeave DEF Editing
<1>4. CASE \E w \in Workers : Work(w) \/ WorkFails(w)
  BY <1>2, <1>4
<1> QED
  BY <1>3, <1>4 DEF Next, Tick, PurgeTask, Crash, Restart, vars, history

\* A worker goes from moving on to idle by moving on, unless nothing is written.
LEMMA OnlyMovesOn ==
  ASSUME [Next]_vars, NEW w \in Workers, workers \in [Workers -> WorkerState],
         workers[w].step = "moving", workers'[w] = Idle
  PROVE  MoveOn(w) \/ schedulers' = schedulers
<1>1. workers' # workers
  BY DEF Idle
<1>2. ASSUME NEW v \in Workers, v # w, Work(v) \/ WorkFails(v) PROVE FALSE
  BY <1>2 DEF Work, WorkFails, ReadClock, Claim, ClaimScheduler, FindNothing, Emit, SkipBeat,
              MoveOn, ClaimUnheard, Abort, Goto, ToMoving, Idle
<1>3. CASE Work(w) \/ WorkFails(w)
  BY <1>3 DEF Work, WorkFails, ReadClock, Claim, ClaimScheduler, FindNothing, Emit, SkipBeat,
              ClaimUnheard, Abort, At
<1> QED
  BY <1>1, <1>2, <1>3, EditsLeave DEF Next, Tick, PurgeTask, Crash, Restart, vars

LEMMA ClockLeaves ==
  ASSUME [Next]_vars
  PROVE  now' = now \/ Tick
BY EditsLeave, WorkLeaves DEF Next, PurgeTask, Crash, Restart, vars

LEMMA InitDocs == Init => DocsOK
BY AbsentFits DEF Init, DocsOK

LEMMA StepDocs ==
  ASSUME Inv, [Next]_vars
  PROVE  DocsOK'
<1>t. /\ schedulers \in [Schedulers -> Scheduler]
      /\ \A s \in Schedulers : Fits(schedulers[s])
      /\ \A w \in Workers : workers[w] \in WorkerState
      /\ \A c \in Clients : CallOK(clients[c])
  BY DEF Inv, DocsOK, WorkersOK, CallsOK
<1>w. ASSUME NEW s \in Schedulers, NEW doc \in Scheduler, Fits(doc),
             schedulers' = [schedulers EXCEPT ![s] = doc]
      PROVE  DocsOK'
  BY <1>t, <1>w DEF DocsOK
<1>1. ASSUME NEW w \in Workers, NEW s \in Schedulers, ClaimScheduler(w, s) PROVE DocsOK'
  <2>1. Lapsed(schedulers[s], workers[w].at) /\ workers[w].at \in Nat
    BY <1>1, <1>t DEF ClaimScheduler, NextDue, WorkerState
  <2>2. NewClaim \in Nat \ {NoClaim}
    BY <1>1, NewClaimIsNew DEF ClaimScheduler
  <2> QED
    BY <1>t, <1>w, <1>1, <2>1, <2>2, ClaimedFits DEF ClaimScheduler
<1>2. ASSUME NEW w \in Workers, MoveOn(w) PROVE DocsOK'
  <2> DEFINE s == workers[w].uid
             next == NextDeadline(workers[w].copy, workers[w].interval, workers[w].at)
             doc == [LetGo(schedulers[s]) EXCEPT !.deadline = next, !.leaseUntil = next]
  <2>1. s \in Schedulers
    BY <1>2 DEF Inv, WorkersOK, WorkerOK, MoveOn, At
  <2>2. next \in Nat
    BY <1>t, NextDeadlineLater DEF WorkerState
  <2>3. doc \in Scheduler /\ Fits(doc)
    <3> HIDE DEF next, s
    <3> QED
      BY <1>t, <2>1, <2>2, MovedOnFits
  <2>4. schedulers' = schedulers \/ schedulers' = [schedulers EXCEPT ![s] = doc]
    BY <1>2 DEF MoveOn
  <2> HIDE DEF doc, s
  <2> QED
    BY <1>t, <1>w, <2>1, <2>3, <2>4 DEF DocsOK
<1>3. ASSUME NEW c \in Clients, Create(c) \/ Change(c) \/ Save(c) PROVE DocsOK'
  <2> DEFINE s == clients[c].uid
  <2>1. CASE schedulers' = schedulers
    BY <1>t, <2>1 DEF DocsOK
  <2>2. CASE /\ clients[c].step \in {"creating", "saving"}
             /\ schedulers' = [schedulers EXCEPT ![s] = clients[c].hand]
    <3>1. s \in Schedulers /\ clients[c].hand \in Scheduler /\ Fits(clients[c].hand)
      BY <1>t, <2>2 DEF CallOK, NoCall
    <3> QED
      BY <1>w, <2>2, <3>1
  <2>3. CASE /\ clients[c].step = "changing"
             /\ schedulers' = [schedulers EXCEPT ![s] = Changed(schedulers[s], clients[c].hand)]
    <3>1. s \in Schedulers /\ clients[c].hand \in ChangeInHand
      BY <1>t, <2>3 DEF CallOK, NoCall
    <3> QED
      BY <1>t, <1>w, <2>3, <3>1, ChangedFits
  <2> QED
    BY <1>3, <1>t, <2>1, <2>2, <2>3, DeclaredOnce DEF Create, Change, Save
<1>4. ASSUME NEW c \in Clients, NEW s \in Schedulers, Delete(c, s) PROVE DocsOK'
  BY <1>w, <1>4, AbsentFits DEF Delete
<1>5. CASE schedulers' = schedulers
  BY <1>5, <1>t DEF DocsOK
<1> QED
  BY <1>1, <1>2, <1>3, <1>4, <1>5, WhoWrites

LEMMA InitWorkers == Init => WorkersOK
BY AbsentFits DEF Init, WorkersOK, WorkerOK, WorkerState, Idle

LEMMA StepWorkers ==
  ASSUME Inv, [Next]_vars
  PROVE  WorkersOK'
<1>t. /\ workers \in [Workers -> WorkerState]
      /\ \A w \in Workers : WorkerOK(w)
      /\ schedulers \in [Schedulers -> Scheduler]
      /\ \A s \in Schedulers : Fits(schedulers[s])
      /\ now \in Nat
  BY DEF Inv, DocsOK, WorkersOK, RestOK
<1>n. now' = now \/ (now' = now + 1 /\ workers' = workers)
  <2>1. Tick => now' = now + 1 /\ workers' = workers
    BY DEF Tick
  <2> QED
    BY <2>1, ClockLeaves
\* Whatever a worker goes to, the others stay where they are.
<1>w. ASSUME NEW w \in Workers, NEW state \in WorkerState, Goto(w, state), now' = now,
             state.at <= now,
             state.step \in {"idle", "reading"} => state.uid = NoScheduler,
             state.step \in {"emitting", "moving"} =>
               /\ state.uid \in Schedulers
               /\ state.copy.claimId # NoClaim
               /\ state.copy.deadline <= state.at
      PROVE  WorkersOK'
  BY <1>t, <1>w DEF Goto, WorkersOK, WorkerOK
<1>i. Idle \in WorkerState /\ Idle.at <= now
  <2>1. Idle \in WorkerState
    BY AbsentFits DEF Idle, WorkerState
  <2> QED
    BY <1>t, <2>1 DEF Idle
<1>1. ASSUME NEW w \in Workers, ReadClock(w) PROVE WorkersOK'
  <2> DEFINE state == [Idle EXCEPT !.step = "reading", !.at = now]
  <2>1. Goto(w, state) /\ now' = now
    BY <1>1 DEF ReadClock
  <2>2. state \in WorkerState
    BY <1>t, <1>i DEF WorkerState
  <2>3. state.step = "reading" /\ state.at = now /\ state.uid = NoScheduler
    BY DEF Idle
  <2> HIDE DEF state
  <2> QED
    BY <1>t, <1>w, <2>1, <2>2, <2>3
<1>2. ASSUME NEW w \in Workers, NEW s \in Schedulers, Claim(w, s) PROVE WorkersOK'
  <2>1. PICK interval \in IntervalsOf[schedulers[s].distribution] :
          Goto(w, [step |-> IF Emits(schedulers[s], interval, workers[w].at)
                            THEN "emitting" ELSE "moving",
                   at |-> workers[w].at, uid |-> s, copy |-> schedulers'[s],
                   interval |-> interval])
    BY <1>2 DEF Claim
  <2>2. interval \in Nat \ {0}
    BY <1>t, IntervalsAssumption DEF Scheduler
  <2>3. /\ Lapsed(schedulers[s], workers[w].at) /\ workers[w].at \in Nat
        /\ NewClaim \in Nat \ {NoClaim}
        /\ schedulers'[s] = Claimed(schedulers[s], NewClaim, workers[w].at, LeaseTime)
        /\ now' = now
    BY <1>2, <1>t, NewClaimIsNew DEF Claim, ClaimScheduler, NextDue, WorkerState
  <2>4. schedulers'[s] \in Scheduler
    BY <1>t, <2>3, ClaimedFits
  <2>5. schedulers'[s].claimId # NoClaim /\ schedulers'[s].deadline <= workers[w].at
    BY <1>t, <2>3 DEF Claimed, Lapsed, Fits, Scheduler
  <2> QED
    BY <1>t, <1>w, <2>1, <2>2, <2>3, <2>4, <2>5 DEF WorkerState, WorkerOK
<1>3. ASSUME NEW w \in Workers,
             FindNothing(w) \/ MoveOn(w) \/ Abort(w) \/ \E s \in Schedulers : ClaimUnheard(w, s)
      PROVE  WorkersOK'
  <2>1. Goto(w, Idle) /\ now' = now
    BY <1>3 DEF FindNothing, MoveOn, Abort, ClaimUnheard, ClaimScheduler
  <2> QED
    BY <1>w, <1>i, <2>1 DEF Idle
<1>4. ASSUME NEW w \in Workers, Emit(w) \/ SkipBeat(w) PROVE WorkersOK'
  <2>1. /\ workers[w].step = "emitting" /\ now' = now
        /\ Goto(w, [workers[w] EXCEPT !.step = "moving"])
    BY <1>4 DEF Emit, SkipBeat, At, ToMoving
  <2>2. /\ [workers[w] EXCEPT !.step = "moving"] \in WorkerState
        /\ WorkerOK(w)
    BY <1>t DEF WorkerState
  <2> QED
    BY <1>w, <2>1, <2>2 DEF WorkerOK, WorkerState
<1>5. ASSUME NEW p \in Processes, Crash(p) PROVE WorkersOK'
  <2>1. /\ workers' = [w \in Workers |-> IF Home[w] = p THEN Idle ELSE workers[w]]
        /\ now' = now
    BY <1>5 DEF Crash
  <2>2. workers' \in [Workers -> WorkerState]
    BY <1>t, <1>i, <2>1
  <2>3. ASSUME NEW w \in Workers PROVE WorkerOK(w)'
    <3>1. CASE workers'[w] = Idle
      BY <1>i, <2>1, <3>1 DEF WorkerOK, Idle
    <3>2. CASE workers'[w] = workers[w]
      BY <1>t, <2>1, <3>2 DEF WorkerOK
    <3> QED
      BY <2>1, <3>1, <3>2
  <2> QED
    BY <2>2, <2>3 DEF WorkersOK
<1>6. CASE workers' = workers
  BY <1>t, <1>n, <1>6 DEF WorkersOK, WorkerOK, WorkerState
<1> QED
  BY <1>1, <1>2, <1>3, <1>4, <1>5, <1>6, EditsLeave
  DEF Next, Tick, Work, WorkFails, PurgeTask, Restart, vars

LEMMA InitCalls == Init => CallsOK
BY DEF Init, CallsOK, CallOK

LEMMA StepCalls ==
  ASSUME Inv, [Next]_vars
  PROVE  CallsOK'
<1>t. /\ CallsOK
      /\ schedulers \in [Schedulers -> Scheduler]
      /\ \A s \in Schedulers : Fits(schedulers[s])
      /\ now \in Nat
  BY DEF Inv, DocsOK, RestOK
<1>w. ASSUME NEW c \in Clients, NEW call, CallOK(call), clients' = [clients EXCEPT ![c] = call]
      PROVE  CallsOK'
  BY <1>t, <1>w DEF CallsOK, CallOK
<1>1. ASSUME NEW c \in Clients, NEW s \in Schedulers, NEW d \in Distributions,
             NEW status \in {"enabled", "disabled"}, BeginCreate(c, s, d, status)
      PROVE  CallsOK'
  <2>1. PICK deadline \in FirstDeadlines(d) :
          Write(c, [step |-> "creating", uid |-> s, hand |-> NewScheduler(status, d, deadline)])
    BY <1>1 DEF BeginCreate
  <2>2. deadline \in Nat
    BY <1>t, IntervalsAssumption, TimesAssumption DEF FirstDeadlines
  <2> DEFINE hand == NewScheduler(status, d, deadline)
  <2>3. hand \in Scheduler /\ Fits(hand)
    BY <2>2, NewFits
  <2> HIDE DEF hand
  <2>4. CallOK([step |-> "creating", uid |-> s, hand |-> hand])
    BY <2>3 DEF CallOK
  <2> QED
    BY <1>w, <2>1, <2>4 DEF Write, hand
<1>2. ASSUME NEW c \in Clients, NEW s \in Schedulers, NEW deadline \in Moves \cup {NoTime},
             NEW d \in Distributions \cup {AsStored},
             NEW status \in {"enabled", "disabled", AsStored}, BeginChange(c, s, deadline, d, status)
      PROVE  CallsOK'
  <2> DEFINE restarts == d \notin {AsStored, schedulers[s].distribution}
  <2>1. PICK interval \in IF restarts THEN IntervalsOf[d] ELSE {0} :
          Write(c, [step |-> "changing", uid |-> s,
                    hand |-> [Absent EXCEPT
                                !.status = status, !.distribution = d,
                                !.deadline = IF restarts THEN now + interval ELSE deadline]])
    BY <1>2 DEF BeginChange
  <2>2. IF restarts THEN now + interval \in Nat ELSE deadline \in Nat \cup {NoTime}
    BY <1>t, IntervalsAssumption, TimesAssumption
  <2> DEFINE new == IF restarts THEN now + interval ELSE deadline
             hand == [Absent EXCEPT !.status = status, !.distribution = d, !.deadline = new]
  <2>3. new \in Nat \cup {NoTime}
    BY <2>2
  <2> HIDE DEF new
  <2>4. hand \in ChangeInHand
    BY <2>3 DEF Absent, ChangeInHand
  <2> HIDE DEF hand
  <2>5. CallOK([step |-> "changing", uid |-> s, hand |-> hand])
    BY <2>4 DEF CallOK
  <2> QED
    BY <1>w, <2>1, <2>5 DEF Write, hand, new
<1>3. ASSUME NEW c \in Clients, NEW s \in Schedulers, NEW d \in Distributions,
             NEW deadline \in Moves \cup {schedulers[s].deadline}, BeginSave(c, s, d, deadline)
      PROVE  CallsOK'
  <2> DEFINE hand == IF Stored(s) THEN Kept(schedulers[s], d, deadline)
                     ELSE NewScheduler("enabled", d, deadline)
  <2>1. deadline \in Nat
    BY <1>t, TimesAssumption DEF Scheduler
  <2>2. hand \in Scheduler /\ Fits(hand)
    BY <1>t, <2>1, NewFits, KeptFits
  <2>3. Write(c, [step |-> "saving", uid |-> s, hand |-> hand])
    BY <1>3 DEF BeginSave
  <2> HIDE DEF hand
  <2>4. CallOK([step |-> "saving", uid |-> s, hand |-> hand])
    BY <2>2 DEF CallOK
  <2> QED
    BY <1>w, <2>3, <2>4 DEF Write
<1>4. ASSUME NEW c \in Clients, Create(c) \/ Change(c) \/ Save(c) PROVE CallsOK'
  BY <1>w, <1>4 DEF Create, Change, Save, EndCall, CallOK
<1>5. CASE clients' = clients
  BY <1>t, <1>5 DEF CallsOK
<1> QED
  BY <1>1, <1>2, <1>3, <1>4, <1>5
  DEF Next, Tick, Work, WorkFails, Edit, ReadClock, Claim, ClaimScheduler, FindNothing, Emit,
      SkipBeat, MoveOn, ClaimUnheard, Abort, Delete, PurgeTask, Crash, Restart, vars

LEMMA InitBeats == Init => BeatsOK
BY DEF Init, BeatsOK, EmittedWhenDue

LEMMA StepBeats ==
  ASSUME Inv, [Next]_vars
  PROVE  BeatsOK'
<1>t. BeatsOK /\ now \in Nat
  BY DEF Inv, RestOK
<1>n. now' \in Nat /\ now <= now'
  <2>1. Tick => now' = now + 1
    BY DEF Tick
  <2> QED
    BY <1>t, <2>1, ClockLeaves
<1>l. EmittedWhenDue /\ emitted' = emitted => EmittedWhenDue'
  BY <1>t, <1>n DEF BeatsOK, EmittedWhenDue
<1>1. ASSUME NEW w \in Workers, Emit(w) PROVE BeatsOK'
  <2> DEFINE uid == workers[w].uid
             deadline == workers[w].copy.deadline
  <2>1. uid \in Schedulers /\ deadline \in Nat /\ deadline <= now
    BY <1>1, <1>t DEF Inv, WorkersOK, WorkerOK, WorkerState, Scheduler, Emit, At
  <2>2. /\ emitted' = emitted \cup {<<uid, deadline>>}
        /\ queued' = queued \cup {<<uid, deadline>>}
        /\ again' = again \/ again' = again \cup {<<uid, deadline>>}
        /\ now' = now
    BY <1>1 DEF Emit, Beat
  <2> HIDE DEF uid, deadline
  <2>3. EmittedWhenDue'
    BY <1>t, <2>1, <2>2 DEF BeatsOK, EmittedWhenDue
  <2>4. emitted' \subseteq Schedulers \X Nat
    BY <1>t, <2>1, <2>2 DEF BeatsOK
  <2> QED
    BY <1>t, <2>2, <2>3, <2>4 DEF BeatsOK
<1>2. CASE emitted' = emitted /\ again' = again /\ queued' \subseteq queued
  BY <1>t, <1>l, <1>2 DEF BeatsOK
<1> QED
  BY <1>1, <1>2, EditsLeave
  DEF Next, Tick, Work, WorkFails, ReadClock, Claim, ClaimScheduler, FindNothing, SkipBeat, MoveOn,
      ClaimUnheard, Abort, PurgeTask, Crash, Restart, vars, history

LEMMA InitRest == Init => RestOK
BY DEF Init, RestOK, NoTime

LEMMA StepRest ==
  ASSUME Inv, [Next]_vars
  PROVE  RestOK'
<1>t. RestOK
  BY DEF Inv
<1>1. now' \in Nat
  BY <1>t, ClockLeaves DEF RestOK, Tick
<1>2. missed' = missed /\ up' \subseteq Processes
  BY <1>t, EditsLeave, WorkLeaves DEF RestOK, Next, Tick, PurgeTask, Crash, Restart, vars
<1>3. ASSUME NEW s \in Schedulers, EditOf(s), DocsOK'
      PROVE  first' \in [Schedulers -> Nat \cup {NoTime}] /\ overtaken' \subseteq Workers
  <2>1. schedulers'[s].deadline \in Nat
    BY <1>3 DEF DocsOK, Scheduler
  <2> QED
    BY <1>t, <1>3, <2>1 DEF RestOK, EditOf
<1>4. first' \in [Schedulers -> Nat \cup {NoTime}] /\ overtaken' \subseteq Workers
  <2>1. CASE \E s \in Schedulers : EditOf(s)
    BY <1>3, <2>1, StepDocs
  <2>2. CASE first' = first /\ overtaken' \subseteq overtaken
    BY <1>t, <2>2 DEF RestOK
  <2> QED
    BY <2>1, <2>2, Writes DEF Editing
<1> QED
  <2>1. missed' \in Policies
    BY <1>t, <1>2 DEF RestOK
  <2> QED
    BY <1>1, <1>2, <1>4, <2>1 DEF RestOK

-----------------------------------------------------------------------------
LEMMA InitInv == Init => Inv
BY InitDocs, InitWorkers, InitCalls, InitBeats, InitRest DEF Inv

LEMMA StepInv == Inv /\ [Next]_vars => Inv'
BY StepDocs, StepWorkers, StepCalls, StepBeats, StepRest DEF Inv

LEMMA InvHolds == Spec => []Inv
BY InitInv, StepInv, PTL DEF Spec

\* Every variable has its type, whatever edits, saves and workers' writes meet
\* (SchedulerEngine).
THEOREM TypeCorrect == Spec => []TypeOK
BY InvHolds, InvHasTypes, PTL

\* A scheduler nobody holds is claimable exactly at its deadline, so none is worked
\* early or forgotten: every write of one moves the lease with the deadline (_at,
\* _prepare, _keepStored, work()).
THEOREM UnheldAtDeadline == Spec => []ClaimableAtDeadline
<1>1. Inv => ClaimableAtDeadline
  BY DEF Inv, DocsOK, Fits, ClaimableAtDeadline
<1> QED
  BY <1>1, InvHolds, PTL

\* No beat's task is stored before its time has come: a claim is made when the
\* lease has run out, which is never before the deadline, and what is emitted is
\* the beat as claimed (work(), _emit).
THEOREM BeatsAreDue == Spec => []EmittedWhenDue
<1>1. Inv => EmittedWhenDue
  BY DEF Inv, BeatsOK
<1> QED
  BY <1>1, InvHolds, PTL

\* Unless missed="replay", the deadline a worker writes lies after the moment it
\* claimed at (work()).
THEOREM BacklogIsSkipped == Spec => NoBacklog
<1> DEFINE Step(w) ==
      /\ missed # "replay"
      /\ workers[w].step = "moving" /\ workers'[w] = Idle
      /\ schedulers'[workers[w].uid] # schedulers[workers[w].uid]
      => schedulers'[workers[w].uid].deadline > workers[w].at
<1>1. ASSUME Inv, [Next]_vars, NEW w \in Workers PROVE Step(w)
  <2> SUFFICES ASSUME missed # "replay",
                      workers[w].step = "moving", workers'[w] = Idle,
                      schedulers'[workers[w].uid] # schedulers[workers[w].uid]
               PROVE  schedulers'[workers[w].uid].deadline > workers[w].at
    OBVIOUS
  <2>1. MoveOn(w)
    BY <1>1, OnlyMovesOn DEF Inv, WorkersOK
  <2> DEFINE s == workers[w].uid
             next == NextDeadline(workers[w].copy, workers[w].interval, workers[w].at)
  <2>2. s \in Schedulers /\ workers[w] \in WorkerState
    BY <1>1 DEF Inv, WorkersOK, WorkerOK
  <2>3. next > workers[w].at
    BY <2>2, NextDeadlineLater DEF WorkerState
  <2>4. schedulers'[s].deadline = next
    BY <1>1, <2>1, <2>2 DEF MoveOn, LetGo, Inv, DocsOK, Scheduler
  <2> QED
    BY <2>3, <2>4
<1>2. (\A w \in Workers : Step(w)) => [\A w \in Workers :
        LET s == workers[w].uid
        IN  /\ missed # "replay"
            /\ workers[w].step = "moving" /\ workers'[w] = Idle
            /\ schedulers'[s] # schedulers[s]
            => schedulers'[s].deadline > workers[w].at]_vars
  OBVIOUS
<1> HIDE DEF Step
<1>3. Inv /\ [Next]_vars => \A w \in Workers : Step(w)
  BY <1>1
<1> QED
  BY <1>2, <1>3, InvHolds, PTL DEF Spec, NoBacklog

-----------------------------------------------------------------------------
(* Edits, and the claims they end                                          *)

\* What a step makes of one worker.
LEMMA WorkerSteps ==
  ASSUME Inv, [Next]_vars, NEW w \in Workers
  PROVE  \/ workers'[w] = workers[w]
         \/ Emit(w) \/ SkipBeat(w)
         \/ \E s \in Schedulers : Claim(w, s)
         \/ /\ workers'[w].step \in {"idle", "reading"}
            /\ workers[w].uid = NoScheduler \/ w \notin overtaken'
<1>t. workers \in [Workers -> WorkerState] /\ WorkerOK(w)
  BY DEF Inv, WorkersOK
<1>1. ASSUME NEW v \in Workers, v # w, Work(v) \/ WorkFails(v)
      PROVE  workers'[w] = workers[w]
  BY <1>t, <1>1 DEF Work, WorkFails, ReadClock, Claim, ClaimScheduler, FindNothing, Emit, SkipBeat,
              MoveOn, ClaimUnheard, Abort, Goto, ToMoving
<1>2. CASE ReadClock(w) \/ FindNothing(w) \/ \E s \in Schedulers : ClaimUnheard(w, s)
  <2>1. workers[w].step \in {"idle", "reading"}
    BY <1>2 DEF ReadClock, FindNothing, ClaimUnheard, ClaimScheduler, At
  <2>2. workers'[w].step \in {"idle", "reading"}
    <3>1. \/ workers' = [workers EXCEPT ![w] = [Idle EXCEPT !.step = "reading", !.at = now]]
          \/ workers' = [workers EXCEPT ![w] = Idle]
      BY <1>2 DEF ReadClock, FindNothing, ClaimUnheard, Goto
    <3>2. Idle.step = "idle" /\ [Idle EXCEPT !.step = "reading", !.at = now].step = "reading"
      BY DEF Idle
    <3> QED
      BY <1>t, <3>1, <3>2
  <2> QED
    BY <1>t, <2>1, <2>2 DEF WorkerOK
<1>3. CASE MoveOn(w) \/ Abort(w)
  BY <1>t, <1>3 DEF MoveOn, Abort, Goto, Idle
<1>4. ASSUME NEW p \in Processes, Crash(p)
      PROVE  \/ workers'[w] = workers[w]
             \/ workers'[w].step \in {"idle", "reading"} /\ w \notin overtaken'
  BY <1>4 DEF Crash, Idle
<1> QED
  BY <1>1, <1>2, <1>3, <1>4, EditsLeave
  DEF Next, Work, WorkFails, Tick, PurgeTask, Restart, vars

\* A claim that is lost never comes back but by an edit: no claim is made twice.
LEMMA HeldBefore ==
  ASSUME Inv, [Next]_vars, NEW s \in Schedulers, NEW w \in Workers,
         workers[w].copy.claimId # NoClaim,
         HeldBy(schedulers'[s], workers[w].copy.claimId)
  PROVE  Editing \/ schedulers'[s] = schedulers[s]
<1>t. schedulers \in [Schedulers -> Scheduler]
  BY DEF Inv, DocsOK
<1>1. ASSUME NEW v \in Workers, NEW r \in Schedulers, ClaimScheduler(v, r)
      PROVE  schedulers'[s] = schedulers[s]
  <2>1. NewClaim # workers[w].copy.claimId
    BY <1>1, NewClaimIsNew DEF ClaimScheduler, InUse
  <2>2. schedulers' = [schedulers EXCEPT ![r] = Claimed(@, NewClaim, workers[v].at, LeaseTime)]
    BY <1>1 DEF ClaimScheduler
  <2>3. Claimed(schedulers[r], NewClaim, workers[v].at, LeaseTime).claimId = NewClaim
    BY <1>t DEF Claimed, Scheduler
  <2> QED
    BY <1>t, <2>1, <2>2, <2>3 DEF HeldBy
<1>2. ASSUME NEW v \in Workers, MoveOn(v) PROVE schedulers'[s] = schedulers[s]
  <2> DEFINE r == workers[v].uid
             next == NextDeadline(workers[v].copy, workers[v].interval, workers[v].at)
             doc == [LetGo(schedulers[r]) EXCEPT !.deadline = next, !.leaseUntil = next]
  <2>1. schedulers' = schedulers \/ schedulers' = [schedulers EXCEPT ![r] = doc]
    BY <1>2 DEF MoveOn
  <2>2. r \in Schedulers
    BY <1>2 DEF Inv, WorkersOK, WorkerOK, MoveOn, At
  <2>3. doc.claimId = NoClaim
    <3> HIDE DEF next, r
    <3> QED
      BY <1>t, <2>2 DEF LetGo, Scheduler
  <2> HIDE DEF doc, r
  <2> QED
    BY <1>t, <2>1, <2>2, <2>3 DEF HeldBy
<1> QED
  BY <1>1, <1>2, Writes

\* A worker whose deadline was moved under it holds its scheduler no more, and never
\* will again.
OvertakenOK ==
  \A w \in overtaken :
    /\ workers[w].uid \in Schedulers
    /\ ~HeldBy(schedulers[workers[w].uid], workers[w].copy.claimId)

LEMMA StepOvertaken ==
  ASSUME Inv, OvertakenOK, [Next]_vars
  PROVE  OvertakenOK'
<1> SUFFICES ASSUME NEW w \in overtaken'
             PROVE  /\ workers'[w].uid \in Schedulers
                    /\ ~HeldBy(schedulers'[workers'[w].uid], workers'[w].copy.claimId)
  BY DEF OvertakenOK
<1> DEFINE s == workers[w].uid
<1>w. w \in Workers
  BY StepRest DEF RestOK
<1>1. ASSUME NEW r \in Schedulers, EditOf(r), UNCHANGED workers
      PROVE  s \in Schedulers /\ ~HeldBy(schedulers'[s], workers[w].copy.claimId)
  BY <1>w, <1>1 DEF EditOf, OvertakenOK
<1>2. CASE Editing
  BY <1>1, <1>2 DEF Editing
<1>3. CASE overtaken' \subseteq overtaken /\ ~Editing
  <2>1. s \in Schedulers /\ ~HeldBy(schedulers[s], workers[w].copy.claimId)
    BY <1>3 DEF OvertakenOK
  <2>2. /\ workers \in [Workers -> WorkerState]
        /\ workers[w].step \in {"emitting", "moving"}
        /\ workers[w].copy.claimId # NoClaim
    BY <1>w, <2>1, NullAssumption DEF Inv, WorkersOK, WorkerOK, WorkerState
  <2>3. ~HeldBy(schedulers'[s], workers[w].copy.claimId)
    BY <1>w, <1>3, <2>1, <2>2, HeldBefore
  <2>4. workers'[w].uid = s /\ workers'[w].copy = workers[w].copy
    <3>1. CASE Emit(w) \/ SkipBeat(w)
      BY <1>w, <2>2, <3>1 DEF Emit, SkipBeat, ToMoving, Goto, WorkerState
    <3>2. ~\E r \in Schedulers : Claim(w, r)
      BY <2>2 DEF Claim, ClaimScheduler, At
    <3>3. s # NoScheduler
      BY <2>1, NullAssumption
    <3>4. workers'[w] = workers[w] \/ Emit(w) \/ SkipBeat(w)
      <4>1. \/ workers'[w] = workers[w] \/ Emit(w) \/ SkipBeat(w)
            \/ workers[w].uid = NoScheduler \/ w \notin overtaken'
        BY <1>w, <3>2, WorkerSteps
      <4> QED
        BY <3>3, <4>1
    <3> QED
      BY <3>1, <3>4
  <2> QED
    BY <2>1, <2>3, <2>4
<1> QED
  BY <1>2, <1>3, Writes

\* "A deadline is only moved on if nobody moved it meanwhile": a worker whose
\* scheduler's deadline was moved by hand writes nothing over it (work(), _changes).
THEOREM DeadlinesStand == Spec => HandMoveStands
<1>1. Init => OvertakenOK
  BY DEF Init, OvertakenOK
<1>2. ASSUME Inv, OvertakenOK, [Next]_vars, NEW w \in overtaken,
             workers[w].step = "moving", workers'[w] = Idle
      PROVE  schedulers' = schedulers
  <2>1. w \in Workers /\ workers \in [Workers -> WorkerState]
    BY <1>2 DEF Inv, RestOK, WorkersOK
  <2>2. CASE MoveOn(w)
    BY <1>2, <2>2 DEF MoveOn, MayMoveOn, OvertakenOK
  <2> QED
    BY <1>2, <2>1, <2>2, OnlyMovesOn
<1>3. Inv /\ OvertakenOK /\ [Next]_vars =>
        [\A w \in overtaken :
           workers[w].step = "moving" /\ workers'[w] = Idle =>
             schedulers'[workers[w].uid] = schedulers[workers[w].uid]]_vars
  BY <1>2
<1>4. Inv /\ OvertakenOK /\ [Next]_vars => OvertakenOK'
  BY StepOvertaken
<1> QED
  BY <1>1, <1>3, <1>4, InvHolds, PTL DEF Spec, HandMoveStands

-----------------------------------------------------------------------------
(* Multiples of an interval                                                *)

LEMMA Divided ==
  ASSUME NEW x \in Nat, NEW i \in Nat \ {0}
  PROVE  x = i * (x \div i) + (x % i) /\ x % i \in 0 .. i - 1 /\ x \div i \in Nat
BY SMT

LEMMA NoRemainder ==
  ASSUME NEW x \in Nat, NEW i \in Nat \ {0}
  PROVE  (x - x) % i = 0
<1>1. x - x = 0
  OBVIOUS
<1>2. 0 % i = 0
  OBVIOUS
<1> QED
  BY <1>1, <1>2

LEMMA SameMultiple ==
  ASSUME NEW i \in Nat \ {0}, NEW a \in Nat, NEW b \in Nat, i * a <= i * b, i * b < i * a + i
  PROVE  a = b
BY SMT

LEMMA Distributes ==
  ASSUME NEW i \in Nat, NEW q \in Nat
  PROVE  i * (q + 1) = i * q + i /\ i * q \in Nat
OBVIOUS

LEMMA NextMultiple ==
  ASSUME NEW x \in Nat, NEW i \in Nat \ {0}, x % i = 0
  PROVE  (x + i) % i = 0
<1> DEFINE y == x + i
           q == x \div i
           r == y \div i
           m == y % i
<1>0. y \in Nat
  OBVIOUS
<1> HIDE DEF y
<1>1. q \in Nat /\ x = i * q
  BY Divided
<1>2. r \in Nat /\ m \in 0 .. i - 1 /\ y = i * r + m
  BY <1>0, Divided
<1> HIDE DEF q, r, m
<1>3. i * (q + 1) = i * q + i /\ i * q \in Nat /\ i * r \in Nat
  BY <1>1, <1>2, Distributes
<1>4. i * r <= i * (q + 1) /\ i * (q + 1) < i * r + i
  BY <1>1, <1>2, <1>3 DEF y
<1>5. r = q + 1
  BY <1>1, <1>2, <1>4, SameMultiple
<1>6. m = 0
  BY <1>1, <1>2, <1>3, <1>5 DEF y
<1> QED
  BY <1>6 DEF m, y

LEMMA OneMultiple ==
  ASSUME NEW x \in Nat, NEW y \in Nat, NEW i \in Nat \ {0},
         x % i = 0, y % i = 0, x <= y, y < x + i
  PROVE  x = y
<1> DEFINE q == x \div i
           r == y \div i
<1>1. /\ q \in Nat /\ x = i * q
      /\ r \in Nat /\ y = i * r
  BY Divided
<1> HIDE DEF q, r
<1> QED
  BY <1>1, SameMultiple

-----------------------------------------------------------------------------
(* No beat is lost                                                         *)

Replaying == missed = "replay" /\ Builders = Processes

\* The deadline of s lies on its rhythm, and every beat it has moved past was emitted.
OnRhythm(s, interval) ==
  /\ first[s] <= schedulers[s].deadline
  /\ (schedulers[s].deadline - first[s]) % interval = 0
  /\ \A beat \in first[s] .. schedulers[s].deadline - 1 :
       (beat - first[s]) % interval = 0 => <<s, beat>> \in emitted

RhythmOK(s) ==
  first[s] # NoTime =>
    /\ schedulers[s].status = "enabled"
    /\ \A interval \in IntervalsOf[schedulers[s].distribution] :
         IntervalsOf[schedulers[s].distribution] = {interval} => OnRhythm(s, interval)

\* A worker that still holds a scheduler on its rhythm has emitted its beat before it
\* moves on, by an interval of that rhythm.
HoldsOn(w) ==
  /\ workers[w].step \in {"emitting", "moving"}
  /\ first[workers[w].uid] # NoTime
  /\ HeldBy(schedulers[workers[w].uid], workers[w].copy.claimId)

PaceOK(w) ==
  HoldsOn(w) =>
    /\ workers[w].interval \in IntervalsOf[schedulers[workers[w].uid].distribution]
    /\ workers[w].step = "moving" => Beat(w) \in emitted

RhythmInv ==
  Replaying => /\ \A s \in Schedulers : RhythmOK(s)
               /\ \A w \in Workers : PaceOK(w)

LEMMA InitRhythm == Init => RhythmInv
BY DEF Init, RhythmInv, RhythmOK, PaceOK, HoldsOn, Idle

LEMMA EmittedGrows ==
  ASSUME [Next]_vars
  PROVE  emitted \subseteq emitted'
<1>1. ASSUME NEW w \in Workers, Work(w) \/ WorkFails(w) PROVE emitted \subseteq emitted'
  BY <1>1 DEF Work, WorkFails, ReadClock, Claim, ClaimScheduler, FindNothing, Emit, SkipBeat,
              MoveOn, ClaimUnheard, Abort, history
<1> QED
  BY <1>1, EditsLeave DEF Next, Tick, PurgeTask, Crash, Restart, vars, history

\* An edit starts the rhythm anew, or ends what is known of it.
LEMMA EditRhythm ==
  ASSUME Inv, RhythmInv, Replaying, [Next]_vars, Editing, NEW s \in Schedulers
  PROVE  RhythmOK(s)'
<1>t. /\ schedulers' \in [Schedulers -> Scheduler]
      /\ first \in [Schedulers -> Nat \cup {NoTime}]
      /\ RhythmOK(s)
  BY StepDocs DEF Inv, DocsOK, RestOK, RhythmInv
<1>1. PICK r \in Schedulers : EditOf(r)
  BY DEF Editing
<1>2. emitted' = emitted
  BY DEF Editing
<1>3. CASE r = s
  <2>1. CASE first'[s] # NoTime
    <3>1. first'[s] = schedulers'[s].deadline /\ schedulers'[s].status = "enabled"
      BY <1>t, <1>1, <1>3, <2>1 DEF EditOf
    <3>2. schedulers'[s].deadline \in Nat /\ schedulers'[s].distribution \in Distributions
      BY <1>t DEF Scheduler
    <3>3. ASSUME NEW interval \in Nat \ {0} PROVE OnRhythm(s, interval)'
      <4>1. (schedulers'[s].deadline - first'[s]) % interval = 0
        BY <3>1, <3>2, NoRemainder
      <4> QED
        BY <3>1, <3>2, <4>1 DEF OnRhythm
    <3>4. \A interval \in IntervalsOf[schedulers'[s].distribution] : interval \in Nat \ {0}
      BY <3>2, IntervalsAssumption
    <3> QED
      BY <3>1, <3>3, <3>4 DEF RhythmOK
  <2> QED
    BY <2>1 DEF RhythmOK
<1>4. CASE r # s
  <2>1. schedulers'[s] = schedulers[s] /\ first'[s] = first[s]
    BY <1>t, <1>1, <1>4 DEF EditOf
  <2> QED
    BY <1>t, <1>2, <2>1 DEF RhythmOK, OnRhythm
<1> QED
  BY <1>3, <1>4

\* Moving on by one interval, from a beat that was emitted.
LEMMA MoveRhythm ==
  ASSUME Inv, NEW s \in Schedulers, NEW interval \in Nat \ {0}, OnRhythm(s, interval),
         first[s] \in Nat, first'[s] = first[s], emitted' = emitted,
         <<s, schedulers[s].deadline>> \in emitted,
         schedulers'[s].deadline = schedulers[s].deadline + interval
  PROVE  OnRhythm(s, interval)'
<1> DEFINE f == first[s]
           d == schedulers[s].deadline
<1>t. f \in Nat /\ d \in Nat /\ f <= d
  BY DEF Inv, DocsOK, Scheduler, OnRhythm
<1>1. (d - f) % interval = 0
  BY DEF OnRhythm
<1>2. \A beat \in f .. d - 1 : (beat - f) % interval = 0 => <<s, beat>> \in emitted
  BY DEF OnRhythm
<1>3. first'[s] = f /\ schedulers'[s].deadline = d + interval /\ <<s, d>> \in emitted
  OBVIOUS
<1> HIDE DEF f, d
<1>4. (d + interval - f) % interval = 0
  <2> DEFINE x == d - f
  <2>1. x \in Nat /\ x % interval = 0
    BY <1>t, <1>1
  <2> HIDE DEF x
  <2>2. (x + interval) % interval = 0
    BY <2>1, NextMultiple
  <2>3. x + interval = d + interval - f
    BY <1>t DEF x
  <2> QED
    BY <2>2, <2>3
<1>5. ASSUME NEW beat \in f .. d + interval - 1, (beat - f) % interval = 0
      PROVE  <<s, beat>> \in emitted
  <2>1. CASE beat < d
    BY <1>t, <1>2, <1>5, <2>1
  <2>2. CASE d <= beat
    <3> DEFINE x == d - f
               y == beat - f
    <3>1. x \in Nat /\ y \in Nat /\ x <= y /\ y < x + interval
      BY <1>t, <2>2
    <3>2. x % interval = 0 /\ y % interval = 0
      BY <1>1, <1>5
    <3> HIDE DEF x, y
    <3>3. x = y
      BY <3>1, <3>2, OneMultiple
    <3>4. beat = d
      BY <1>t, <2>2, <3>3 DEF x, y
    <3> QED
      BY <1>3, <3>4
  <2> QED
    BY <1>t, <2>1, <2>2
<1> QED
  BY <1>t, <1>3, <1>4, <1>5 DEF OnRhythm

LEMMA StepRhythm ==
  ASSUME Inv, RhythmInv, Replaying, [Next]_vars, NEW s \in Schedulers
  PROVE  RhythmOK(s)'
<1>t. /\ schedulers \in [Schedulers -> Scheduler]
      /\ first \in [Schedulers -> Nat \cup {NoTime}]
      /\ RhythmOK(s)
  BY DEF Inv, DocsOK, RestOK, RhythmInv
\* A write that leaves the rhythm alone.
<1>s. ASSUME first' = first,
             schedulers'[s].status = schedulers[s].status,
             schedulers'[s].distribution = schedulers[s].distribution,
             schedulers'[s].deadline = schedulers[s].deadline
      PROVE  RhythmOK(s)'
  BY <1>t, <1>s, EmittedGrows DEF RhythmOK, OnRhythm
<1>1. ASSUME first' = first, NEW w \in Workers, NEW r \in Schedulers, ClaimScheduler(w, r)
      PROVE  RhythmOK(s)'
  BY <1>t, <1>s, <1>1 DEF ClaimScheduler, Claimed, Scheduler
<1>2. ASSUME NEW w \in Workers, MoveOn(w)
      PROVE  RhythmOK(s)'
  <2> DEFINE r == workers[w].uid
             next == NextDeadline(workers[w].copy, workers[w].interval, workers[w].at)
  <2>1. /\ workers[w].step = "moving" /\ r \in Schedulers
        /\ first' = first /\ emitted' = emitted
        /\ workers[w].copy.deadline \in Nat /\ workers[w].interval \in Nat \ {0}
    BY <1>2 DEF MoveOn, At, Inv, WorkersOK, WorkerOK, WorkerState, Scheduler
  <2>2. next = workers[w].copy.deadline + workers[w].interval
    BY DEF NextDeadline, Replaying
  <2>3. CASE schedulers'[s] = schedulers[s]
    BY <1>s, <2>1, <2>3
  <2>4. CASE r = s /\ MayMoveOn(schedulers[s], workers[w].copy) /\ first[s] # NoTime
    <3>1. /\ schedulers'[s].status = schedulers[s].status
          /\ schedulers'[s].distribution = schedulers[s].distribution
          /\ schedulers'[s].deadline = next
      BY <1>t, <1>2, <2>4 DEF MoveOn, LetGo, Scheduler
    <3>2. /\ HeldBy(schedulers[s], workers[w].copy.claimId)
          /\ workers[w].copy.deadline = schedulers[s].deadline
      BY <2>4 DEF MayMoveOn
    <3>3. /\ workers[w].interval \in IntervalsOf[schedulers[s].distribution]
          /\ <<s, schedulers[s].deadline>> \in emitted
      BY <2>1, <2>4, <3>2 DEF RhythmInv, PaceOK, HoldsOn, Beat
    <3>4. first[s] \in Nat
      BY <1>t, <2>4
    <3>5. ASSUME NEW interval \in IntervalsOf[schedulers[s].distribution],
                 IntervalsOf[schedulers[s].distribution] = {interval}
          PROVE  OnRhythm(s, interval)'
      <4>1. interval = workers[w].interval /\ interval \in Nat \ {0}
        BY <2>1, <3>3, <3>5
      <4>2. OnRhythm(s, interval)
        BY <1>t, <2>4, <3>5 DEF RhythmOK
      <4>3. schedulers'[s].deadline = schedulers[s].deadline + interval
        BY <2>2, <3>1, <3>2, <4>1
      <4> QED
        BY <2>1, <3>3, <3>4, <4>1, <4>2, <4>3, MoveRhythm
    <3> QED
      BY <1>t, <2>4, <3>1, <3>5 DEF RhythmOK
  <2>5. CASE first[s] = NoTime
    BY <2>1, <2>5 DEF RhythmOK
  <2>6. schedulers'[s] = schedulers[s] \/ (r = s /\ MayMoveOn(schedulers[s], workers[w].copy))
    BY <1>t, <1>2 DEF MoveOn
  <2> QED
    BY <2>3, <2>4, <2>5, <2>6
<1>3. CASE first' = first /\ schedulers' = schedulers
  BY <1>s, <1>3
<1> QED
  BY <1>1, <1>2, <1>3, Writes, EditRhythm

LEMMA StepPace ==
  ASSUME Inv, RhythmInv, Replaying, [Next]_vars, NEW w \in Workers
  PROVE  PaceOK(w)'
<1>t. /\ schedulers \in [Schedulers -> Scheduler]
      /\ workers \in [Workers -> WorkerState]
      /\ first \in [Schedulers -> Nat \cup {NoTime}]
      /\ WorkerOK(w) /\ PaceOK(w)
      /\ \A s \in Schedulers : RhythmOK(s)
  BY DEF Inv, DocsOK, WorkersOK, RestOK, RhythmInv
<1> DEFINE s == workers[w].uid
\* A worker that still holds its scheduler finds it and its rhythm as they were.
<1>h. ASSUME workers[w].step \in {"emitting", "moving"},
             HeldBy(schedulers'[s], workers[w].copy.claimId), first'[s] # NoTime
      PROVE  s \in Schedulers /\ schedulers'[s] = schedulers[s] /\ first'[s] = first[s]
  <2>1. s \in Schedulers /\ workers[w].copy.claimId # NoClaim
    BY <1>t, <1>h DEF WorkerOK
  <2>2. CASE Editing
    <3>1. PICK r \in Schedulers : EditOf(r)
      BY <2>2 DEF Editing
    <3>2. r # s
      BY <1>t, <1>h, <2>1, <3>1 DEF EditOf, HeldBy
    <3> QED
      BY <1>t, <2>1, <3>1, <3>2 DEF EditOf
  <2>3. CASE ~Editing
    BY <1>h, <2>1, <2>3, HeldBefore, Writes
  <2> QED
    BY <2>2, <2>3
<1>1. CASE workers'[w] = workers[w]
  <2> SUFFICES ASSUME HoldsOn(w)'
               PROVE  /\ workers'[w].interval \in IntervalsOf[schedulers'[workers'[w].uid].distribution]
                      /\ workers'[w].step = "moving" => Beat(w)' \in emitted'
    BY DEF PaceOK
  <2>1. s \in Schedulers /\ schedulers'[s] = schedulers[s] /\ first'[s] = first[s]
    BY <1>h, <1>1 DEF HoldsOn
  <2>2. HoldsOn(w)
    BY <1>1, <2>1 DEF HoldsOn
  <2>3. Beat(w)' = Beat(w)
    BY <1>1 DEF Beat
  <2> QED
    BY <1>t, <1>1, <2>1, <2>2, <2>3, EmittedGrows DEF PaceOK
<1>2. CASE Emit(w)
  <2>1. /\ workers[w].step = "emitting"
        /\ workers'[w] = [workers[w] EXCEPT !.step = "moving"]
        /\ schedulers' = schedulers /\ first' = first
        /\ Beat(w) \in emitted'
    BY <1>t, <1>2 DEF Emit, At, ToMoving, Goto
  <2>2. /\ workers'[w].uid = workers[w].uid /\ workers'[w].copy = workers[w].copy
        /\ workers'[w].interval = workers[w].interval
    BY <1>t, <2>1 DEF WorkerState
  <2>3. Beat(w)' = Beat(w)
    BY <2>2 DEF Beat
  <2>4. HoldsOn(w)' => HoldsOn(w)
    BY <2>1, <2>2 DEF HoldsOn
  <2> QED
    BY <1>t, <2>1, <2>2, <2>3, <2>4 DEF PaceOK
<1>3. ~SkipBeat(w)
  BY HomeAssumption DEF SkipBeat, Replaying
<1>4. ASSUME NEW r \in Schedulers, Claim(w, r) PROVE PaceOK(w)'
  <2>1. PICK interval \in IntervalsOf[schedulers[r].distribution] :
          Goto(w, [step |-> IF Emits(schedulers[r], interval, workers[w].at)
                            THEN "emitting" ELSE "moving",
                   at |-> workers[w].at, uid |-> r, copy |-> schedulers'[r],
                   interval |-> interval])
    BY <1>4 DEF Claim
  <2>2. /\ workers'[w].uid = r /\ workers'[w].interval = interval
        /\ workers'[w].step = IF Emits(schedulers[r], interval, workers[w].at)
                              THEN "emitting" ELSE "moving"
    BY <1>t, <2>1 DEF Goto
  <2>3. first' = first /\ schedulers'[r].distribution = schedulers[r].distribution
    BY <1>t, <1>4 DEF Claim, ClaimScheduler, Claimed, Scheduler
  <2>4. CASE first[r] = NoTime
    BY <2>2, <2>3, <2>4 DEF PaceOK, HoldsOn
  <2>5. CASE first[r] # NoTime
    <3>1. Emits(schedulers[r], interval, workers[w].at)
      BY <1>t, <2>5 DEF Emits, RhythmOK, Replaying
    <3> QED
      BY <2>2, <2>3, <3>1 DEF PaceOK
  <2> QED
    BY <2>4, <2>5
<1>5. CASE workers'[w].step \in {"idle", "reading"}
  BY <1>5 DEF PaceOK, HoldsOn
<1> QED
  BY <1>1, <1>2, <1>3, <1>4, <1>5, WorkerSteps

\* With missed="replay" no beat is lost: a worker that dies between a beat's claim,
\* its task and its new deadline leaves the beat to the next, and the deadline moves
\* past it only under the claim that emitted it (work(), _emit).
THEOREM EveryBeatEmitted == Spec => []NoBeatLost
<1>1. Inv /\ RhythmInv /\ [Next]_vars => RhythmInv'
  <2> SUFFICES ASSUME Inv, RhythmInv, [Next]_vars, Replaying'
               PROVE  (\A s \in Schedulers : RhythmOK(s)') /\ (\A w \in Workers : PaceOK(w)')
    BY DEF RhythmInv
  <2>1. Replaying
    BY EditsLeave, WorkLeaves DEF Replaying, Next, Tick, PurgeTask, Crash, Restart, vars
  <2> QED
    BY <2>1, StepRhythm, StepPace
<1>2. Inv /\ RhythmInv => NoBeatLost
  BY DEF RhythmInv, Replaying, RhythmOK, OnRhythm, NoBeatLost
<1> QED
  BY <1>1, <1>2, InitRhythm, InvHolds, PTL DEF Spec

-----------------------------------------------------------------------------
(* A beat emitted again.  The unique index of the task collection refuses  *)
(* a beat whose task is stored, so a beat is stored twice only if its task *)
(* was purged in between.                                                  *)

LongDue(beat) == \E age \in PurgeAges : beat[2] < now - age

PurgedIsLongDue == \A beat \in emitted \ queued : LongDue(beat)

\* Who touches the task collection.
LEMMA BeatSteps ==
  ASSUME [Next]_vars
  PROVE  \/ \E w \in Workers : Emit(w)
         \/ \E beat \in queued, age \in PurgeAges : PurgeTask(beat, age)
         \/ UNCHANGED <<queued, emitted, again>>
BY EditsLeave
   DEF Next, Tick, Work, WorkFails, ReadClock, Claim, ClaimScheduler, FindNothing, SkipBeat, MoveOn,
       ClaimUnheard, Abort, Crash, Restart, vars, history

\* What was long due stays so.
LEMMA LongDueStays ==
  ASSUME Inv, [Next]_vars, NEW beat \in emitted, LongDue(beat)
  PROVE  LongDue(beat)'
<1>t. now \in Nat /\ beat[2] \in Nat
  BY DEF Inv, RestOK, BeatsOK
<1>1. PICK age \in PurgeAges : beat[2] < now - age
  BY DEF LongDue
<1>2. age \in Nat
  BY NullAssumption
<1>3. now' = now \/ now' = now + 1
  BY ClockLeaves DEF Tick
<1>4. beat[2] < now' - age
  BY <1>t, <1>1, <1>2, <1>3
<1> QED
  BY <1>4 DEF LongDue

LEMMA StepPurged ==
  ASSUME Inv, PurgedIsLongDue, [Next]_vars
  PROVE  PurgedIsLongDue'
<1> SUFFICES ASSUME NEW beat \in emitted' \ queued' PROVE LongDue(beat)'
  BY DEF PurgedIsLongDue
<1>1. CASE beat \in emitted \ queued
  BY <1>1, LongDueStays DEF PurgedIsLongDue
<1>2. ASSUME NEW age \in PurgeAges, PurgeTask(beat, age) PROVE LongDue(beat)'
  BY <1>2 DEF PurgeTask, LongDue
<1>3. beat \in emitted \ queued \/ \E age \in PurgeAges : PurgeTask(beat, age)
  BY BeatSteps DEF Emit, PurgeTask, history
<1> QED
  BY <1>1, <1>2, <1>3

LEMMA PurgedHolds == Spec => [](Inv /\ PurgedIsLongDue)
<1>1. Init => PurgedIsLongDue
  BY DEF Init, PurgedIsLongDue
<1> QED
  BY <1>1, StepPurged, InitInv, StepInv, PTL DEF Spec

\* A beat is emitted again only once its deadline lies an age back that tasks are purged
\* at: by no worker that died, stalled or lost its claim within that time (_emit, fixed
\* uid; TaskEngine.purge).
AgainOnlyLongDue == [][\A beat \in again' \ again : LongDue(beat)]_vars

THEOREM RepeatsAreLongDue == Spec => AgainOnlyLongDue
<1>1. ASSUME PurgedIsLongDue, [Next]_vars PROVE \A beat \in again' \ again : LongDue(beat)
  BY <1>1, BeatSteps DEF Emit, PurgeTask, history, PurgedIsLongDue
<1> QED
  BY <1>1, PurgedHolds, PTL DEF Spec, AgainOnlyLongDue

\* If the tasks of beats are never purged, no beat is emitted twice, whichever workers die,
\* stall past their lease or find their claim lost: the promise of README.md, with the
\* purge as its only exception.
THEOREM BeatsOnceUnlessPurged == ASSUME PurgeAges = {} PROVE Spec => []BeatOnce
<1>1. PurgedIsLongDue => emitted \subseteq queued
  BY DEF PurgedIsLongDue, LongDue
<1>2. Inv /\ PurgedIsLongDue /\ BeatOnce /\ [Next]_vars => BeatOnce'
  BY <1>1, BeatSteps DEF Emit, PurgeTask, history, BeatOnce
<1>3. Init => BeatOnce
  BY DEF Init, BeatOnce
<1> QED
  BY <1>2, <1>3, PurgedHolds, PTL DEF Spec
=============================================================================
