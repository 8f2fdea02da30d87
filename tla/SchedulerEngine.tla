--------------------------- MODULE SchedulerEngine ---------------------------
(***************************************************************************)
(* src/src/pymonque/schedulers.py: schedulers, each emitting a task into a *)
(* task engine on its rhythm.                                              *)
(*                                                                         *)
(* Several processes share the collection.  A worker that finds a          *)
(* scheduler's beat due claims it, emits the beat's task -- a write to     *)
(* another collection -- and moves the deadline on, three writes with a    *)
(* chance to die between any two.  Meanwhile processes starting up declare *)
(* the same schedulers (ensure), and operators update, save, disable and   *)
(* delete them, each reading before it writes.                             *)
(*                                                                         *)
(* A beat is a scheduler and a deadline.  Its task's uid is fixed to it,   *)
(* so the task collection's unique index refuses it while that task is     *)
(* stored.  Of that collection only this is kept: which beats are there.   *)
(***************************************************************************)
EXTENDS Claims

CONSTANTS
  Schedulers,      \* the uids of the schedulers
  Processes, Workers, Home,
  Builders,        \* the processes whose app can build the tasks emitted
  Distributions,   \* the calls a scheduler draws its intervals from
  IntervalsOf,     \* the intervals each may return, in ticks
  Policies,        \* what settings.missed may be
  ClaimIds,        \* the claimIds claims are made with (bound: while one is left)
  LeaseTime,       \* settings.leaseSeconds, in ticks
  Clients,         \* those that edit schedulers
  Calls,           \* which of {"create", "change", "save", "delete"} each makes
  Moves,           \* the deadlines set by hand
  PurgeAges,       \* how long after they ended the task engine's tasks are purged
  NoScheduler,
  AsStored,        \* what an edit leaves out
  MaxTime,         \* bound: the clock stops here
  FaultsUntil,     \* bound: processes die and writes fail only before this time
  EditsUntil       \* bound: schedulers are edited only before this time

ASSUME HomeAssumption == Home \in [Workers -> Processes] /\ Builders \subseteq Processes
ASSUME PoliciesAssumption == Policies \subseteq {"skip", "once", "replay"}
\* DistributionEngine.gen refuses an interval that is not positive.
ASSUME IntervalsAssumption ==
  Distributions # {} /\ IntervalsOf \in [Distributions -> SUBSET (Nat \ {0})]
ASSUME ClaimsAssumption == ClaimIds \subseteq Nat \ {NoClaim}
ASSUME TimesAssumption == LeaseTime \in Nat \ {0} /\ MaxTime \in Nat /\ Moves \subseteq Nat
ASSUME CallsAssumption == Calls \in [Clients -> SUBSET {"create", "change", "save", "delete"}]
ASSUME NullAssumption == NoScheduler \notin Schedulers /\ PurgeAges \subseteq Nat

VARIABLES
  missed,     \* settings.missed, which never changes
  now, schedulers, workers, clients, up,
  queued,     \* the beats whose task is in the task collection
  emitted,    \* the beats a task was ever stored for (a history variable)
  again,      \* ... and those it was stored for once more (a history variable)
  first,      \* scheduler -> the deadline its rhythm has run from undisturbed, if
              \* known (a history variable)
  overtaken   \* the workers whose scheduler was edited under them (a history variable)

history == <<emitted, again, first, overtaken>>

vars == <<missed, now, schedulers, workers, clients, up, queued, history>>

-----------------------------------------------------------------------------
(* Schedulers                                                              *)

AnyDistribution == CHOOSE d \in Distributions : TRUE

Absent == [status |-> "absent", distribution |-> AnyDistribution, deadline |-> 0,
           leaseUntil |-> 0, claimId |-> NoClaim]

Stored(s) == schedulers[s].status # "absent"

\* Mutant of NewScheduler: declared without _prepare, which gives it its lease.
UnpreparedScheduler(status, distribution, deadline) ==
  [Absent EXCEPT !.status = status, !.distribution = distribution, !.deadline = deadline,
                 !.leaseUntil = NoTime]

\* _prepare: a scheduler nobody holds is claimable at its deadline.
Prepared(doc) == IF doc.claimId = NoClaim THEN [doc EXCEPT !.leaseUntil = doc.deadline] ELSE doc

NewScheduler(status, distribution, deadline) ==
  Prepared([Absent EXCEPT !.status = status, !.distribution = distribution,
                          !.deadline = deadline])

-----------------------------------------------------------------------------
(* Workers: `copy` is the scheduler as the claim left it.                   *)

Idle == [step |-> "idle", at |-> 0, uid |-> NoScheduler, copy |-> Absent, interval |-> 1]

Alive(w) == Home[w] \in up

At(w, step) == Alive(w) /\ workers[w].step = step

Goto(w, state) == workers' = [workers EXCEPT ![w] = state]

\* Clients: `hand` is what the call is about to write.
NoCall == [step |-> "idle", uid |-> NoScheduler, hand |-> Absent]

\* A uuid never made before; here, one that nothing in the system still names,
\* which no step can tell from it.
InUse ==
  {schedulers[s].claimId : s \in Schedulers}
    \cup {workers[w].copy.claimId : w \in Workers}
    \cup {clients[c].hand.claimId : c \in Clients}

NewClaim == CHOOSE id \in ClaimIds : id \notin InUse

-----------------------------------------------------------------------------
Init ==
  /\ missed \in Policies
  /\ now = 0
  /\ schedulers = [s \in Schedulers |-> Absent]
  /\ workers = [w \in Workers |-> Idle]
  /\ clients = [c \in Clients |-> NoCall]
  /\ up = Processes
  /\ queued = {}
  /\ emitted = {}
  /\ again = {}
  /\ first = [s \in Schedulers |-> NoTime]
  /\ overtaken = {}

Tick ==
  /\ now < MaxTime
  /\ now' = now + 1
  /\ UNCHANGED <<missed, schedulers, workers, clients, up, queued, history>>

-----------------------------------------------------------------------------
(* work(): claim, emit, move on                                            *)

ReadClock(w) ==
  /\ At(w, "idle")
  /\ Goto(w, [Idle EXCEPT !.step = "reading", !.at = now])
  /\ UNCHANGED <<missed, now, schedulers, clients, up, queued, history>>

\* Mutant of Claimable: a scheduler a dead worker left claimed is never found.
ClaimableUnheld == {s \in Schedulers : Stored(s) /\ schedulers[s].claimId = NoClaim}

Claimable == {s \in Schedulers : Stored(s)}

ClaimScheduler(w, s) ==
  /\ At(w, "reading")
  /\ s \in NextDue(schedulers, Claimable, workers[w].at)
  /\ ClaimIds \ InUse # {}
  /\ schedulers' = [schedulers EXCEPT ![s] = Claimed(@, NewClaim, workers[w].at, LeaseTime)]
  /\ UNCHANGED <<missed, now, clients, up, queued, emitted, again, first>>

\* A whole beat came and went unworked.
Behind(doc, interval, at) == doc.deadline + interval <= at

\* Whether work() emits the beat it claimed.
Emits(doc, interval, at) ==
  doc.status = "enabled" /\ ~(Behind(doc, interval, at) /\ missed = "skip")

\* Mutant of NextDeadline: the backlog is walked beat by beat.
NextBeat(doc, interval, at) == doc.deadline + interval

\* Only "replay" walks a backlog beat by beat.
NextDeadline(doc, interval, at) ==
  IF missed = "replay" \/ ~Behind(doc, interval, at) THEN doc.deadline + interval ELSE at + interval

Claim(w, s) ==
  /\ ClaimScheduler(w, s)
  /\ \E interval \in IntervalsOf[schedulers[s].distribution] :
       Goto(w, [step |-> IF Emits(schedulers[s], interval, workers[w].at)
                         THEN "emitting" ELSE "moving",
                at |-> workers[w].at, uid |-> s, copy |-> schedulers'[s], interval |-> interval])
  /\ UNCHANGED overtaken

FindNothing(w) ==
  /\ At(w, "reading")
  /\ NextDue(schedulers, Claimable, workers[w].at) = {}
  /\ Goto(w, Idle)
  /\ UNCHANGED <<missed, now, schedulers, clients, up, queued, history>>

Beat(w) == <<workers[w].uid, workers[w].copy.deadline>>

\* Who has gone on to another step of work() than moving on.
ToMoving(w) == Goto(w, [workers[w] EXCEPT !.step = "moving"])

\* _emit: stored, unless the beat's task already is ...
Emit(w) ==
  /\ At(w, "emitting")
  /\ Home[w] \in Builders
  /\ queued' = queued \cup {Beat(w)}
  /\ emitted' = emitted \cup {Beat(w)}
  /\ again' = IF Beat(w) \in emitted \ queued THEN again \cup {Beat(w)} ELSE again
  /\ ToMoving(w)
  /\ UNCHANGED <<missed, now, schedulers, clients, up, first, overtaken>>

\* ... and skipped, if this app cannot build it.
SkipBeat(w) ==
  /\ At(w, "emitting")
  /\ Home[w] \notin Builders
  /\ ToMoving(w)
  /\ UNCHANGED <<missed, now, schedulers, clients, up, queued, history>>

\* Mutant of MayMoveOn: a deadline moved by hand is written over.
MayMoveOnAnyway(doc, copy) == doc.status # "absent"

\* The filter of work()'s last write: the claim holds, and nobody moved the deadline.
MayMoveOn(doc, copy) ==
  doc.status # "absent" /\ HeldBy(doc, copy.claimId) /\ doc.deadline = copy.deadline

MoveOn(w) ==
  LET s    == workers[w].uid
      next == NextDeadline(workers[w].copy, workers[w].interval, workers[w].at)
  IN  /\ At(w, "moving")
      /\ schedulers' = IF MayMoveOn(schedulers[s], workers[w].copy)
                       THEN [schedulers EXCEPT ![s] = [LetGo(@) EXCEPT !.deadline = next,
                                                                       !.leaseUntil = next]]
                       ELSE schedulers
      /\ Goto(w, Idle)
      /\ overtaken' = overtaken \ {w}
      /\ UNCHANGED <<missed, now, clients, up, queued, emitted, again, first>>

\* work() raises with the scheduler claimed: the answer of the claim is lost, the
\* distribution is gone or returns no interval, or a later write fails.
ClaimUnheard(w, s) ==
  /\ now < FaultsUntil
  /\ ClaimScheduler(w, s)
  /\ Goto(w, Idle)
  /\ UNCHANGED overtaken

Abort(w) ==
  /\ now < FaultsUntil
  /\ At(w, "emitting") \/ At(w, "moving")
  /\ Goto(w, Idle)
  /\ overtaken' = overtaken \ {w}
  /\ UNCHANGED <<missed, now, schedulers, clients, up, queued, emitted, again, first>>

-----------------------------------------------------------------------------
(* Editing schedulers                                                      *)

MayEdit(c, call) == call \in Calls[c] /\ now < EditsUntil /\ up # {} /\ clients[c] = NoCall

Write(c, call) ==
  /\ clients' = [clients EXCEPT ![c] = call]
  /\ UNCHANGED <<missed, now, schedulers, workers, up, queued, history>>

\* What a write over scheduler s does to the history: its rhythm starts here, or
\* nobody knows where, if a worker holds it; and whose deadline moved under whom.
Edited(s, moved) ==
  LET after   == schedulers'[s]
      working == {w \in Workers : workers[w].uid = s}
      holding == {w \in working : HeldBy(after, workers[w].copy.claimId)}
  IN  /\ first' = [first EXCEPT ![s] = IF after.claimId = NoClaim /\ after.status = "enabled"
                                       THEN after.deadline ELSE NoTime]
      /\ overtaken' = (IF moved THEN overtaken \cup working ELSE overtaken) \ holding
      /\ UNCHANGED <<missed, now, workers, up, queued, emitted, again>>

EndCall(c) == clients' = [clients EXCEPT ![c] = NoCall]

\* The first beat of a new scheduler: one interval from now, unless given a deadline.
FirstDeadlines(distribution) ==
  Moves \cup {now + interval : interval \in IntervalsOf[distribution]}

\* add(), and ensure() of a scheduler it does not find.
BeginCreate(c, s, distribution, status) ==
  /\ MayEdit(c, "create")
  /\ ~Stored(s)
  /\ \E deadline \in FirstDeadlines(distribution) :
       Write(c, [step |-> "creating", uid |-> s,
                 hand |-> NewScheduler(status, distribution, deadline)])

\* Mutant of Declared: $set, so that whoever declares it last starts it anew.
DeclaredAnew(doc, hand) == hand

\* $setOnInsert: of processes declaring it at once, one stores it, and it stands.
Declared(doc, hand) == IF doc.status = "absent" THEN hand ELSE doc

\* The history takes it for an edit only if it stores one.
Create(c) ==
  LET s == clients[c].uid
  IN  /\ clients[c].step = "creating"
      /\ schedulers' = [schedulers EXCEPT ![s] = Declared(@, clients[c].hand)]
      /\ IF Stored(s) THEN UNCHANGED <<missed, now, workers, up, queued, history>>
                      ELSE Edited(s, FALSE)
      /\ EndCall(c)

\* update(), and ensure() of a scheduler it finds, with _changes(): a deadline
\* moved by hand, a distribution, enabled or disabled.  Another distribution than
\* the one read starts its rhythm from now.
BeginChange(c, s, deadline, d, status) ==
  LET restarts == d \notin {AsStored, schedulers[s].distribution}
  IN  /\ MayEdit(c, "change")
      /\ Stored(s)
      /\ \E interval \in IF restarts THEN IntervalsOf[d] ELSE {0} :
           Write(c, [step |-> "changing", uid |-> s,
                     hand |-> [Absent EXCEPT
                                !.status = status, !.distribution = d,
                                !.deadline = IF restarts THEN now + interval ELSE deadline]])

\* Mutant of Moved: the lease stays where it was.
MovedWithoutLease(doc, deadline) ==
  IF deadline = NoTime THEN doc ELSE [LetGo(doc) EXCEPT !.deadline = deadline]

\* The $set of what changed; a new deadline takes the lease with it, and releases
\* whatever claim holds the beat it replaces.
Moved(doc, deadline) ==
  IF deadline = NoTime THEN doc
  ELSE [LetGo(doc) EXCEPT !.deadline = deadline, !.leaseUntil = deadline]

Changed(doc, hand) ==
  [Moved(doc, hand.deadline) EXCEPT
     !.status = IF hand.status = AsStored THEN @ ELSE hand.status,
     !.distribution = IF hand.distribution = AsStored THEN @ ELSE hand.distribution]

Change(c) ==
  LET s    == clients[c].uid
      hand == clients[c].hand
  IN  /\ clients[c].step = "changing"
      /\ IF Stored(s)
         THEN /\ schedulers' = [schedulers EXCEPT ![s] = Changed(@, hand)]
              /\ Edited(s, hand.deadline # NoTime)
         ELSE UNCHANGED <<missed, now, schedulers, workers, up, queued, history>>
      /\ EndCall(c)

\* save(), upsert(): the copy in hand has a distribution and a deadline of its own;
\* _keepStored puts back the rest as stored, but releases a claim on another
\* deadline.  _keepFresh: one not stored starts anew.
Kept(doc, distribution, deadline) ==
  Prepared([doc EXCEPT !.distribution = distribution, !.deadline = deadline,
                       !.claimId = IF doc.deadline = deadline THEN @ ELSE NoClaim])

BeginSave(c, s, distribution, deadline) ==
  /\ MayEdit(c, "save")
  /\ Write(c, [step |-> "saving", uid |-> s,
               hand |-> IF Stored(s) THEN Kept(schedulers[s], distribution, deadline)
                                     ELSE NewScheduler("enabled", distribution, deadline)])

\* replace_one with upsert.
Save(c) ==
  LET s == clients[c].uid
  IN  /\ clients[c].step = "saving"
      /\ schedulers' = [schedulers EXCEPT ![s] = clients[c].hand]
      /\ Edited(s, clients[c].hand.deadline # schedulers[s].deadline)
      /\ EndCall(c)

Delete(c, s) ==
  /\ MayEdit(c, "delete")
  /\ Stored(s)
  /\ schedulers' = [schedulers EXCEPT ![s] = Absent]
  /\ Edited(s, FALSE)
  /\ UNCHANGED clients

-----------------------------------------------------------------------------
(* The task engine, and processes                                          *)

\* The task of a beat ended, which it cannot do before it is due, and is purged:
\* TaskEngine.purge, or the app's cleanup.
PurgeTask(beat, age) ==
  /\ beat \in queued
  /\ beat[2] < now - age
  /\ queued' = queued \ {beat}
  /\ UNCHANGED <<missed, now, schedulers, workers, clients, up, history>>

\* (A client's call whose process died takes no further step.)
Crash(p) ==
  /\ now < FaultsUntil
  /\ p \in up
  /\ up' = up \ {p}
  /\ workers' = [w \in Workers |-> IF Home[w] = p THEN Idle ELSE workers[w]]
  /\ overtaken' = {w \in overtaken : Home[w] # p}
  /\ UNCHANGED <<missed, now, schedulers, clients, queued, emitted, again, first>>

Restart(p) ==
  /\ p \notin up
  /\ up' = up \cup {p}
  /\ UNCHANGED <<missed, now, schedulers, workers, clients, queued, history>>

-----------------------------------------------------------------------------
Work(w) ==
  \/ ReadClock(w)
  \/ \E s \in Schedulers : Claim(w, s)
  \/ FindNothing(w)
  \/ Emit(w)
  \/ SkipBeat(w)
  \/ MoveOn(w)

WorkFails(w) == Abort(w) \/ \E s \in Schedulers : ClaimUnheard(w, s)

Edit(c) ==
  \/ \E s \in Schedulers, d \in Distributions, status \in {"enabled", "disabled"} :
       BeginCreate(c, s, d, status)
  \/ Create(c)
  \/ \E s \in Schedulers, deadline \in Moves \cup {NoTime}, d \in Distributions \cup {AsStored},
        status \in {"enabled", "disabled", AsStored} :
       BeginChange(c, s, deadline, d, status)
  \/ Change(c)
  \/ \E s \in Schedulers, d \in Distributions : \E deadline \in Moves \cup {schedulers[s].deadline} :
       BeginSave(c, s, d, deadline)
  \/ Save(c)
  \/ \E s \in Schedulers : Delete(c, s)

Next ==
  \/ Tick
  \/ \E w \in Workers : Work(w) \/ WorkFails(w)
  \/ \E c \in Clients : Edit(c)
  \/ \E beat \in queued, age \in PurgeAges : PurgeTask(beat, age)
  \/ \E p \in Processes : Crash(p) \/ Restart(p)

Spec == Init /\ [][Next]_vars

(* Fairness.  Time passes, worker loops keep calling work(), whose steps    *)
(* return, and a process that died is started again.                       *)
Fairness ==
  /\ WF_vars(Tick)
  /\ \A w \in Workers : WF_vars(Work(w))
  /\ \A p \in Processes : WF_vars(Restart(p))

FairSpec == Spec /\ Fairness

-----------------------------------------------------------------------------
(* Properties                                                              *)

Scheduler == [status : {"absent", "enabled", "disabled"}, distribution : Distributions,
              deadline : Nat, leaseUntil : Nat, claimId : Nat]

WorkerState == [step : {"idle", "reading", "emitting", "moving"}, at : Nat,
                uid : Schedulers \cup {NoScheduler}, copy : Scheduler, interval : Nat \ {0}]

\* Every variable has its type.
TypeOK ==
  /\ missed \in Policies
  /\ now \in Nat
  /\ schedulers \in [Schedulers -> Scheduler]
  /\ workers \in [Workers -> WorkerState]
  /\ DOMAIN clients = Clients
  /\ up \subseteq Processes
  /\ again \subseteq emitted /\ queued \subseteq emitted /\ emitted \subseteq Schedulers \X Nat
  /\ first \in [Schedulers -> Nat \cup {NoTime}]
  /\ overtaken \subseteq Workers

\* "A beat is never emitted twice" (README.md): whichever workers die, stall past
\* their lease or find their claim lost, no beat's task is stored a second time.
BeatOnce == again = {}

\* No beat is emitted before its time has come, whoever moves deadlines forward or
\* back, or puts back a copy, between a worker's claim and its writes.
EmittedWhenDue == \A beat \in emitted : beat[2] <= now

\* "a scheduler nobody holds is claimable exactly at its deadline, so every write
\* of one moves the lease with it" (SchedulerEngine._at): whatever order edits,
\* saves and the workers' own writes land in.
ClaimableAtDeadline ==
  \A s \in Schedulers :
    Stored(s) /\ schedulers[s].claimId = NoClaim => schedulers[s].leaseUntil = schedulers[s].deadline

\* With missed="replay" no beat is lost: of a scheduler left alone since `first`, on
\* a constant interval, every beat its deadline has moved past was emitted --
\* however often workers died between its claim, its task and its new deadline.
NoBeatLost ==
  missed = "replay" /\ Builders = Processes =>
    \A s \in Schedulers : Stored(s) /\ first[s] # NoTime =>
      \A interval \in IntervalsOf[schedulers[s].distribution] :
        IntervalsOf[schedulers[s].distribution] = {interval} =>
          \A beat \in first[s] .. schedulers[s].deadline - 1 :
            (beat - first[s]) % interval = 0 => <<s, beat>> \in emitted

\* "A deadline is only moved on if nobody moved it meanwhile" (SchedulerEngine): a
\* worker whose scheduler had its deadline moved by hand under it changes nothing.
HandMoveStands ==
  [][\A w \in overtaken :
       workers[w].step = "moving" /\ workers'[w] = Idle =>
         schedulers'[workers[w].uid] = schedulers[workers[w].uid]]_vars

\* Unless missed="replay", time spent behind is not time owed: the deadline a worker
\* writes lies after the moment it claimed at, so no backlog is walked.
NoBacklog ==
  [][\A w \in Workers :
       LET s == workers[w].uid
       IN  /\ missed # "replay"
           /\ workers[w].step = "moving" /\ workers'[w] = Idle
           /\ schedulers'[s] # schedulers[s]
           => schedulers'[s].deadline > workers[w].at]_vars

\* Once faults and edits stop, a scheduler never stays behind on a beat: its
\* deadline moves on.  (A lease that outlasts the model's clock cannot run out.)
DeadlineMovesOn ==
  \A s \in Schedulers : \A deadline \in 0 .. MaxTime :
    Stored(s) /\ schedulers[s].deadline = deadline
      ~> \/ ~Stored(s)
         \/ schedulers[s].deadline # deadline
         \/ schedulers[s].leaseUntil > MaxTime
=============================================================================
