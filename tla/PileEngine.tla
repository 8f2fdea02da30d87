----------------------------- MODULE PileEngine -----------------------------
(***************************************************************************)
(* src/src/pymonque/piles.py: items worked inside `work()` blocks, each    *)
(* claim using one of an item's tries.                                     *)
(*                                                                         *)
(* A pile has no workers of its own: the threads here run tasks, whose     *)
(* code enters blocks, one inside another if it likes.  Leaving a block    *)
(* early is an exception on its way out through the blocks around it, so a *)
(* thread is a stack of blocks and the exception it is raising:            *)
(*   code       user code runs, inside blocks[1], ..., blocks[n]           *)
(*   reading    work() has read the clock and not yet claimed              *)
(*   givingUp   work() claimed an item that has no tries left              *)
(*   unwinding  an exception is leaving the innermost block                *)
(***************************************************************************)
EXTENDS Claims, Sequences

CONSTANTS
  Items,          \* the uids of the items ever added
  Processes, Threads, Home,
  MaxAttempts,    \* settings.maxAttempts
  ClaimIds,       \* the claimIds claims are made with (bound: while one is left)
  LeaseTime,      \* settings.leaseSeconds, in ticks
  Delays,         \* the delays items are released with; NoDelay for none
  NoDelay,
  PurgeStatuses,  \* the statuses purge() is called with
  MaxDepth,       \* bound: blocks nest this deep
  MaxTime,        \* bound: the clock stops here
  FaultsUntil,    \* bound: processes die, writes fail and calls are stopped before this time
  ReleasesUntil   \* bound: items are released before this time

ASSUME HomeAssumption == Home \in [Threads -> Processes]
ASSUME ClaimsAssumption == ClaimIds \subseteq Nat \ {NoClaim}
ASSUME TriesAssumption == MaxAttempts \in Nat \ {0} /\ MaxDepth \in Nat
ASSUME TimesAssumption ==
  /\ LeaseTime \in Nat \ {0} /\ Delays \ {NoDelay} \subseteq Nat
  /\ MaxTime \in Nat /\ FaultsUntil \in Int

VARIABLES
  now, items, threads, renewal, up,
  spent       \* uid -> how many of its claims were handed to a block and not given back
              \* by a release, and whether its latest claim is one of them (a history
              \* variable)

vars == <<now, items, threads, renewal, up, spent>>

-----------------------------------------------------------------------------
(* Items.  claimedAt, result and error are left out: no step reads them.    *)

Unfinished == {"pending", "running"}

Finished == {"done", "failed", "canceled"}

Absent == [status |-> "absent", createdAt |-> 0, leaseUntil |-> 0, claimId |-> NoClaim,
           finishedAt |-> NoTime, attempts |-> 0]

\* Claimable from the moment it exists, oldest first.
NewItem == [Absent EXCEPT !.status = "pending", !.createdAt = now, !.leaseUntil = now]

Deleted == [Absent EXCEPT !.status = "purged"]

\* claimNext with claim()'s fields and inc.
ClaimedItem(doc, id, at) ==
  [Claimed(doc, id, at, LeaseTime) EXCEPT !.status = "running", !.attempts = @ + 1]

\* _finish
Finish(doc, status) == [LetGo(doc) EXCEPT !.status = status, !.finishedAt = now]

\* Mutant of HandBack: the claim is not let go.
HandBackHeld(doc, returnTry, delay) ==
  [doc EXCEPT !.status = "pending",
              !.leaseUntil = IF delay = NoDelay THEN doc.createdAt ELSE now + delay,
              !.attempts = IF returnTry THEN @ - 1 ELSE @]

\* _handBack: to its own place in the pile, or due when the delay has passed.
HandBack(doc, returnTry, delay) ==
  [LetGo(doc) EXCEPT !.status = "pending",
                     !.leaseUntil = IF delay = NoDelay THEN doc.createdAt ELSE now + delay,
                     !.attempts = IF returnTry THEN @ - 1 ELSE @]

\* Mutants of Matches: any item of that uid ...
MatchesUid(i, id) == items[i].status # "purged"

\* ... or any that is running, whoever claimed it.
MatchesRunning(i, id) == items[i].status = "running"

\* _matching a handed out item: the claim it came from still holds it.
Matches(i, id) == HeldBy(items[i], id)

-----------------------------------------------------------------------------
(* Threads                                                                 *)

Nothing == [kind |-> "nothing", claimId |-> NoClaim]
Ended(id) == [kind |-> "ended", claimId |-> id]     \* _Ended of the block with this claim
Error == [kind |-> "error", claimId |-> NoClaim]    \* an Exception or SystemExit
Stop == [kind |-> "stop", claimId |-> NoClaim]      \* TaskStopped

\* `ended` is whether Work.ended names an outcome; `held` is whether Leases still renews the claim.
Block(i, id) == [uid |-> i, claimId |-> id, ended |-> FALSE, held |-> TRUE]

Outside == [step |-> "code", at |-> 0, given |-> <<>>, blocks |-> <<>>,
            raising |-> Nothing, stopping |-> FALSE]

Alive(w) == Home[w] \in up

At(w, step) == Alive(w) /\ threads[w].step = step

Goto(w, thread) == threads' = [threads EXCEPT ![w] = thread]

Depth(w) == Len(threads[w].blocks)

Innermost(w) == threads[w].blocks[Depth(w)]

\* The innermost block is left, and its claim let go.
Left(thread) == [thread EXCEPT !.blocks = SubSeq(@, 1, Len(@) - 1)]

\* Back in user code, in whatever block is now the innermost.
Resumed(thread) == [thread EXCEPT !.step = "code", !.at = 0, !.given = <<>>, !.raising = Nothing]

\* An exception leaves the innermost block, or the task if it is in none.
Raised(thread, exception) ==
  IF thread.blocks = <<>>
  THEN [Resumed(thread) EXCEPT !.stopping = FALSE]
  ELSE [Resumed(thread) EXCEPT !.step = "unwinding", !.raising = exception]

BlocksOf(w) == {threads[w].blocks[n] : n \in 1 .. Depth(w)}

Held(p) ==
  UNION {{b.claimId : b \in {c \in BlocksOf(w) : c.held}} : w \in {v \in Threads : Home[v] = p}}

NoRenewal == [claims |-> {}, at |-> 0]

-----------------------------------------------------------------------------
Init ==
  /\ now = 0
  /\ items = [i \in Items |-> Absent]
  /\ threads = [w \in Threads |-> Outside]
  /\ renewal = [p \in Processes |-> NoRenewal]
  /\ up = Processes
  /\ spent = [i \in Items |-> [times |-> 0, latest |-> FALSE]]

Tick ==
  /\ now < MaxTime
  /\ now' = now + 1
  /\ UNCHANGED <<items, threads, renewal, up, spent>>

Add(i) ==
  /\ up # {}
  /\ items[i].status = "absent"
  /\ items' = [items EXCEPT ![i] = NewItem]
  /\ UNCHANGED <<now, threads, renewal, up, spent>>

-----------------------------------------------------------------------------
(* claim(): entering a block                                               *)

\* The loop of claim() reads the clock each time around.
EnterBlock(w) ==
  /\ At(w, "code")
  /\ Depth(w) < MaxDepth
  /\ Goto(w, [threads[w] EXCEPT !.step = "reading", !.at = now])
  /\ UNCHANGED <<now, items, renewal, up, spent>>

\* Mutant of Claimable: what a dead process left running is never found.
ClaimablePending == {i \in Items : items[i].status = "pending"}

Claimable == {i \in Items : items[i].status \in Unfinished}

\* A uuid never made before; here, one that nothing in the system still names,
\* which no step can tell from it.
InUse ==
  {items[i].claimId : i \in Items}
    \cup UNION {{b.claimId : b \in BlocksOf(w)} \cup {threads[w].raising.claimId} : w \in Threads}
    \cup {threads[w].given[2] : w \in {v \in Threads : threads[v].step = "givingUp"}}
    \cup UNION {renewal[p].claims : p \in Processes}

NewClaim == CHOOSE id \in ClaimIds : id \notin InUse

TakeItem(w, i) ==
  /\ At(w, "reading")
  /\ i \in NextDue(items, Claimable, threads[w].at)
  /\ ClaimIds \ InUse # {}
  /\ items' = [items EXCEPT ![i] = ClaimedItem(@, NewClaim, threads[w].at)]
  /\ UNCHANGED <<now, renewal, up>>

\* Mutant of HasTry: one try too many.
HasTryOrJustSpent(doc) == doc.attempts <= MaxAttempts

HasTry(doc) == doc.attempts < MaxAttempts

\* An item with a try left is handed to a block, and held.
Claim(w, i) ==
  /\ TakeItem(w, i)
  /\ HasTry(items[i])
  /\ LET thread == threads[w]
     IN  Goto(w, [Resumed(thread) EXCEPT !.blocks = Append(@, Block(i, NewClaim))])
  /\ spent' = [spent EXCEPT ![i].times = @ + 1, ![i].latest = TRUE]

\* One that has none left is not: it is given up next.
ClaimSpent(w, i) ==
  /\ TakeItem(w, i)
  /\ ~HasTry(items[i])
  /\ Goto(w, [threads[w] EXCEPT !.step = "givingUp", !.given = <<i, NewClaim>>])
  /\ spent' = [spent EXCEPT ![i].latest = FALSE]

\* _giveUp, and around the loop again.
GiveUp(w) ==
  LET i  == threads[w].given[1]
      id == threads[w].given[2]
  IN  /\ At(w, "givingUp")
      /\ items' = IF Matches(i, id) THEN [items EXCEPT ![i] = Finish(@, "failed")] ELSE items
      /\ Goto(w, [threads[w] EXCEPT !.step = "reading", !.at = now, !.given = <<>>])
      /\ UNCHANGED <<now, renewal, up, spent>>

\* The claim is made and the caller never hears of it: an exception at work().
ClaimUnheard(w, i) ==
  /\ now < FaultsUntil
  /\ TakeItem(w, i)
  /\ Goto(w, Raised(threads[w], Error))
  /\ spent' = [spent EXCEPT ![i].latest = FALSE]

\* The pile is empty: work() yields None.
FindNothing(w) ==
  /\ At(w, "reading")
  /\ NextDue(items, Claimable, threads[w].at) = {}
  /\ Goto(w, Resumed(threads[w]))
  /\ UNCHANGED <<now, items, renewal, up, spent>>

-----------------------------------------------------------------------------
(* Inside blocks.  Code in an inner block may end an outer one.            *)

\* w.done() and w.fail(): written if the claim holds, and the block is left
\* either way.
EndedEarly(w, n) ==
  Raised([threads[w] EXCEPT !.blocks[n].ended = TRUE], Ended(threads[w].blocks[n].claimId))

EndBlock(w, n, outcome) ==
  LET b == threads[w].blocks[n]
  IN  /\ At(w, "code")
      /\ items' = IF Matches(b.uid, b.claimId)
                  THEN [items EXCEPT ![b.uid] = Finish(@, outcome)]
                  ELSE items
      /\ Goto(w, EndedEarly(w, n))
      /\ UNCHANGED <<now, renewal, up, spent>>

\* The bounds on handing items back: see ReleasesUntil; and none is due after the
\* clock stopped.
MayRelease(delay) ==
  now < ReleasesUntil /\ (delay # NoDelay => now + delay <= MaxTime)

GivenBack(i) ==
  [spent EXCEPT ![i] = [times |-> IF @.latest THEN @.times - 1 ELSE @.times, latest |-> FALSE]]

\* w.release(delay)
ReleaseBlock(w, n, delay) ==
  LET b    == threads[w].blocks[n]
      mine == Matches(b.uid, b.claimId) /\ items[b.uid].status = "running"
  IN  /\ MayRelease(delay)
      /\ At(w, "code")
      /\ items' = IF mine THEN [items EXCEPT ![b.uid] = HandBack(@, TRUE, delay)] ELSE items
      /\ spent' = IF mine THEN GivenBack(b.uid) ELSE spent
      /\ Goto(w, EndedEarly(w, n))
      /\ UNCHANGED <<now, renewal, up>>

\* w.confirm(): the lease is renewed, or the block ends here.
Confirm(w, n) ==
  LET b    == threads[w].blocks[n]
      mine == Matches(b.uid, b.claimId) /\ items[b.uid].status = "running"
  IN  /\ At(w, "code")
      /\ items' = IF mine THEN [items EXCEPT ![b.uid] = Renewed(@, now, LeaseTime)] ELSE items
      /\ Goto(w, IF mine THEN threads[w] ELSE EndedEarly(w, n))
      /\ UNCHANGED <<now, renewal, up, spent>>

\* User code raises, or a write of its own fails.
Raise(w) ==
  /\ At(w, "code")
  /\ Depth(w) > 0
  /\ Goto(w, Raised(threads[w], Error))
  /\ UNCHANGED <<now, items, renewal, up, spent>>

\* The task outlives its timeout: what its thread holds is renewed no more
\* (abandonHolds), and TaskStopped is on its way to the thread ...
TimeOut(w) ==
  LET thread == threads[w]
  IN  /\ now < FaultsUntil
      /\ Alive(w)
      /\ Depth(w) > 0
      /\ ~thread.stopping
      /\ Goto(w, [thread EXCEPT !.stopping = TRUE,
                                !.blocks = [n \in 1 .. Len(@) |-> [@[n] EXCEPT !.held = FALSE]]])
      /\ UNCHANGED <<now, items, renewal, up, spent>>

\* ... where it is raised wherever the thread has got to.
StopArrives(w) ==
  /\ now < FaultsUntil
  /\ Alive(w)
  /\ threads[w].stopping
  /\ Goto(w, Raised([threads[w] EXCEPT !.stopping = FALSE], Stop))
  /\ UNCHANGED <<now, items, renewal, up, spent>>

-----------------------------------------------------------------------------
(* Leaving blocks                                                          *)

\* _close, or the clause for another block's end: nothing is written for a
\* block that already wrote its outcome and carried on.
Closed(b, doc) ==
  IF ~b.ended /\ Matches(b.uid, b.claimId) THEN [items EXCEPT ![b.uid] = doc] ELSE items

\* The block's end is reached: the item is done.
ReachEnd(w) ==
  /\ At(w, "code")
  /\ Depth(w) > 0
  /\ items' = Closed(Innermost(w), Finish(items[Innermost(w).uid], "done"))
  /\ Goto(w, Left(threads[w]))
  /\ UNCHANGED <<now, renewal, up, spent>>

\* The exception is the block's own end: it goes no further.
EndHere(w) ==
  /\ At(w, "unwinding")
  /\ threads[w].raising = Ended(Innermost(w).claimId)
  /\ Goto(w, Resumed(Left(threads[w])))
  /\ UNCHANGED <<now, items, renewal, up, spent>>

\* Mutant of PassEnd: the block is left without handing its item back.
PassEndUnwritten(w) ==
  LET exception == threads[w].raising
  IN  /\ At(w, "unwinding")
      /\ exception.kind = "ended"
      /\ exception # Ended(Innermost(w).claimId)
      /\ Goto(w, Raised(Left(threads[w]), exception))
      /\ UNCHANGED <<now, items, renewal, up, spent>>

\* It is the end of a block further out: the item goes back, its try spent.
PassEnd(w) ==
  LET exception == threads[w].raising
      back      == HandBack(items[Innermost(w).uid], FALSE, NoDelay)
  IN  /\ At(w, "unwinding")
      /\ exception.kind = "ended"
      /\ exception # Ended(Innermost(w).claimId)
      /\ items' = Closed(Innermost(w), back)
      /\ Goto(w, Raised(Left(threads[w]), exception))
      /\ UNCHANGED <<now, renewal, up, spent>>

\* It is an error: the item failed.
FailBlock(w) ==
  /\ At(w, "unwinding")
  /\ threads[w].raising = Error
  /\ items' = Closed(Innermost(w), Finish(items[Innermost(w).uid], "failed"))
  /\ Goto(w, Raised(Left(threads[w]), Error))
  /\ UNCHANGED <<now, renewal, up, spent>>

\* It is TaskStopped: nothing is written, and the claim is left to lapse.
DropBlock(w) ==
  /\ At(w, "unwinding")
  /\ threads[w].raising = Stop
  /\ Goto(w, Raised(Left(threads[w]), Stop))
  /\ UNCHANGED <<now, items, renewal, up, spent>>

\* A write on the way out fails, which is an error of its own.
CloseFails(w) ==
  /\ now < FaultsUntil
  /\ Alive(w)
  /\ threads[w].step \in {"code", "unwinding"}
  /\ Depth(w) > 0
  /\ ~Innermost(w).ended
  /\ Goto(w, Raised(Left(threads[w]), Error))
  /\ UNCHANGED <<now, items, renewal, up, spent>>

\* A bare `except:` in the innermost block swallows the exception, and the block
\* runs on.
Swallow(w) ==
  /\ At(w, "unwinding")
  /\ Goto(w, Resumed(threads[w]))
  /\ UNCHANGED <<now, items, renewal, up, spent>>

-----------------------------------------------------------------------------
(* Leases, as in TaskEngine                                                *)

BeginRenewal(p) ==
  /\ p \in up
  /\ renewal[p] = NoRenewal
  /\ Held(p) # {}
  /\ renewal' = [renewal EXCEPT ![p] = [claims |-> Held(p), at |-> now]]
  /\ UNCHANGED <<now, items, threads, up, spent>>

WriteRenewal(p) ==
  /\ p \in up
  /\ renewal[p] # NoRenewal
  /\ \E at \in renewal[p].at .. now : items' = RenewHeld(items, renewal[p].claims, at, LeaseTime)
  /\ renewal' = [renewal EXCEPT ![p] = NoRenewal]
  /\ UNCHANGED <<now, threads, up, spent>>

-----------------------------------------------------------------------------
(* By hand, whatever holds the item                                        *)

FinishByHand(i, status) ==
  /\ items[i].status \in Unfinished
  /\ items' = [items EXCEPT ![i] = Finish(@, status)]
  /\ UNCHANGED spent

\* Mutant of ReleaseByHand: items waiting are released as well.
ReleaseUnfinished(i, delay) ==
  /\ MayRelease(delay)
  /\ items[i].status \in Unfinished
  /\ items' = [items EXCEPT ![i] = HandBack(@, TRUE, delay)]
  /\ spent' = GivenBack(i)

ReleaseByHand(i, delay) ==
  /\ MayRelease(delay)
  /\ items[i].status = "running"
  /\ items' = [items EXCEPT ![i] = HandBack(@, TRUE, delay)]
  /\ spent' = GivenBack(i)

\* Bound: not for a lease that would outlast the clock.
RenewByHand(i) ==
  /\ now + LeaseTime <= MaxTime
  /\ items[i].status = "running"
  /\ items' = [items EXCEPT ![i] = Renewed(@, now, LeaseTime)]
  /\ UNCHANGED spent

Cancel(picked) ==
  /\ \E i \in picked : NotStarted(items[i], now)
  /\ items' = [i \in Items |-> IF i \in picked /\ NotStarted(items[i], now)
                               THEN Canceled(items[i], now) ELSE items[i]]
  /\ UNCHANGED spent

\* purge() of every finished item of these statuses; unfinished ones it refuses.
Purge(statuses) ==
  LET gone == {i \in Items : items[i].status \in statuses}
  IN  /\ statuses \subseteq Finished
      /\ gone # {}
      /\ items' = [i \in Items |-> IF i \in gone THEN Deleted ELSE items[i]]
      /\ UNCHANGED spent

-----------------------------------------------------------------------------
(* Processes                                                               *)

Crash(p) ==
  /\ now < FaultsUntil
  /\ p \in up
  /\ up' = up \ {p}
  /\ threads' = [w \in Threads |-> IF Home[w] = p THEN Outside ELSE threads[w]]
  /\ renewal' = [renewal EXCEPT ![p] = NoRenewal]
  /\ UNCHANGED <<now, items, spent>>

Restart(p) ==
  /\ p \notin up
  /\ up' = up \cup {p}
  /\ UNCHANGED <<now, items, threads, renewal, spent>>

-----------------------------------------------------------------------------
Entering(w) ==
  \/ EnterBlock(w)
  \/ \E i \in Items : Claim(w, i) \/ ClaimSpent(w, i)
  \/ GiveUp(w)
  \/ FindNothing(w)

Working(w) ==
  \/ \E n \in 1 .. Depth(w) :
       \/ \E outcome \in {"done", "failed"} : EndBlock(w, n, outcome)
       \/ \E delay \in Delays : ReleaseBlock(w, n, delay)
       \/ Confirm(w, n)
  \/ Raise(w)
  \/ Swallow(w)

Leaving(w) == EndHere(w) \/ PassEnd(w) \/ FailBlock(w) \/ DropBlock(w)

Failing(w) ==
  \/ \E i \in Items : ClaimUnheard(w, i)
  \/ TimeOut(w)
  \/ StopArrives(w)
  \/ CloseFails(w)

ByHand ==
  /\ up # {}
  /\ \/ \E i \in Items, status \in {"done", "failed"} : FinishByHand(i, status)
     \/ \E i \in Items, delay \in Delays : ReleaseByHand(i, delay)
     \/ \E i \in Items : RenewByHand(i)
     \/ \E picked \in SUBSET Items : Cancel(picked)
     \/ \E statuses \in PurgeStatuses : Purge(statuses)
  /\ UNCHANGED <<now, threads, renewal, up>>

Next ==
  \/ Tick
  \/ \E i \in Items : Add(i)
  \/ \E w \in Threads : Entering(w) \/ Working(w) \/ ReachEnd(w) \/ Leaving(w) \/ Failing(w)
  \/ \E p \in Processes : BeginRenewal(p) \/ WriteRenewal(p) \/ Crash(p) \/ Restart(p)
  \/ ByHand

Spec == Init /\ [][Next]_vars

(* Fairness.  The tasks that drain the pile run again and again: each       *)
(* enters a block when it is in none, the steps of work() itself return,    *)
(* and code that keeps running in a block reaches its end at some time.     *)
Draining(w) == Entering(w) /\ (Depth(w) = 0 \/ threads[w].step # "code")

Fairness ==
  /\ WF_vars(Tick)
  /\ \A w \in Threads : /\ WF_vars(Draining(w))
                        /\ WF_vars(Leaving(w))
                        /\ SF_vars(ReachEnd(w))
  /\ \A p \in Processes : WF_vars(Restart(p))

FairSpec == Spec /\ Fairness

-----------------------------------------------------------------------------
(* Properties                                                              *)

Item == [status : Unfinished \cup Finished \cup {"absent", "purged"}, createdAt : Nat,
         leaseUntil : Nat, claimId : Nat, finishedAt : Nat \cup {NoTime},
         attempts : Nat]

BlockType == [uid : Items, claimId : Nat \ {0}, ended : BOOLEAN, held : BOOLEAN]

\* Every variable has its type; in particular, tries never go below zero.
TypeOK ==
  /\ now \in Nat
  /\ items \in [Items -> Item]
  /\ \A w \in Threads :
       /\ threads[w].step \in {"code", "reading", "givingUp", "unwinding"}
       /\ threads[w].blocks \in Seq(BlockType)
       /\ threads[w].stopping \in BOOLEAN
  /\ renewal \in [Processes -> [claims : SUBSET Nat, at : Nat]]
  /\ up \subseteq Processes
  /\ spent \in [Items -> [times : Nat, latest : BOOLEAN]]

\* An item is handed out MaxAttempts times at most, not counting the times its
\* try was given back -- whoever died, lapsed, was stopped or released it.
TriesBounded == \A i \in Items : spent[i].times <= MaxAttempts

\* This pile keeps what Handouts promises: seen through the status of its items and
\* the tries handed to blocks, each step hands out, takes, gives back, ends or deletes
\* as the promise allows, or is none of its business.
StageOf(doc, count) ==
  CASE doc.status = "absent" -> "none"
    [] doc.status = "pending" -> "waiting"
    [] doc.status = "running" -> IF count.latest THEN "handed" ELSE "taken"
    [] doc.status = "purged" -> "gone"
    [] OTHER -> "ended"

Promise == INSTANCE Handouts WITH
  stage <- [i \in Items |-> StageOf(items[i], spent[i])],
  tries <- [i \in Items |-> spent[i].times]

ImplementsHandouts == Promise!Spec

\* A claim stands exactly while the item is running, and it stands for a try
\* used, so there is always one to give back.
ClaimStandsForTry ==
  \A i \in Items :
    /\ (items[i].claimId # NoClaim) <=> (items[i].status = "running")
    /\ items[i].status = "running" => items[i].attempts >= 1

\* An item that ended stays as it ended, until it is purged.
EndedIsFrozen ==
  [][\A i \in Items : items[i].status \in Finished => items'[i] \in {items[i], Deleted}]_vars

\* A thread changes an item only under the claim of a block it is in, or by
\* claiming one whose lease ran out: a block whose claim was taken over, given
\* up or overruled writes nothing, however it ends.
WritesUnderClaim ==
  [][\A w \in Threads, i \in Items :
       threads'[w] # threads[w] /\ items'[i] # items[i] /\ up' = up =>
         \/ \E b \in BlocksOf(w) : b.uid = i /\ b.claimId = items[i].claimId
         \/ threads[w].step = "givingUp" /\ threads[w].given = <<i, items[i].claimId>>
         \/ Lapsed(items[i], now) /\ items'[i].claimId \notin InUse]_vars

\* Once writes no longer fail, no block is left with its item still held by it,
\* whichever way it is left -- reaching its end, ended early, passing on another
\* block's end, by an error -- unless its task was stopped at its timeout.
BlockSettlesItem ==
  [][\A w \in Threads :
       Depth(w)' < Depth(w) /\ now >= FaultsUntil /\ threads[w].raising # Stop =>
         items'[Innermost(w).uid].claimId # Innermost(w).claimId]_vars

\* Once faults stop, every item ends, if the pile is drained and nobody goes on
\* releasing it.  (A lease that outlasts the model's clock cannot run out.)
EveryItemEnds ==
  \A i \in Items :
    (items[i].status \in Unfinished)
      ~> \/ items[i].status \in Finished \cup {"purged"}
         \/ items[i].leaseUntil > MaxTime
=============================================================================
