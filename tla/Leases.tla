------------------------------- MODULE Leases -------------------------------
(***************************************************************************)
(* src/src/pymonque/claims.py, Leases, and tasks.py, _StoppableCall: the   *)
(* claims one process holds in one collection, and the threads of it that  *)
(* meet over them.                                                         *)
(*                                                                         *)
(* A call runs in a thread of its own.  Its code enters work() blocks, and *)
(* each block holds its claim in `held` from hold() to release().  One     *)
(* thread, the renewer, renews whatever is held; it starts with the first  *)
(* claim held and ends when it finds nothing held.  A worker waits for the *)
(* call; at its timeout it stops it, which drops what the call's thread    *)
(* holds and then raises TaskStopped in it, by thread id.                  *)
(*                                                                         *)
(* `held` and the renewer are only touched under the lock of Leases, and a *)
(* call is marked finished and stopped under its guard.  Each action is    *)
(* what one thread does between two points where another may come between; *)
(* a hold() is several of them, as an exception raised from outside        *)
(* arrives between any two lines of it, whoever has the lock.  A call is   *)
(*   unborn     not started                                                *)
(*   coding     in the task's code, in the blocks it has entered           *)
(*   entered    in hold(): the claim is in `held`, the lock is taken       *)
(*   starting   in hold(): the renewer is set, not yet started             *)
(*   holding    hold() is done, the try of the block not yet entered       *)
(*   leaving    in the finally of the innermost block                      *)
(*   ending     the code is done, the call not yet marked finished         *)
(*   finished   marked finished; the thread has not ended                  *)
(*   dead       the thread has ended                                       *)
(***************************************************************************)
EXTENDS Integers, Sequences

CONSTANTS
  Calls,         \* the calls that are run, each in a thread of its own
  Timed,         \* those with a timeout
  Idents,        \* thread ids; that of a thread that ended may be used again
  ClaimIds,      \* a claimId names one claim at a time, here and in the database
  None,          \* no thread, no claim, no call
  MaxDepth       \* bound: blocks one call nests

ASSUME CallsAssumption == Timed \subseteq Calls /\ None \notin Calls
ASSUME NullsAssumption == None \notin Idents /\ None \notin ClaimIds
ASSUME DepthAssumption == MaxDepth \in Nat

VARIABLES
  held,          \* claimId -> the id of the thread that took it, or None
  renewer,       \* where the renewer thread is; "none" is the code's None
  copied,        \* the claims the renewal under way writes
  calls,         \* call -> where its thread is
  stops,         \* call -> how far the worker waiting for it has got
  raised,        \* call -> the call whose stop is on its way to its thread
  late           \* claims taken between a drop of holds and its stop, and not
                 \* let go since (a history variable)

vars == <<held, renewer, copied, calls, stops, raised, late>>

-----------------------------------------------------------------------------
Steps == {"unborn", "coding", "entered", "starting", "holding", "leaving",
          "ending", "finished", "dead"}

\* `blocks` are the claims of the blocks entered, the innermost last; `claim`
\* is the one hold() is taking; a call that `unwinds` is raising.
CallState == [step : Steps, ident : Idents \cup {None}, blocks : Seq(ClaimIds),
              claim : ClaimIds \cup {None}, unwinds : BOOLEAN]

Unborn == [step |-> "unborn", ident |-> None, blocks |-> <<>>, claim |-> None,
           unwinds |-> FALSE]

Alive(c) == calls[c].step \notin {"unborn", "dead"}

InHold(c) == calls[c].step \in {"entered", "starting"}

\* A hold() keeps the lock over several steps, a stop() the guard over two.
LockFree == \A c \in Calls : ~InHold(c)

GuardFree(c) == stops[c] # "dropped"

Held == {k \in ClaimIds : held[k] # None}

\* The claims of the blocks `c` is in, and the one it is entering a block with.
Entered(c) == {calls[c].blocks[n] : n \in DOMAIN calls[c].blocks}

Taking(c) == {calls[c].claim} \ {None}

InUse == Held \cup copied \cup late \cup UNION {Entered(c) \cup Taking(c) : c \in Calls}

NewClaim == CHOOSE k \in ClaimIds : k \notin InUse

Init ==
  /\ held = [k \in ClaimIds |-> None]
  /\ renewer = "none"
  /\ copied = {}
  /\ calls = [c \in Calls |-> Unborn]
  /\ stops = [c \in Calls |-> "waiting"]
  /\ raised = [c \in Calls |-> None]
  /\ late = {}

-----------------------------------------------------------------------------
(* A call's thread                                                         *)

\* A thread's next line, if no stop is on its way to it.
At(c, step) == calls[c].step = step /\ raised[c] = None

Goto(c, state) == calls' = [calls EXCEPT ![c] = state]

\* thread.start() of _callWithin.
Begin(c) ==
  /\ calls[c].step = "unborn"
  /\ \E i \in Idents :
       /\ \A d \in Calls : Alive(d) => calls[d].ident # i
       /\ Goto(c, [Unborn EXCEPT !.step = "coding", !.ident = i])
  /\ UNCHANGED <<held, renewer, copied, stops, raised, late>>

\* The first line of hold(), of a claim just made: the lock is taken.
EnterHold(c) ==
  /\ At(c, "coding")
  /\ Len(calls[c].blocks) < MaxDepth
  /\ LockFree
  /\ ClaimIds \ InUse # {}
  /\ held' = [held EXCEPT ![NewClaim] = calls[c].ident]
  /\ Goto(c, [calls[c] EXCEPT !.step = "entered", !.claim = NewClaim])
  /\ late' = IF GuardFree(c) THEN late ELSE late \cup {NewClaim}
  /\ UNCHANGED <<renewer, copied, stops, raised>>

\* The rest of hold(): if a renewer is set already it is left alone, and the
\* lock is let go ...
FindRenewer(c) ==
  /\ At(c, "entered")
  /\ renewer # "none"
  /\ Goto(c, [calls[c] EXCEPT !.step = "holding"])
  /\ UNCHANGED <<held, renewer, copied, stops, raised, late>>

\* ... or else one is set, and then started.
SetRenewer(c) ==
  /\ At(c, "entered")
  /\ renewer = "none"
  /\ renewer' = "unstarted"
  /\ Goto(c, [calls[c] EXCEPT !.step = "starting"])
  /\ UNCHANGED <<held, copied, stops, raised, late>>

StartRenewer(c) ==
  /\ At(c, "starting")
  /\ renewer' = "checking"
  /\ Goto(c, [calls[c] EXCEPT !.step = "holding"])
  /\ UNCHANGED <<held, copied, stops, raised, late>>

\* holding() enters its try, and the block begins.
EnterBlock(c) ==
  /\ At(c, "holding")
  /\ Goto(c, [calls[c] EXCEPT !.step = "coding", !.claim = None,
                              !.blocks = Append(@, calls[c].claim)])
  /\ UNCHANGED <<held, renewer, copied, stops, raised, late>>

\* The block ends, or raises through the blocks around it.
EndBlock(c) ==
  /\ At(c, "coding")
  /\ calls[c].blocks # <<>>
  /\ \E raises \in BOOLEAN :
       Goto(c, [calls[c] EXCEPT !.step = "leaving", !.unwinds = raises])
  /\ UNCHANGED <<held, renewer, copied, stops, raised, late>>

\* Where a call goes on when its innermost block is left.
Innermost(c) == calls[c].blocks[Len(calls[c].blocks)]

Outside(c) == SubSeq(calls[c].blocks, 1, Len(calls[c].blocks) - 1)

Left(c) ==
  [calls[c] EXCEPT !.blocks = Outside(c),
     !.step = CASE ~calls[c].unwinds -> "coding"
                [] calls[c].unwinds /\ Len(calls[c].blocks) > 1 -> "leaving"
                [] OTHER -> "ending"]

\* Mutant of Released: the entry stays until the renewer finds it.
StillHeld(k) == held

\* release(): the claim is popped, if it was not dropped before.
Released(k) == [held EXCEPT ![k] = None]

Release(c) ==
  /\ At(c, "leaving")
  /\ LockFree
  /\ held' = Released(Innermost(c))
  /\ late' = late \ {Innermost(c)}
  /\ Goto(c, Left(c))
  /\ UNCHANGED <<renewer, copied, stops, raised>>

\* The code of the call returns, or raises outside any block.
EndCode(c) ==
  /\ At(c, "coding")
  /\ calls[c].blocks = <<>>
  /\ Goto(c, [calls[c] EXCEPT !.step = "ending"])
  /\ UNCHANGED <<held, renewer, copied, stops, raised, late>>

\* The thread marks itself finished, under the guard, and then ends.
MarkFinished(c) ==
  /\ At(c, "ending")
  /\ GuardFree(c)
  /\ Goto(c, [calls[c] EXCEPT !.step = "finished"])
  /\ UNCHANGED <<held, renewer, copied, stops, raised, late>>

EndThread(c) ==
  /\ At(c, "finished")
  /\ Goto(c, [calls[c] EXCEPT !.step = "dead"])
  /\ UNCHANGED <<held, renewer, copied, stops, raised, late>>

-----------------------------------------------------------------------------
(* The worker that waits for the call                                      *)

\* Mutant of MayStop: the thread is stopped whether or not it marked itself.
MayStopAnyway(c) == calls[c].step # "unborn"

\* stop(): not once the thread has marked itself finished.  A thread that was
\* stopped while it marked itself is dead without the mark, and was stopped.
MayStop(c) == calls[c].step \notin {"unborn", "finished", "dead"}

\* Mutant of HeldByThread: only the claim taken last is dropped.
HeldByInnermost(c) ==
  {k \in Held : calls[c].blocks # <<>> /\ k = Innermost(c)}

\* _dropThread: what the thread `c` runs in holds.
HeldByThread(c) == {k \in Held : held[k] = calls[c].ident}

\* The timeout: under the guard, abandonHolds drops what the thread holds ...
DropHolds(c) ==
  /\ c \in Timed
  /\ stops[c] = "waiting"
  /\ MayStop(c)
  /\ LockFree
  /\ held' = [k \in ClaimIds |-> IF k \in HeldByThread(c) THEN None ELSE held[k]]
  /\ stops' = [stops EXCEPT ![c] = "dropped"]
  /\ UNCHANGED <<renewer, copied, calls, raised, late>>

\* ... and then TaskStopped is raised in whichever thread has the id now.
RaiseStop(c) ==
  /\ stops[c] = "dropped"
  /\ stops' = [stops EXCEPT ![c] = "raised"]
  /\ raised' = [d \in Calls |-> IF Alive(d) /\ calls[d].ident = calls[c].ident
                                THEN c ELSE raised[d]]
  /\ UNCHANGED <<held, renewer, copied, calls, late>>

-----------------------------------------------------------------------------
(* The stop arrives: before the next line of Python the thread runs        *)

\* Where an exception takes a thread: out through the blocks it has entered.
Raising(c, blocks) ==
  [calls[c] EXCEPT !.unwinds = TRUE, !.claim = None, !.blocks = blocks,
                   !.step = IF blocks = <<>> THEN "ending" ELSE "leaving"]

Arrived(c) == raised' = [raised EXCEPT ![c] = None]

\* In the task's code, from where it unwinds the blocks.
StopArrives(c) ==
  /\ raised[c] # None
  /\ calls[c].step = "coding"
  /\ Goto(c, Raising(c, calls[c].blocks))
  /\ Arrived(c)
  /\ UNCHANGED <<held, renewer, copied, stops, late>>

\* In a hold(), or between it and the try, where nothing lets the claim go
\* again.  The with statement gives the lock back.
StopArrivesHolding(c) ==
  /\ raised[c] # None
  /\ calls[c].step \in {"entered", "starting", "holding"}
  /\ Goto(c, Raising(c, calls[c].blocks))
  /\ Arrived(c)
  /\ UNCHANGED <<held, renewer, copied, stops, late>>

\* In the finally of a block, before release() has popped its claim.
StopArrivesLeaving(c) ==
  /\ raised[c] # None
  /\ calls[c].step = "leaving"
  /\ Goto(c, Raising(c, Outside(c)))
  /\ Arrived(c)
  /\ UNCHANGED <<held, renewer, copied, stops, late>>

\* Code that catches BaseException goes on in the block it was in.
SwallowStop(c) ==
  /\ raised[c] # None
  /\ calls[c].step = "coding"
  /\ Arrived(c)
  /\ UNCHANGED <<held, renewer, copied, calls, stops, late>>

\* As the call was ending: _run swallows it, marked or not.
StopArrivesEnding(c) ==
  /\ raised[c] # None
  /\ calls[c].step \in {"ending", "finished"}
  /\ Goto(c, [calls[c] EXCEPT !.step = "dead"])
  /\ Arrived(c)
  /\ UNCHANGED <<held, renewer, copied, stops, late>>

-----------------------------------------------------------------------------
(* The renewer                                                             *)

\* The top of _renewLoop, under the lock: wait if something is held ...
WaitInterval ==
  /\ renewer = "checking"
  /\ LockFree
  /\ Held # {}
  /\ renewer' = "waiting"
  /\ UNCHANGED <<held, copied, calls, stops, raised, late>>

\* ... and once the interval is over, or nothing is held any more, go on to
\* renew, under the lock again.
GoOnRenewing ==
  /\ renewer = "waiting"
  /\ LockFree
  /\ Held # {}
  /\ renewer' = "renewing"
  /\ UNCHANGED <<held, copied, calls, stops, raised, late>>

\* Mutant of Forgotten: the thread ends and stays set.
StillSet == "ended"

\* What the renewer leaves behind: under the same lock as it found nothing
\* held, it is forgotten, for the next hold() to start another.
Forgotten == "none"

EndRenewer ==
  /\ renewer \in {"checking", "waiting"}
  /\ LockFree
  /\ Held = {}
  /\ renewer' = Forgotten
  /\ UNCHANGED <<held, copied, calls, stops, raised, late>>

\* Mutant of ToRenew: claims taken since the renewer last looked are missed.
OnlyRenewedBefore == Held \cap copied

\* renew() copies what is held by now, under the lock, and writes after it.
ToRenew == Held

CopyHeld ==
  /\ renewer = "renewing"
  /\ LockFree
  /\ copied' = ToRenew
  /\ renewer' = "writing"
  /\ UNCHANGED <<held, calls, stops, raised, late>>

\* The write is done, or has failed, which is logged.
EndRenewal ==
  /\ renewer = "writing"
  /\ copied' = {}
  /\ renewer' = "checking"
  /\ UNCHANGED <<held, calls, stops, raised, late>>

-----------------------------------------------------------------------------
Code(c) == Begin(c) \/ EnterHold(c) \/ EndBlock(c) \/ EndCode(c)

\* What a thread does outside the code of its task.
Library(c) ==
  \/ FindRenewer(c) \/ SetRenewer(c) \/ StartRenewer(c) \/ EnterBlock(c)
  \/ Release(c) \/ MarkFinished(c) \/ EndThread(c)
  \/ StopArrivesHolding(c) \/ StopArrivesLeaving(c) \/ StopArrivesEnding(c)

\* A stop that finds a thread in the code of its task.
CodeStopped(c) == StopArrives(c) \/ SwallowStop(c)

Renewer == WaitInterval \/ GoOnRenewing \/ EndRenewer \/ CopyHeld \/ EndRenewal

Next ==
  \/ \E c \in Calls : Code(c) \/ Library(c) \/ CodeStopped(c)
  \/ \E c \in Calls : DropHolds(c) \/ RaiseStop(c)
  \/ Renewer

Spec == Init /\ [][Next]_vars

(* Fairness.  The interpreter runs every thread: the steps of hold() and   *)
(* release(), the worker once it has begun to stop a call, and the         *)
(* renewer, whose interval ends and which gets the lock among threads that *)
(* go on taking it (SF).  Nothing is assumed of the code of a call, which  *)
(* may block for ever, also outside Python, where no stop arrives.         *)
Fairness ==
  /\ \A c \in Calls : WF_vars(Library(c)) /\ WF_vars(RaiseStop(c))
  /\ SF_vars(Renewer)

FairSpec == Spec /\ Fairness

-----------------------------------------------------------------------------
(* Properties                                                              *)

\* Every variable has its type.
TypeOK ==
  /\ held \in [ClaimIds -> Idents \cup {None}]
  /\ renewer \in {"none", "unstarted", "checking", "waiting", "renewing", "writing"}
  /\ copied \subseteq ClaimIds /\ late \subseteq ClaimIds
  /\ calls \in [Calls -> CallState]
  /\ stops \in [Calls -> {"waiting", "dropped", "raised"}]
  /\ raised \in [Calls -> Calls \cup {None}]

\* "one lock for the check and the exit, or a claim held in between would find a
\* renewer still set, start none, and never be renewed" (_renewLoop): whatever
\* holds and releases meet the renewer's end, what is held has a renewer.  But
\* for a claim taken while its call was being stopped: the stop may arrive
\* between the two lines that set the renewer and start it.
HeldHasRenewer ==
  LockFree /\ Held # {} =>
    renewer \in {"checking", "waiting", "renewing", "writing"} \/ late # {}

\* A stop reaches the call that outlived its timeout and no other, though it is
\* sent by a thread id, which another thread may have by then (_StoppableCall).
StopHitsItsOwn == \A c \in Calls : raised[c] \in {None, c}

\* A claim is held for exactly as long as its work runs (Leases): the thread that
\* holds it is in its block.  But for a claim taken between the drop of its
\* call's holds and the stop, which can arrive before the block can let it go.
OnlyLateOutlives ==
  \A k \in Held \ late :
    \E c \in Calls : Alive(c) /\ held[k] = calls[c].ident /\ k \in Entered(c) \cup Taking(c)

\* "a call abandoned at its timeout stops holding anything" (Leases), in however
\* many blocks it is: while its stop is on the way, and for ever if it is blocked
\* where none arrives, it holds nothing but what it took as it was stopped.
StoppedHoldsNothing ==
  \A c \in Calls : \A k \in Held \ late :
    (stops[c] = "dropped" \/ raised[c] = c) => held[k] # calls[c].ident

\* What is held is renewed, again and again, until it is let go.
HeldIsRenewed ==
  \A k \in ClaimIds : (k \in Held) ~> (k \in copied \/ k \notin Held \/ late # {})

=============================================================================
