----------------------------- MODULE LeasesProofs -----------------------------
(***************************************************************************)
(* Theorems about Leases, for any number of calls, thread ids and claims,  *)
(* and any depth of blocks.                                                *)
(***************************************************************************)
EXTENDS Leases, SequenceTheorems, TLAPS

(* Types, and the shape of a call's thread in each of its steps            *)

Shaped(s) ==
  /\ s.step \in {"entered", "starting", "holding"} <=> s.claim # None
  /\ s.step = "leaving" => s.blocks # <<>>
  /\ s.step \in {"unborn", "ending", "finished", "dead"} => s.blocks = <<>>
  /\ s.step # "unborn" => s.ident # None

ShapeInv == TypeOK /\ \A c \in Calls : Shaped(calls[c])

\* Of call `c` alone the thread took a step, to a state as it should be.
StepOf(c) ==
  /\ calls' = [calls EXCEPT ![c] = calls'[c]]
  /\ calls'[c] \in CallState
  /\ Shaped(calls'[c])

LEMMA StepTo ==
  ASSUME ShapeInv, NEW c \in Calls, NEW s \in CallState, Shaped(s), Goto(c, s)
  PROVE  StepOf(c) /\ calls'[c] = s
BY DEF ShapeInv, TypeOK, Goto, StepOf

\* A thread's own step, that takes and lets go no claim.
LEMMA PlainSteps ==
  ASSUME ShapeInv, NEW c \in Calls,
         \/ FindRenewer(c) \/ SetRenewer(c) \/ StartRenewer(c) \/ EndBlock(c) \/ EndCode(c)
         \/ MarkFinished(c) \/ EndThread(c)
  PROVE  /\ StepOf(c)
         /\ calls'[c].blocks = calls[c].blocks
         /\ calls'[c].claim = calls[c].claim
         /\ calls'[c].ident = calls[c].ident
         /\ raised[c] = None
         /\ Alive(c)
         /\ Alive(c)' \/ calls[c].step = "finished"
         /\ calls'[c].step = "finished" => GuardFree(c)
         /\ calls'[c].step = "starting" => calls[c].step = "entered"
         /\ calls'[c].step # "entered"
<1> USE DEF Alive
<1>c. calls[c] \in CallState /\ Shaped(calls[c])
  BY DEF ShapeInv, TypeOK
<1>r. raised[c] = None
  BY DEF FindRenewer, SetRenewer, StartRenewer, EndBlock, EndCode, MarkFinished, EndThread, At
<1>1. CASE FindRenewer(c) \/ StartRenewer(c)
  <2> DEFINE s == [calls[c] EXCEPT !.step = "holding"]
  <2>1. s \in CallState /\ Shaped(s)
    BY <1>1, <1>c DEF FindRenewer, StartRenewer, At, CallState, Steps, Shaped
  <2> QED
    BY <1>1, <1>r, <1>c, <2>1, StepTo DEF FindRenewer, StartRenewer, At, CallState
<1>2. CASE SetRenewer(c)
  <2> DEFINE s == [calls[c] EXCEPT !.step = "starting"]
  <2>1. s \in CallState /\ Shaped(s)
    BY <1>2, <1>c DEF SetRenewer, At, CallState, Steps, Shaped
  <2> QED
    BY <1>2, <1>r, <1>c, <2>1, StepTo DEF SetRenewer, At, CallState
<1>3. CASE EndBlock(c)
  <2>1. PICK raises \in BOOLEAN : Goto(c, [calls[c] EXCEPT !.step = "leaving", !.unwinds = raises])
    BY <1>3 DEF EndBlock
  <2> DEFINE s == [calls[c] EXCEPT !.step = "leaving", !.unwinds = raises]
  <2>2. s \in CallState /\ Shaped(s)
    BY <1>3, <1>c DEF EndBlock, At, CallState, Steps, Shaped
  <2>3. StepOf(c) /\ calls'[c] = s
    BY <2>1, <2>2, StepTo
  <2>4. /\ s.step = "leaving" /\ s.blocks = calls[c].blocks /\ s.claim = calls[c].claim
        /\ s.ident = calls[c].ident /\ calls[c].step = "coding"
    BY <1>3, <1>c DEF EndBlock, At, CallState
  <2> HIDE DEF s
  <2> QED
    BY <1>r, <2>3, <2>4
<1>4. CASE EndCode(c)
  <2> DEFINE s == [calls[c] EXCEPT !.step = "ending"]
  <2>1. s \in CallState /\ Shaped(s)
    BY <1>4, <1>c DEF EndCode, At, CallState, Steps, Shaped
  <2> QED
    BY <1>4, <1>r, <1>c, <2>1, StepTo DEF EndCode, At, CallState
<1>5. CASE MarkFinished(c)
  <2> DEFINE s == [calls[c] EXCEPT !.step = "finished"]
  <2>1. s \in CallState /\ Shaped(s)
    BY <1>5, <1>c DEF MarkFinished, At, CallState, Steps, Shaped
  <2> QED
    BY <1>5, <1>r, <1>c, <2>1, StepTo DEF MarkFinished, GuardFree, At, CallState
<1>6. CASE EndThread(c)
  <2> DEFINE s == [calls[c] EXCEPT !.step = "dead"]
  <2>1. s \in CallState /\ Shaped(s)
    BY <1>6, <1>c DEF EndThread, At, CallState, Steps, Shaped
  <2> QED
    BY <1>6, <1>r, <1>c, <2>1, StepTo DEF EndThread, At, CallState
<1> QED
  BY <1>1, <1>2, <1>3, <1>4, <1>5, <1>6

LEMMA UnbornType ==
  /\ Unborn \in CallState
  /\ Unborn.step = "unborn" /\ Unborn.blocks = <<>> /\ Unborn.claim = None
BY DEF Unborn, CallState, Steps

LEMMA InitTypes == Init => TypeOK
BY UnbornType DEF Init, TypeOK

LEMMA BeginStep ==
  ASSUME ShapeInv, NEW c \in Calls, Begin(c)
  PROVE  /\ StepOf(c)
         /\ calls[c].step = "unborn"
         /\ calls'[c].step = "coding" /\ calls'[c].blocks = <<>> /\ calls'[c].claim = None
         /\ \A d \in Calls : Alive(d) => calls[d].ident # calls'[c].ident
<1>1. PICK i \in Idents : /\ \A d \in Calls : Alive(d) => calls[d].ident # i
                          /\ Goto(c, [Unborn EXCEPT !.step = "coding", !.ident = i])
  BY DEF Begin
<1> DEFINE s == [Unborn EXCEPT !.step = "coding", !.ident = i]
<1>2. s.step = "coding" /\ s.ident = i /\ s.blocks = <<>> /\ s.claim = None
  BY UnbornType DEF CallState
<1>3. s \in CallState /\ Shaped(s)
  BY <1>2, UnbornType, NullsAssumption DEF CallState, Steps, Shaped
<1>4. StepOf(c) /\ calls'[c] = s
  BY <1>1, <1>3, StepTo
<1> QED
  BY <1>1, <1>2, <1>4, UnbornType DEF Begin

\* Taking a claim, which nothing has named since it was last let go.
LEMMA EnterHoldStep ==
  ASSUME ShapeInv, NEW c \in Calls, EnterHold(c)
  PROVE  /\ StepOf(c)
         /\ calls[c].step = "coding" /\ calls[c].claim = None
         /\ calls'[c].step = "entered" /\ calls'[c].claim = NewClaim
         /\ calls'[c].blocks = calls[c].blocks /\ calls'[c].ident = calls[c].ident
         /\ NewClaim \in ClaimIds /\ NewClaim \notin InUse
         /\ calls[c].ident \in Idents
<1>c. calls[c] \in CallState /\ Shaped(calls[c])
  BY DEF ShapeInv, TypeOK
<1>1. NewClaim \in ClaimIds /\ NewClaim \notin InUse
  BY DEF EnterHold, NewClaim
<1> DEFINE s == [calls[c] EXCEPT !.step = "entered", !.claim = NewClaim]
<1>2. s \in CallState /\ Shaped(s)
  BY <1>c, <1>1, NullsAssumption DEF EnterHold, At, CallState, Steps, Shaped
<1>3. Goto(c, s)
  BY DEF EnterHold
<1>4. StepOf(c) /\ calls'[c] = s
  BY <1>2, <1>3, StepTo
<1>5. calls[c].step = "coding"
  BY DEF EnterHold, At
<1> QED
  BY <1>c, <1>1, <1>4, <1>5 DEF CallState, Shaped

LEMMA EnterBlockStep ==
  ASSUME ShapeInv, NEW c \in Calls, EnterBlock(c)
  PROVE  /\ StepOf(c)
         /\ calls[c].step = "holding"
         /\ calls'[c].step = "coding" /\ calls'[c].claim = None
         /\ calls'[c].ident = calls[c].ident
         /\ Entered(c)' = Entered(c) \cup {calls[c].claim}
<1>c. calls[c] \in CallState /\ Shaped(calls[c])
  BY DEF ShapeInv, TypeOK
<1>1. calls[c].step = "holding" /\ calls[c].claim \in ClaimIds /\ calls[c].blocks \in Seq(ClaimIds)
  BY <1>c DEF EnterBlock, At, CallState, Shaped
<1> DEFINE b == Append(calls[c].blocks, calls[c].claim)
           s == [calls[c] EXCEPT !.step = "coding", !.claim = None, !.blocks = b]
<1>2. s \in CallState /\ Shaped(s)
  <2>1. b \in Seq(ClaimIds)
    BY <1>1
  <2> HIDE DEF b
  <2> QED
    BY <1>c, <1>1, <2>1 DEF CallState, Steps, Shaped
<1>3. Goto(c, s)
  BY DEF EnterBlock
<1>4. StepOf(c) /\ calls'[c] = s
  BY <1>2, <1>3, StepTo
<1>5. {b[n] : n \in DOMAIN b} = {calls[c].blocks[n] : n \in DOMAIN calls[c].blocks} \cup {calls[c].claim}
  <2>1. /\ Len(b) = Len(calls[c].blocks) + 1 /\ Len(calls[c].blocks) \in Nat
        /\ DOMAIN b = 1..Len(calls[c].blocks) + 1 /\ DOMAIN calls[c].blocks = 1..Len(calls[c].blocks)
        /\ b[Len(calls[c].blocks) + 1] = calls[c].claim
        /\ \A n \in 1..Len(calls[c].blocks) : b[n] = calls[c].blocks[n]
    BY <1>1
  <2> HIDE DEF b
  <2> QED
    BY <2>1
<1>6. calls'[c].blocks = b /\ calls'[c].step = "coding" /\ calls'[c].claim = None
      /\ calls'[c].ident = calls[c].ident
  BY <1>c, <1>4 DEF CallState
<1> HIDE DEF b, s
<1> QED
  BY <1>1, <1>4, <1>5, <1>6 DEF Entered

\* Leaving a block, by its end or by a stop, leaves a thread in those around it.
LEMMA OutsideBlocks ==
  ASSUME NEW blocks \in Seq(ClaimIds), blocks # <<>>, NEW n, n = Len(blocks),
         NEW out, out = SubSeq(blocks, 1, n - 1)
  PROVE  /\ n \in Nat \ {0}
         /\ blocks[n] \in ClaimIds
         /\ out \in Seq(ClaimIds)
         /\ {out[m] : m \in DOMAIN out} \subseteq {blocks[m] : m \in DOMAIN blocks}
         /\ \A m \in DOMAIN blocks : m # n => m \in DOMAIN out /\ out[m] = blocks[m]
         /\ Len(out) = n - 1
<1>1. /\ n \in Nat \ {0} /\ DOMAIN blocks = 1..n
      /\ \A m \in 1..n : blocks[m] \in ClaimIds
  OBVIOUS
<1>2. /\ out \in Seq(ClaimIds)
      /\ Len(out) = n - 1
      /\ \A i \in 1..n - 1 : out[i] = blocks[i]
  <2>1. 1 \in Int /\ n - 1 \in Int /\ \A i \in 1..n - 1 : blocks[i] \in ClaimIds
    BY <1>1
  <2>2. /\ SubSeq(blocks, 1, n - 1) \in Seq(ClaimIds)
        /\ Len(SubSeq(blocks, 1, n - 1)) = IF 1 <= n - 1 THEN n - 1 - 1 + 1 ELSE 0
        /\ \A i \in 1..n - 1 - 1 + 1 : SubSeq(blocks, 1, n - 1)[i] = blocks[1 + i - 1]
    BY <2>1, SubSeqProperties
  <2> QED
    BY <1>1, <2>2
<1>3. DOMAIN out = 1..n - 1
  BY <1>1, <1>2
<1>5. \A m \in DOMAIN out : m \in DOMAIN blocks /\ out[m] = blocks[m]
  BY <1>1, <1>2, <1>3
<1>6. \A m \in DOMAIN blocks : m # n => m \in DOMAIN out /\ out[m] = blocks[m]
  BY <1>1, <1>2, <1>3
<1>7. {out[m] : m \in DOMAIN out} \subseteq {blocks[m] : m \in DOMAIN blocks}
  BY <1>5
<1>9. n \in Nat \ {0} /\ blocks[n] \in ClaimIds
  BY <1>1
<1> QED
  BY <1>2, <1>6, <1>7, <1>9

LEMMA ReleaseStep ==
  ASSUME ShapeInv, NEW c \in Calls, Release(c)
  PROVE  /\ StepOf(c)
         /\ calls[c].step = "leaving" /\ raised[c] = None
         /\ calls'[c].step \in {"coding", "leaving", "ending"}
         /\ calls'[c].ident = calls[c].ident /\ calls'[c].claim = None
         /\ Innermost(c) \in Entered(c)
         /\ Entered(c)' \subseteq Entered(c)
         /\ \A k \in Entered(c) : k # Innermost(c) => k \in Entered(c)'
<1>c. calls[c] \in CallState /\ Shaped(calls[c])
  BY DEF ShapeInv, TypeOK
<1>1. /\ calls[c].step = "leaving" /\ raised[c] = None /\ calls[c].claim = None
      /\ calls[c].blocks # <<>> /\ calls[c].blocks \in Seq(ClaimIds)
  BY <1>c DEF Release, At, CallState, Shaped
<1> DEFINE n == Len(calls[c].blocks)
           out == Outside(c)
<1>2. /\ n \in Nat \ {0} /\ out \in Seq(ClaimIds)
      /\ {out[m] : m \in DOMAIN out} \subseteq Entered(c)
      /\ \A m \in DOMAIN calls[c].blocks : m # n => m \in DOMAIN out /\ out[m] = calls[c].blocks[m]
      /\ Len(out) = n - 1
  <2>1. n = Len(calls[c].blocks) /\ out = SubSeq(calls[c].blocks, 1, n - 1)
    BY DEF Outside
  <2>2. calls[c].blocks \in Seq(ClaimIds) /\ calls[c].blocks # <<>>
    BY <1>1
  <2> HIDE DEF n, out
  <2>3. n \in Nat \ {0} /\ out \in Seq(ClaimIds)
    BY <2>1, <2>2, OutsideBlocks
  <2>4. {out[m] : m \in DOMAIN out} \subseteq {calls[c].blocks[m] : m \in DOMAIN calls[c].blocks}
    BY <2>1, <2>2, OutsideBlocks
  <2>5. \A m \in DOMAIN calls[c].blocks : m # n => m \in DOMAIN out /\ out[m] = calls[c].blocks[m]
    BY <2>1, <2>2, OutsideBlocks
  <2>6. Len(out) = n - 1
    BY <2>1, <2>2, OutsideBlocks
  <2> QED
    BY <2>3, <2>4, <2>5, <2>6 DEF Entered
<1>3. calls[c].blocks[n] = Innermost(c) /\ n \in DOMAIN calls[c].blocks
  BY <1>1, <1>2 DEF Innermost
<1> HIDE DEF n, out
<1>4. \A k \in Entered(c) : k # Innermost(c) => k \in {out[l] : l \in DOMAIN out}
  BY <1>2, <1>3 DEF Entered
<1>5. Innermost(c) \in Entered(c)
  BY <1>3 DEF Entered
<1> DEFINE step == CASE ~calls[c].unwinds -> "coding"
                     [] calls[c].unwinds /\ n > 1 -> "leaving"
                     [] OTHER -> "ending"
           s == [calls[c] EXCEPT !.blocks = out, !.step = step]
<1>6. /\ step \in {"coding", "leaving", "ending"}
      /\ step = "leaving" => n > 1
      /\ step = "ending" => n = 1
  <2>1. calls[c].unwinds \in BOOLEAN
    BY <1>c DEF CallState
  <2> QED
    BY <1>2, <2>1
<1>7. Goto(c, s)
  BY DEF Release, Left, n, out
<1> HIDE DEF step
<1>8. s \in CallState /\ Shaped(s)
  <2>1. s.step = step /\ s.blocks = out /\ s.claim = None /\ s.ident = calls[c].ident
    BY <1>c, <1>1 DEF CallState
  <2>2. s \in CallState
    BY <1>c, <1>2, <1>6 DEF CallState, Steps
  <2>3. step = "leaving" => out # <<>>
    BY <1>2, <1>6, EmptySeq
  <2>4. step = "ending" => out = <<>>
    BY <1>2, <1>6, EmptySeq
  <2>5. calls[c].ident # None
    BY <1>c, <1>1 DEF Shaped
  <2> HIDE DEF s
  <2> QED
    BY <1>6, <2>1, <2>2, <2>3, <2>4, <2>5, Zenon DEF Shaped
<1>9. StepOf(c) /\ calls'[c] = s
  BY <1>7, <1>8, StepTo
<1>10. calls'[c].step = step /\ calls'[c].blocks = out /\ calls'[c].claim = None
       /\ calls'[c].ident = calls[c].ident
  BY <1>c, <1>1, <1>9 DEF CallState
<1>11. Entered(c)' = {out[l] : l \in DOMAIN out}
  BY <1>10 DEF Entered
<1> QED
  BY <1>1, <1>2, <1>4, <1>5, <1>6, <1>9, <1>10, <1>11

\* Where a stop arrives, a thread names no claim it did not name before.
LEMMA StopStep ==
  ASSUME ShapeInv, NEW c \in Calls,
         \/ StopArrives(c) \/ StopArrivesHolding(c) \/ StopArrivesLeaving(c)
         \/ StopArrivesEnding(c) \/ SwallowStop(c)
  PROVE  /\ StepOf(c)
         /\ raised[c] # None /\ raised' = [raised EXCEPT ![c] = None]
         /\ UNCHANGED <<held, renewer, copied, stops, late>>
         /\ Alive(c)
         /\ ~InHold(c)'
         /\ calls'[c].ident = calls[c].ident
         /\ calls'[c].claim = None
         /\ Entered(c)' \subseteq Entered(c)
<1>c. calls[c] \in CallState /\ Shaped(calls[c]) /\ calls \in [Calls -> CallState]
  BY DEF ShapeInv, TypeOK
<1>r. /\ raised[c] # None /\ raised' = [raised EXCEPT ![c] = None]
      /\ UNCHANGED <<held, renewer, copied, stops, late>>
      /\ Alive(c)
  BY DEF StopArrives, StopArrivesHolding, StopArrivesLeaving, StopArrivesEnding, SwallowStop, Arrived, Alive
<1>1. CASE StopArrives(c) \/ StopArrivesHolding(c)
  <2> DEFINE s == Raising(c, calls[c].blocks)
  <2>1. calls[c].step # "unborn" /\ Goto(c, s)
    BY <1>1 DEF StopArrives, StopArrivesHolding
  <2>2. s \in CallState /\ Shaped(s) /\ s.ident = calls[c].ident /\ s.claim = None
        /\ s.blocks = calls[c].blocks /\ s.step \in {"ending", "leaving"}
    BY <1>c, <2>1 DEF Raising, CallState, Steps, Shaped
  <2>3. StepOf(c) /\ calls'[c] = s
    BY <2>1, <2>2, StepTo
  <2> QED
    BY <1>r, <2>2, <2>3 DEF Entered, InHold
<1>2. CASE StopArrivesLeaving(c)
  <2>1. /\ calls[c].step = "leaving" /\ calls[c].blocks # <<>> /\ calls[c].blocks \in Seq(ClaimIds)
    BY <1>2, <1>c DEF StopArrivesLeaving, CallState, Shaped
  <2> DEFINE out == Outside(c)
  <2>2. out \in Seq(ClaimIds) /\ {out[m] : m \in DOMAIN out} \subseteq Entered(c)
    BY <2>1, OutsideBlocks DEF Outside, Entered
  <2> HIDE DEF out
  <2> DEFINE s == Raising(c, out)
  <2>3. Goto(c, s)
    BY <1>2 DEF StopArrivesLeaving, out
  <2>4. s \in CallState /\ Shaped(s) /\ s.ident = calls[c].ident /\ s.claim = None
        /\ s.blocks = out /\ s.step \in {"ending", "leaving"}
    BY <1>c, <2>1, <2>2 DEF Raising, CallState, Steps, Shaped
  <2>5. StepOf(c) /\ calls'[c] = s
    BY <2>3, <2>4, StepTo
  <2> QED
    BY <1>r, <2>2, <2>4, <2>5 DEF Entered, InHold
<1>3. CASE StopArrivesEnding(c)
  <2> DEFINE s == [calls[c] EXCEPT !.step = "dead"]
  <2>1. Goto(c, s) /\ calls[c].step \in {"ending", "finished"}
    BY <1>3 DEF StopArrivesEnding
  <2>2. s \in CallState /\ Shaped(s) /\ s.ident = calls[c].ident /\ s.claim = None
        /\ s.blocks = calls[c].blocks /\ s.step = "dead"
    BY <1>c, <2>1 DEF CallState, Steps, Shaped
  <2>3. StepOf(c) /\ calls'[c] = s
    BY <2>1, <2>2, StepTo
  <2> QED
    BY <1>r, <2>2, <2>3 DEF Entered, InHold
<1>4. CASE SwallowStop(c)
  <2>1. calls' = calls /\ calls[c].step = "coding" /\ calls[c].claim = None
    BY <1>4, <1>c DEF SwallowStop, Shaped
  <2> QED
    BY <1>r, <1>c, <2>1 DEF StepOf, Entered, InHold
<1> QED
  BY <1>1, <1>2, <1>3, <1>4

\* Every step of the specification is one of a call's thread, of the worker that
\* stops it, or of the renewer.
LEMMA StepShape == ShapeInv /\ [Next]_vars => ShapeInv'
<1> SUFFICES ASSUME ShapeInv, [Next]_vars
             PROVE  ShapeInv'
  OBVIOUS
<1> USE DEF ShapeInv
<1>1. ASSUME NEW c \in Calls, StepOf(c)
      PROVE  calls' \in [Calls -> CallState] /\ \A d \in Calls : Shaped(calls'[d])
  BY <1>1 DEF StepOf, TypeOK
<1>2. ASSUME NEW c \in Calls,
             \/ FindRenewer(c) \/ SetRenewer(c) \/ StartRenewer(c) \/ EndBlock(c) \/ EndCode(c)
             \/ MarkFinished(c) \/ EndThread(c)
      PROVE  ShapeInv'
  <2>1. StepOf(c)
    BY <1>2, PlainSteps
  <2>2. /\ renewer' \in {renewer, "unstarted", "checking"}
        /\ UNCHANGED <<held, copied, stops, raised, late>>
    BY <1>2 DEF FindRenewer, SetRenewer, StartRenewer, EndBlock, EndCode, MarkFinished, EndThread
  <2> QED
    BY <1>1, <2>1, <2>2 DEF TypeOK
<1>3. ASSUME NEW c \in Calls, Begin(c)
      PROVE  ShapeInv'
  BY <1>1, <1>3, BeginStep DEF Begin, TypeOK
<1>4. ASSUME NEW c \in Calls, EnterHold(c)
      PROVE  ShapeInv'
  BY <1>1, <1>4, EnterHoldStep DEF EnterHold, TypeOK
<1>5. ASSUME NEW c \in Calls, EnterBlock(c)
      PROVE  ShapeInv'
  BY <1>1, <1>5, EnterBlockStep DEF EnterBlock, TypeOK
<1>6. ASSUME NEW c \in Calls, Release(c)
      PROVE  ShapeInv'
  BY <1>1, <1>6, ReleaseStep DEF Release, Released, TypeOK
<1>7. ASSUME NEW c \in Calls,
             \/ StopArrives(c) \/ StopArrivesHolding(c) \/ StopArrivesLeaving(c)
             \/ StopArrivesEnding(c) \/ SwallowStop(c)
      PROVE  ShapeInv'
  BY <1>1, <1>7, StopStep DEF TypeOK
<1>8. ASSUME NEW c \in Calls, DropHolds(c) \/ RaiseStop(c)
      PROVE  ShapeInv'
  BY <1>8 DEF DropHolds, RaiseStop, TypeOK
<1>9. CASE Renewer
  BY <1>9 DEF Renewer, WaitInterval, GoOnRenewing, EndRenewer, Forgotten, CopyHeld, ToRenew, Held,
              EndRenewal, TypeOK
<1>10. CASE UNCHANGED vars
  BY <1>10 DEF vars, TypeOK
<1> QED
  BY <1>2, <1>3, <1>4, <1>5, <1>6, <1>7, <1>8, <1>9, <1>10 DEF Next, Code, Library, CodeStopped

\* Every variable keeps its type, whichever line of hold() or release() a stop
\* arrives at.
THEOREM TypeCorrect == Spec => []TypeOK
<1>1. Init => ShapeInv
  BY InitTypes, UnbornType DEF Init, ShapeInv, Shaped
<1>2. ShapeInv => TypeOK
  BY DEF ShapeInv
<1> QED
  BY <1>1, <1>2, StepShape, PTL DEF Spec


-----------------------------------------------------------------------------
(* Stops                                                                   *)

\* Threads that have not ended have ids of their own.
Distinct ==
  \A c, d \in Calls : Alive(c) /\ Alive(d) /\ calls[c].ident = calls[d].ident => c = d

\* A stop is on its way to a thread that has not ended, and it is being sent to
\* one that cannot mark itself finished before it is.
StopState ==
  \A c \in Calls :
    /\ raised[c] \in {None, c}
    /\ raised[c] = c => stops[c] = "raised" /\ Alive(c)
    /\ stops[c] = "dropped" => Alive(c) /\ calls[c].step # "finished"

StopInv == ShapeInv /\ Distinct /\ StopState

\* What a step does to the threads of the calls.
LEMMA CallSteps ==
  ASSUME ShapeInv, [Next]_vars
  PROVE  \/ UNCHANGED calls
         \/ \E c \in Calls : StepOf(c) /\ Alive(c) /\ calls'[c].ident = calls[c].ident
         \/ \E c \in Calls : Begin(c)
<1>1. ASSUME NEW c \in Calls,
             \/ FindRenewer(c) \/ SetRenewer(c) \/ StartRenewer(c) \/ EndBlock(c) \/ EndCode(c)
             \/ MarkFinished(c) \/ EndThread(c)
      PROVE  StepOf(c) /\ Alive(c) /\ calls'[c].ident = calls[c].ident
  BY <1>1, PlainSteps
<1>2. ASSUME NEW c \in Calls, EnterHold(c)
      PROVE  StepOf(c) /\ Alive(c) /\ calls'[c].ident = calls[c].ident
  BY <1>2, EnterHoldStep DEF Alive
<1>3. ASSUME NEW c \in Calls, EnterBlock(c)
      PROVE  StepOf(c) /\ Alive(c) /\ calls'[c].ident = calls[c].ident
  BY <1>3, EnterBlockStep DEF Alive
<1>4. ASSUME NEW c \in Calls, Release(c)
      PROVE  StepOf(c) /\ Alive(c) /\ calls'[c].ident = calls[c].ident
  BY <1>4, ReleaseStep DEF Alive
<1>5. ASSUME NEW c \in Calls,
             \/ StopArrives(c) \/ StopArrivesHolding(c) \/ StopArrivesLeaving(c)
             \/ StopArrivesEnding(c) \/ SwallowStop(c)
      PROVE  StepOf(c) /\ Alive(c) /\ calls'[c].ident = calls[c].ident
  BY <1>5, StopStep
<1>6. ASSUME NEW c \in Calls, DropHolds(c) \/ RaiseStop(c)
      PROVE  UNCHANGED calls
  BY <1>6 DEF DropHolds, RaiseStop
<1>7. ASSUME Renewer
      PROVE  UNCHANGED calls
  BY <1>7 DEF Renewer, WaitInterval, GoOnRenewing, EndRenewer, CopyHeld, EndRenewal
<1>8. ASSUME UNCHANGED vars
      PROVE  UNCHANGED calls
  BY <1>8 DEF vars
<1> QED
  BY <1>1, <1>2, <1>3, <1>4, <1>5, <1>6, <1>7, <1>8 DEF Next, Code, Library, CodeStopped

LEMMA StepDistinct ==
  ASSUME ShapeInv, Distinct, [Next]_vars
  PROVE  Distinct'
<1>1. CASE UNCHANGED calls
  BY <1>1 DEF Distinct, Alive
<1>2. ASSUME NEW c \in Calls, StepOf(c), Alive(c), calls'[c].ident = calls[c].ident
      PROVE  Distinct'
  <2>1. \A d \in Calls : calls'[d].ident = calls[d].ident /\ (Alive(d)' => Alive(d))
    BY <1>2 DEF StepOf, Alive, ShapeInv, TypeOK
  <2> QED
    BY <2>1 DEF Distinct
<1>3. ASSUME NEW c \in Calls, Begin(c)
      PROVE  Distinct'
  <2>1. \A d \in Calls \ {c} : calls'[d] = calls[d]
    BY <1>3, BeginStep DEF StepOf, ShapeInv, TypeOK
  <2>2. \A d \in Calls : Alive(d) => calls[d].ident # calls'[c].ident
    BY <1>3, BeginStep
  <2> QED
    BY <2>1, <2>2 DEF Distinct, Alive
<1> QED
  BY <1>1, <1>2, <1>3, CallSteps

LEMMA StepStopState ==
  ASSUME StopInv, [Next]_vars
  PROVE  StopState'
<1> USE DEF StopInv
<1>n. None \notin Calls
  BY CallsAssumption
\* A thread's own step, which no stop is on its way to.
<1>1. ASSUME NEW c \in Calls, StepOf(c), raised[c] = None, UNCHANGED <<stops, raised>>,
             stops[c] = "dropped" => Alive(c)' /\ calls'[c].step # "finished"
      PROVE  StopState'
  <2>1. \A d \in Calls \ {c} : calls'[d] = calls[d]
    BY <1>1 DEF StepOf, ShapeInv, TypeOK
  <2>2. ASSUME NEW d \in Calls
        PROVE  /\ raised[d] \in {None, d}
               /\ raised[d] = d => stops[d] = "raised" /\ Alive(d)'
               /\ stops[d] = "dropped" => Alive(d)' /\ calls'[d].step # "finished"
    BY <1>1, <2>1, <1>n DEF StopState, Alive
  <2> QED
    BY <1>1, <2>2 DEF StopState
<1>2. ASSUME NEW c \in Calls,
             \/ FindRenewer(c) \/ SetRenewer(c) \/ StartRenewer(c) \/ EndBlock(c) \/ EndCode(c)
             \/ MarkFinished(c) \/ EndThread(c)
      PROVE  StopState'
  <2>1. StepOf(c) /\ raised[c] = None /\ (Alive(c)' \/ calls[c].step = "finished")
        /\ (calls'[c].step = "finished" => GuardFree(c))
    BY <1>2, PlainSteps
  <2>2. UNCHANGED <<stops, raised>>
    BY <1>2 DEF FindRenewer, SetRenewer, StartRenewer, EndBlock, EndCode, MarkFinished, EndThread
  <2>3. stops[c] = "dropped" => Alive(c)' /\ calls'[c].step # "finished"
    BY <2>1 DEF StopState, GuardFree
  <2> QED
    BY <1>1, <2>1, <2>2, <2>3
<1>3. ASSUME NEW c \in Calls, Begin(c)
      PROVE  StopState'
  <2>1. StepOf(c) /\ calls'[c].step = "coding" /\ ~Alive(c) /\ UNCHANGED <<stops, raised>>
    BY <1>3, BeginStep DEF Begin, Alive
  <2>2. raised[c] = None
    BY <2>1 DEF StopState
  <2> QED
    BY <1>1, <2>1, <2>2 DEF Alive
<1>4. ASSUME NEW c \in Calls, EnterHold(c)
      PROVE  StopState'
  <2>1. StepOf(c) /\ calls'[c].step = "entered"
    BY <1>4, EnterHoldStep
  <2> QED
    BY <1>1, <1>4, <2>1 DEF EnterHold, At, Alive
<1>5. ASSUME NEW c \in Calls, EnterBlock(c)
      PROVE  StopState'
  <2>1. StepOf(c) /\ calls'[c].step = "coding"
    BY <1>5, EnterBlockStep
  <2> QED
    BY <1>1, <1>5, <2>1 DEF EnterBlock, At, Alive
<1>6. ASSUME NEW c \in Calls, Release(c)
      PROVE  StopState'
  <2>1. StepOf(c) /\ calls'[c].step \in {"coding", "leaving", "ending"}
    BY <1>6, ReleaseStep
  <2> QED
    BY <1>1, <1>6, <2>1 DEF Release, At, Alive
<1>7. ASSUME NEW c \in Calls,
             \/ StopArrives(c) \/ StopArrivesHolding(c) \/ StopArrivesLeaving(c)
             \/ StopArrivesEnding(c) \/ SwallowStop(c)
      PROVE  StopState'
  <2>1. StepOf(c) /\ raised[c] # None /\ raised' = [raised EXCEPT ![c] = None] /\ UNCHANGED stops
    BY <1>7, StopStep
  <2>2. \A d \in Calls \ {c} : calls'[d] = calls[d] /\ raised'[d] = raised[d]
    BY <2>1 DEF StepOf, ShapeInv, TypeOK
  <2>3. raised'[c] = None /\ stops[c] = "raised"
    BY <2>1 DEF StopState, ShapeInv, TypeOK
  <2>4. ASSUME NEW d \in Calls
        PROVE  /\ raised'[d] \in {None, d}
               /\ raised'[d] = d => stops[d] = "raised" /\ Alive(d)'
               /\ stops[d] = "dropped" => Alive(d)' /\ calls'[d].step # "finished"
    BY <2>2, <2>3, <1>n DEF StopState, Alive
  <2> QED
    BY <2>1, <2>4 DEF StopState
<1>8. ASSUME NEW c \in Calls, DropHolds(c)
      PROVE  StopState'
  <2>1. /\ stops[c] = "waiting" /\ stops' = [stops EXCEPT ![c] = "dropped"]
        /\ calls[c].step \notin {"unborn", "finished", "dead"} /\ UNCHANGED <<calls, raised>>
    BY <1>8 DEF DropHolds, MayStop
  <2>2. stops'[c] = "dropped" /\ \A d \in Calls \ {c} : stops'[d] = stops[d]
    BY <2>1 DEF ShapeInv, TypeOK
  <2>3. raised[c] = None
    BY <2>1 DEF StopState
  <2> QED
    BY <2>1, <2>2, <2>3, <1>n DEF StopState, Alive
<1>9. ASSUME NEW c \in Calls, RaiseStop(c)
      PROVE  StopState'
  <2>1. Alive(c) /\ \A d \in Calls : Alive(d) /\ calls[d].ident = calls[c].ident => d = c
    BY <1>9 DEF RaiseStop, StopState, Distinct
  <2>2. raised'[c] = c /\ \A d \in Calls \ {c} : raised'[d] = raised[d]
    BY <1>9, <2>1 DEF RaiseStop
  <2>3. stops'[c] = "raised" /\ (\A d \in Calls \ {c} : stops'[d] = stops[d]) /\ UNCHANGED calls
    BY <1>9 DEF RaiseStop, ShapeInv, TypeOK
  <2> QED
    BY <2>1, <2>2, <2>3, <1>n DEF StopState, Alive
<1>10. ASSUME Renewer \/ UNCHANGED vars
       PROVE  StopState'
  <2>1. UNCHANGED <<calls, stops, raised>>
    BY <1>10 DEF Renewer, WaitInterval, GoOnRenewing, EndRenewer, CopyHeld, EndRenewal, vars
  <2> QED
    BY <2>1 DEF StopState, Alive
<1> QED
  BY <1>2, <1>3, <1>4, <1>5, <1>6, <1>7, <1>8, <1>9, <1>10 DEF Next, Code, Library, CodeStopped

LEMMA StopInvHolds == Spec => []StopInv
<1>1. Init => StopInv
  BY InitTypes, UnbornType, CallsAssumption
  DEF Init, StopInv, ShapeInv, Shaped, Distinct, StopState, Alive
<1>2. StopInv /\ [Next]_vars => StopInv'
  BY StepShape, StepDistinct, StepStopState DEF StopInv
<1> QED
  BY <1>1, <1>2, PTL DEF Spec

\* The stop of a call that outlived its timeout reaches its own thread: the guard
\* keeps the thread from ending between the look at its mark and the stop, and
\* while it has not ended no other thread has its id.
THEOREM StopsHitTheirOwn == Spec => []StopHitsItsOwn
<1>1. StopInv => StopHitsItsOwn
  BY DEF StopInv, StopState, StopHitsItsOwn
<1> QED
  BY <1>1, StopInvHolds, PTL


-----------------------------------------------------------------------------
(* What is held                                                            *)

HoldInv == StopInv /\ StoppedHoldsNothing /\ OnlyLateOutlives

\* Only one call's thread moves, whose id stays.
LEMMA OthersStay ==
  ASSUME ShapeInv, NEW c \in Calls, StepOf(c)
  PROVE  \A d \in Calls \ {c} :
           calls'[d] = calls[d] /\ (Alive(d) => Alive(d)') /\ Entered(d)' = Entered(d) /\ Taking(d)' = Taking(d)
<1>1. \A d \in Calls \ {c} : calls'[d] = calls[d]
  BY DEF StepOf, ShapeInv, TypeOK
<1> QED
  BY <1>1 DEF Alive, Entered, Taking

LEMMA StepStoppedHoldsNothing ==
  ASSUME HoldInv, [Next]_vars
  PROVE  StoppedHoldsNothing'
<1> USE DEF HoldInv, StopInv
<1> DEFINE Stopped(c) == stops[c] = "dropped" \/ raised[c] = c
<1>a. \A c \in Calls : Stopped(c) => Alive(c)
  BY DEF StopState
\* A step that adds nothing to what is held, and stops no call.
<1>1. ASSUME \A k \in ClaimIds : held'[k] \in {None, held[k]},
             \A k \in ClaimIds : k \in late /\ k \notin late' => held'[k] = None,
             \A c \in Calls : Stopped(c)' => Stopped(c),
             \A c \in Calls : Stopped(c) => calls'[c].ident = calls[c].ident
      PROVE  StoppedHoldsNothing'
  BY <1>1 DEF StoppedHoldsNothing, Held
<1>2. ASSUME UNCHANGED <<held, stops, raised, late>>
      PROVE  StoppedHoldsNothing'
  <2>1. \A c \in Calls : Alive(c) => calls'[c].ident = calls[c].ident
    <3>1. ASSUME NEW d \in Calls, Begin(d)
          PROVE  \A c \in Calls : Alive(c) => calls'[c].ident = calls[c].ident
      BY <3>1, BeginStep, OthersStay DEF Alive
    <3>2. ASSUME NEW d \in Calls, StepOf(d), calls'[d].ident = calls[d].ident
          PROVE  \A c \in Calls : Alive(c) => calls'[c].ident = calls[c].ident
      BY <3>2, OthersStay
    <3> QED
      BY <3>1, <3>2, CallSteps
  <2> QED
    BY <1>1, <1>2, <1>a, <2>1
<1>3. ASSUME NEW c \in Calls, EnterHold(c)
      PROVE  StoppedHoldsNothing'
  <2>1. /\ StepOf(c) /\ calls[c].step = "coding" /\ calls'[c].ident = calls[c].ident
        /\ NewClaim \in ClaimIds /\ NewClaim \notin InUse
    BY <1>3, EnterHoldStep
  <2>2. /\ raised[c] = None /\ held' = [held EXCEPT ![NewClaim] = calls[c].ident]
        /\ late' = (IF GuardFree(c) THEN late ELSE late \cup {NewClaim})
        /\ UNCHANGED <<stops, raised>>
    BY <1>3 DEF EnterHold, At
  <2>3. \A d \in Calls \ {c} : calls'[d] = calls[d]
    BY <2>1, OthersStay
  <2>4. ASSUME NEW d \in Calls, NEW k \in ClaimIds, held'[k] # None, k \notin late', Stopped(d)
        PROVE  held'[k] # calls'[d].ident
    <3>1. CASE k = NewClaim
      <4>1. held'[k] = calls[c].ident
        BY <2>1, <2>2, <3>1 DEF ShapeInv, TypeOK
      <4>2. d # c
        BY <2>2, <2>4, <3>1, CallsAssumption DEF GuardFree
      <4> QED
        BY <1>a, <2>1, <2>3, <2>4, <4>1, <4>2 DEF Distinct, Alive
    <3>2. CASE k # NewClaim
      <4>1. held'[k] = held[k] /\ k \notin late
        BY <2>2, <2>4, <3>2 DEF ShapeInv, TypeOK
      <4> QED
        BY <2>1, <2>3, <2>4, <4>1 DEF StoppedHoldsNothing, Held
    <3> QED
      BY <3>1, <3>2
  <2> QED
    BY <2>2, <2>4 DEF StoppedHoldsNothing, Held
<1>4. ASSUME NEW c \in Calls, Release(c)
      PROVE  StoppedHoldsNothing'
  <2>1. StepOf(c) /\ calls'[c].ident = calls[c].ident
    BY <1>4, ReleaseStep
  <2>2. \A d \in Calls : calls'[d].ident = calls[d].ident
    BY <2>1, OthersStay
  <2>3. /\ held' = [held EXCEPT ![Innermost(c)] = None] /\ late' = late \ {Innermost(c)}
        /\ UNCHANGED <<stops, raised>>
    BY <1>4 DEF Release, Released
  <2> QED
    BY <1>1, <2>2, <2>3 DEF ShapeInv, TypeOK
<1>5. ASSUME NEW c \in Calls,
             \/ StopArrives(c) \/ StopArrivesHolding(c) \/ StopArrivesLeaving(c)
             \/ StopArrivesEnding(c) \/ SwallowStop(c)
      PROVE  StoppedHoldsNothing'
  <2>1. /\ StepOf(c) /\ calls'[c].ident = calls[c].ident
        /\ raised' = [raised EXCEPT ![c] = None] /\ UNCHANGED <<held, stops, late>>
    BY <1>5, StopStep
  <2>2. \A d \in Calls : calls'[d].ident = calls[d].ident
    BY <2>1, OthersStay
  <2>3. \A d \in Calls : raised'[d] \in {None, raised[d]}
    BY <2>1 DEF ShapeInv, TypeOK
  <2> QED
    BY <1>1, <2>1, <2>2, <2>3, CallsAssumption
<1>6. ASSUME NEW c \in Calls, DropHolds(c)
      PROVE  StoppedHoldsNothing'
  <2>1. /\ stops' = [stops EXCEPT ![c] = "dropped"] /\ UNCHANGED <<calls, raised, late>>
        /\ held' = [k \in ClaimIds |-> IF k \in HeldByThread(c) THEN None ELSE held[k]]
    BY <1>6 DEF DropHolds
  <2>2. \A k \in ClaimIds : held'[k] # None => held'[k] = held[k] /\ held[k] # calls[c].ident
    BY <2>1 DEF HeldByThread, Held
  <2>3. \A d \in Calls \ {c} : stops'[d] = stops[d]
    BY <2>1 DEF ShapeInv, TypeOK
  <2> QED
    BY <2>1, <2>2, <2>3 DEF StoppedHoldsNothing, Held
<1>7. ASSUME NEW c \in Calls, RaiseStop(c)
      PROVE  StoppedHoldsNothing'
  <2>1. Alive(c) /\ \A d \in Calls : Alive(d) /\ calls[d].ident = calls[c].ident => d = c
    BY <1>7 DEF RaiseStop, StopState, Distinct
  <2>2. raised'[c] = c /\ \A d \in Calls \ {c} : raised'[d] = raised[d]
    BY <1>7, <2>1 DEF RaiseStop
  <2>3. /\ stops[c] = "dropped" /\ stops'[c] = "raised" /\ \A d \in Calls \ {c} : stops'[d] = stops[d]
        /\ UNCHANGED <<calls, held, late>>
    BY <1>7 DEF RaiseStop, ShapeInv, TypeOK
  <2>4. \A d \in Calls : Stopped(d)' => Stopped(d)
    BY <2>2, <2>3
  <2> QED
    BY <1>1, <2>3, <2>4
<1>8. ASSUME \/ Renewer \/ UNCHANGED vars
             \/ \E c \in Calls :
                  \/ FindRenewer(c) \/ SetRenewer(c) \/ StartRenewer(c) \/ EnterBlock(c) \/ EndBlock(c)
                  \/ EndCode(c) \/ MarkFinished(c) \/ EndThread(c) \/ Begin(c)
      PROVE  UNCHANGED <<held, stops, raised, late>>
  BY <1>8 DEF Renewer, WaitInterval, GoOnRenewing, EndRenewer, CopyHeld, EndRenewal, vars,
              FindRenewer, SetRenewer, StartRenewer, EnterBlock, EndBlock, EndCode, MarkFinished, EndThread,
              Begin
<1> HIDE DEF Stopped
<1> QED
  BY <1>2, <1>3, <1>4, <1>5, <1>6, <1>7, <1>8 DEF Next, Code, Library, CodeStopped

\* `c` is in the block of `k`, or entering it.
Names(c, k) == Alive(c) /\ held[k] = calls[c].ident /\ k \in Entered(c) \cup Taking(c)

LEMMA StepOnlyLateOutlives ==
  ASSUME HoldInv, [Next]_vars
  PROVE  OnlyLateOutlives'
<1> USE DEF HoldInv, StopInv
<1>o. \A k \in Held \ late : \E c \in Calls : Names(c, k)
  BY DEF OnlyLateOutlives, Names
<1>g. ASSUME \A k \in Held' \ late' : \E c \in Calls : Names(c, k)'
      PROVE  OnlyLateOutlives'
  BY <1>g DEF OnlyLateOutlives, Names
\* A step of one call, to whose thread nothing it names is lost.
<1>1. ASSUME NEW c \in Calls, StepOf(c), UNCHANGED <<held, late>>,
             \A k \in Held \ late : Names(c, k) => Names(c, k)'
      PROVE  OnlyLateOutlives'
  <2>1. ASSUME NEW k \in Held \ late
        PROVE  \E d \in Calls : Names(d, k)'
    <3>1. PICK d \in Calls : Names(d, k)
      BY <1>o, <2>1
    <3> QED
      BY <1>1, <2>1, <3>1, OthersStay DEF Names
  <2> QED
    BY <1>1, <1>g, <2>1 DEF Held
<1>2. ASSUME NEW c \in Calls,
             \/ FindRenewer(c) \/ SetRenewer(c) \/ StartRenewer(c) \/ EndBlock(c) \/ EndCode(c)
             \/ MarkFinished(c) \/ EndThread(c)
      PROVE  OnlyLateOutlives'
  <2>1. /\ StepOf(c) /\ (Alive(c)' \/ calls[c].step = "finished") /\ calls'[c].ident = calls[c].ident
        /\ calls'[c].blocks = calls[c].blocks /\ calls'[c].claim = calls[c].claim
    BY <1>2, PlainSteps
  <2>2. Entered(c)' = Entered(c) /\ Taking(c)' = Taking(c)
    BY <2>1 DEF Entered, Taking
  <2>3. UNCHANGED <<held, late>>
    BY <1>2 DEF FindRenewer, SetRenewer, StartRenewer, EndBlock, EndCode, MarkFinished, EndThread
  <2>4. calls[c].step = "finished" => Entered(c) = {} /\ Taking(c) = {}
    BY DEF ShapeInv, Shaped, Entered, Taking
  <2> QED
    BY <1>1, <2>1, <2>2, <2>3, <2>4 DEF Names
<1>3. ASSUME NEW c \in Calls, Begin(c)
      PROVE  OnlyLateOutlives'
  <2>1. StepOf(c) /\ ~Alive(c) /\ UNCHANGED <<held, late>>
    BY <1>3, BeginStep DEF Begin, Alive
  <2> QED
    BY <1>1, <2>1 DEF Names
<1>4. ASSUME NEW c \in Calls, EnterHold(c)
      PROVE  OnlyLateOutlives'
  <2>1. /\ StepOf(c) /\ calls[c].claim = None /\ calls'[c].step = "entered" /\ calls'[c].claim = NewClaim
        /\ calls'[c].blocks = calls[c].blocks /\ calls'[c].ident = calls[c].ident
        /\ NewClaim \in ClaimIds
    BY <1>4, EnterHoldStep
  <2>2. Entered(c)' = Entered(c) /\ NewClaim \in Taking(c)' /\ Taking(c) = {} /\ Alive(c)'
    BY <2>1, NullsAssumption DEF Entered, Taking, Alive
  <2>3. /\ held'[NewClaim] = calls[c].ident /\ late \subseteq late'
        /\ \A k \in ClaimIds : k # NewClaim => held'[k] = held[k]
    BY <1>4, <2>1 DEF EnterHold, ShapeInv, TypeOK
  <2>4. ASSUME NEW k \in Held' \ late'
        PROVE  \E d \in Calls : Names(d, k)'
    <3>1. CASE k = NewClaim
      BY <2>1, <2>2, <2>3, <3>1 DEF Names
    <3>2. CASE k # NewClaim
      <4>1. k \in Held \ late /\ held'[k] = held[k]
        BY <2>3, <2>4, <3>2 DEF Held
      <4>2. PICK d \in Calls : Names(d, k)
        BY <1>o, <4>1
      <4> QED
        BY <2>1, <2>2, <4>1, <4>2, OthersStay DEF Names
    <3> QED
      BY <3>1, <3>2
  <2> QED
    BY <1>g, <2>4
<1>5. ASSUME NEW c \in Calls, EnterBlock(c)
      PROVE  OnlyLateOutlives'
  <2>1. /\ StepOf(c) /\ calls'[c].step = "coding" /\ calls'[c].ident = calls[c].ident
        /\ Entered(c)' = Entered(c) \cup {calls[c].claim}
    BY <1>5, EnterBlockStep
  <2> QED
    BY <1>1, <1>5, <2>1 DEF EnterBlock, Names, Taking, Alive
<1>6. ASSUME NEW c \in Calls, Release(c)
      PROVE  OnlyLateOutlives'
  <2>1. /\ StepOf(c) /\ calls'[c].step \in {"coding", "leaving", "ending"} /\ calls'[c].ident = calls[c].ident
        /\ \A k \in Entered(c) : k # Innermost(c) => k \in Entered(c)'
    BY <1>6, ReleaseStep
  <2>2. Taking(c) = {} /\ Alive(c)'
    BY <1>6, <2>1 DEF Release, At, ShapeInv, Shaped, Taking, Alive
  <2>3. /\ \A k \in ClaimIds : held'[k] = IF k = Innermost(c) THEN None ELSE held[k]
        /\ late' = late \ {Innermost(c)}
    BY <1>6 DEF Release, Released, ShapeInv, TypeOK
  <2>4. ASSUME NEW k \in Held' \ late'
        PROVE  \E d \in Calls : Names(d, k)'
    <3>1. k \in Held \ late /\ held'[k] = held[k] /\ k # Innermost(c)
      BY <2>3, <2>4 DEF Held
    <3>2. PICK d \in Calls : Names(d, k)
      BY <1>o, <3>1
    <3> QED
      BY <2>1, <2>2, <3>1, <3>2, OthersStay DEF Names
  <2> QED
    BY <1>g, <2>4
\* A stop drops the names of claims its thread does not hold any more.
<1>7. ASSUME NEW c \in Calls,
             \/ StopArrives(c) \/ StopArrivesHolding(c) \/ StopArrivesLeaving(c)
             \/ StopArrivesEnding(c) \/ SwallowStop(c)
      PROVE  OnlyLateOutlives'
  <2>1. StepOf(c) /\ raised[c] # None /\ UNCHANGED <<held, late>>
    BY <1>7, StopStep
  <2>2. raised[c] = c
    BY <2>1 DEF StopState
  <2>3. \A k \in Held \ late : ~Names(c, k)
    BY <2>2 DEF StoppedHoldsNothing, Names
  <2> QED
    BY <1>1, <2>1, <2>3
<1>8. ASSUME NEW c \in Calls, DropHolds(c)
      PROVE  OnlyLateOutlives'
  <2>1. UNCHANGED <<calls, late>> /\ \A k \in ClaimIds : held'[k] # None => held'[k] = held[k]
    BY <1>8 DEF DropHolds
  <2>2. ASSUME NEW k \in Held' \ late'
        PROVE  \E d \in Calls : Names(d, k)'
    <3>1. k \in Held \ late /\ held'[k] = held[k]
      BY <2>1, <2>2 DEF Held
    <3>2. PICK d \in Calls : Names(d, k)
      BY <1>o, <3>1
    <3> QED
      BY <2>1, <3>1, <3>2 DEF Names, Alive, Entered, Taking
  <2> QED
    BY <1>g, <2>2
<1>9. ASSUME Renewer \/ UNCHANGED vars \/ \E c \in Calls : RaiseStop(c)
      PROVE  OnlyLateOutlives'
  <2>1. UNCHANGED <<calls, held, late>>
    BY <1>9 DEF Renewer, WaitInterval, GoOnRenewing, EndRenewer, CopyHeld, EndRenewal, vars, RaiseStop
  <2> QED
    BY <2>1 DEF OnlyLateOutlives, Held, Alive, Entered, Taking
<1> QED
  BY <1>2, <1>3, <1>4, <1>5, <1>6, <1>7, <1>8, <1>9 DEF Next, Code, Library, CodeStopped

LEMMA HoldInvHolds == Spec => []HoldInv
<1>1. Init => HoldInv
  <2> SUFFICES ASSUME Init PROVE HoldInv
    OBVIOUS
  <2>1. StopInv
    BY InitTypes, UnbornType, CallsAssumption
    DEF Init, StopInv, ShapeInv, Shaped, Distinct, StopState, Alive
  <2>2. Held = {}
    BY DEF Init, Held
  <2> QED
    BY <2>1, <2>2 DEF HoldInv, StoppedHoldsNothing, OnlyLateOutlives
<1>2. HoldInv /\ [Next]_vars => HoldInv'
  BY StepShape, StepDistinct, StepStopState, StepStoppedHoldsNothing, StepOnlyLateOutlives
  DEF HoldInv, StopInv
<1> QED
  BY <1>1, <1>2, PTL DEF Spec

\* A call abandoned at its timeout holds nothing any more, in however many blocks
\* it is, but for what it took as it was being stopped.
THEOREM StoppedHoldNothing == Spec => []StoppedHoldsNothing
<1>1. HoldInv => StoppedHoldsNothing
  BY DEF HoldInv
<1> QED
  BY <1>1, HoldInvHolds, PTL

\* A claim is held no longer than the block of its work lasts, wherever stops
\* arrive, but for one taken as its call was being stopped.
THEOREM HeldWhileInUse == Spec => []OnlyLateOutlives
<1>1. HoldInv => OnlyLateOutlives
  BY DEF HoldInv
<1> QED
  BY <1>1, HoldInvHolds, PTL


-----------------------------------------------------------------------------
(* The renewer                                                             *)

\* A claim taken as its call was stopped, that no thread will let go any more.
Lost(k) == k \in late /\ \A c \in Calls : k \notin Entered(c) \cup Taking(c)

Leaked == \E k \in ClaimIds : Lost(k)

\* A claim being taken is in `held`, and no block is entered with it yet.
TakingIsNew ==
  \A c \in Calls :
    /\ InHold(c) => held[calls[c].claim] = calls[c].ident
    /\ calls[c].claim # None =>
         \A d \in Calls : /\ calls[c].claim \notin Entered(d)
                          /\ d # c => calls[c].claim # calls[d].claim

\* Between two holds a renewer is set as long as anything is held; one that is
\* set and not started is about to be, by the thread that set it.
RenewerSet ==
  /\ renewer = "none" => Held = {} \/ Leaked \/ \E c \in Calls : calls[c].step = "entered"
  /\ renewer = "unstarted" => Leaked \/ \E c \in Calls : calls[c].step = "starting"

RenewInv == HoldInv /\ TakingIsNew /\ RenewerSet

LEMMA StepTakingIsNew ==
  ASSUME HoldInv, TakingIsNew, [Next]_vars
  PROVE  TakingIsNew'
<1> USE DEF HoldInv, StopInv
\* A step that takes no claim and enters no block with one.
<1>1. ASSUME NEW c \in Calls, StepOf(c), UNCHANGED held,
             InHold(c)' => InHold(c) /\ calls'[c].claim = calls[c].claim /\ calls'[c].ident = calls[c].ident,
             calls'[c].claim \in {None, calls[c].claim},
             Entered(c)' \subseteq Entered(c)
      PROVE  TakingIsNew'
  <2>1. \A d \in Calls : /\ Entered(d)' \subseteq Entered(d)
                         /\ calls'[d].claim \in {None, calls[d].claim}
                         /\ InHold(d)' => /\ InHold(d) /\ calls'[d].claim = calls[d].claim
                                          /\ calls'[d].ident = calls[d].ident
    BY <1>1, OthersStay DEF InHold
  <2>2. \A d \in Calls : InHold(d)' => held'[calls'[d].claim] = calls'[d].ident
    BY <1>1, <2>1 DEF TakingIsNew
  <2>3. ASSUME NEW d \in Calls, NEW e \in Calls, calls'[d].claim # None
        PROVE  calls'[d].claim \notin Entered(e)' /\ (e # d => calls'[d].claim # calls'[e].claim)
    BY <2>1, <2>3 DEF TakingIsNew
  <2> QED
    BY <2>2, <2>3 DEF TakingIsNew
<1>2. ASSUME NEW c \in Calls,
             \/ FindRenewer(c) \/ SetRenewer(c) \/ StartRenewer(c) \/ EndBlock(c) \/ EndCode(c)
             \/ MarkFinished(c) \/ EndThread(c)
      PROVE  TakingIsNew'
  <2>1. /\ StepOf(c) /\ calls'[c].blocks = calls[c].blocks /\ calls'[c].claim = calls[c].claim
        /\ calls'[c].ident = calls[c].ident
        /\ (calls'[c].step = "starting" => calls[c].step = "entered") /\ calls'[c].step # "entered"
    BY <1>2, PlainSteps
  <2>2. UNCHANGED held
    BY <1>2 DEF FindRenewer, SetRenewer, StartRenewer, EndBlock, EndCode, MarkFinished, EndThread
  <2> QED
    BY <1>1, <2>1, <2>2 DEF InHold, Entered
<1>3. ASSUME NEW c \in Calls, Begin(c)
      PROVE  TakingIsNew'
  <2>1. /\ StepOf(c) /\ calls'[c].step = "coding" /\ calls'[c].blocks = <<>> /\ calls'[c].claim = None
        /\ calls[c].step = "unborn" /\ UNCHANGED held
    BY <1>3, BeginStep DEF Begin
  <2>2. Entered(c)' = {}
    BY <2>1 DEF Entered
  <2> QED
    BY <1>1, <2>1, <2>2 DEF InHold
<1>4. ASSUME NEW c \in Calls, EnterHold(c)
      PROVE  TakingIsNew'
  <2>1. /\ StepOf(c) /\ calls[c].claim = None /\ calls'[c].step = "entered" /\ calls'[c].claim = NewClaim
        /\ calls'[c].blocks = calls[c].blocks /\ calls'[c].ident = calls[c].ident
        /\ NewClaim \in ClaimIds /\ NewClaim \notin InUse
    BY <1>4, EnterHoldStep
  <2>2. held'[NewClaim] = calls[c].ident /\ LockFree
    BY <1>4, <2>1 DEF EnterHold, ShapeInv, TypeOK
  <2>3. \A d \in Calls \ {c} : calls'[d] = calls[d]
    BY <2>1, OthersStay
  <2>4. \A d \in Calls : Entered(d)' = Entered(d)
    BY <2>1, OthersStay DEF Entered
  <2>5. \A d \in Calls : NewClaim \notin Entered(d) /\ NewClaim # calls[d].claim
    BY <2>1, NullsAssumption DEF InUse, Taking
  <2>6. \A d \in Calls : InHold(d)' => held'[calls'[d].claim] = calls'[d].ident
    BY <2>1, <2>2, <2>3 DEF LockFree, InHold
  <2>7. ASSUME NEW d \in Calls, NEW e \in Calls, calls'[d].claim # None
        PROVE  calls'[d].claim \notin Entered(e)' /\ (e # d => calls'[d].claim # calls'[e].claim)
    BY <2>1, <2>3, <2>4, <2>5, <2>7 DEF TakingIsNew
  <2> QED
    BY <2>6, <2>7 DEF TakingIsNew
<1>5. ASSUME NEW c \in Calls, EnterBlock(c)
      PROVE  TakingIsNew'
  <2>1. /\ StepOf(c) /\ calls'[c].step = "coding" /\ calls'[c].claim = None
        /\ calls[c].step = "holding" /\ UNCHANGED held
        /\ Entered(c)' = Entered(c) \cup {calls[c].claim}
    BY <1>5, EnterBlockStep DEF EnterBlock
  <2>2. calls[c].claim # None
    BY <2>1 DEF ShapeInv, Shaped
  <2>3. \A d \in Calls \ {c} : calls'[d] = calls[d] /\ Entered(d)' = Entered(d)
    BY <2>1, OthersStay
  <2>4. \A d \in Calls : InHold(d)' => held'[calls'[d].claim] = calls'[d].ident
    BY <2>1, <2>3 DEF TakingIsNew, InHold
  <2>5. ASSUME NEW d \in Calls, NEW e \in Calls, calls'[d].claim # None
        PROVE  calls'[d].claim \notin Entered(e)' /\ (e # d => calls'[d].claim # calls'[e].claim)
    <3>1. d # c /\ calls'[d] = calls[d] /\ calls[d].claim # calls[c].claim
      BY <2>1, <2>2, <2>3, <2>5 DEF TakingIsNew
    <3>2. calls[d].claim \notin Entered(e) /\ (e # d => calls[d].claim # calls[e].claim)
      BY <2>5, <3>1 DEF TakingIsNew
    <3> QED
      BY <2>1, <2>3, <2>5, <3>1, <3>2
  <2> QED
    BY <2>4, <2>5 DEF TakingIsNew
<1>6. ASSUME NEW c \in Calls, Release(c)
      PROVE  TakingIsNew'
  <2>1. /\ StepOf(c) /\ calls'[c].step \in {"coding", "leaving", "ending"} /\ calls'[c].claim = None
        /\ Entered(c)' \subseteq Entered(c) /\ LockFree
    BY <1>6, ReleaseStep DEF Release
  <2>2. \A d \in Calls \ {c} : calls'[d] = calls[d] /\ Entered(d)' = Entered(d)
    BY <2>1, OthersStay
  <2>3. \A d \in Calls : ~InHold(d)'
    BY <2>1, <2>2 DEF LockFree, InHold
  <2>4. ASSUME NEW d \in Calls, NEW e \in Calls, calls'[d].claim # None
        PROVE  calls'[d].claim \notin Entered(e)' /\ (e # d => calls'[d].claim # calls'[e].claim)
    BY <2>1, <2>2, <2>4 DEF TakingIsNew
  <2> QED
    BY <2>3, <2>4 DEF TakingIsNew
<1>7. ASSUME NEW c \in Calls,
             \/ StopArrives(c) \/ StopArrivesHolding(c) \/ StopArrivesLeaving(c)
             \/ StopArrivesEnding(c) \/ SwallowStop(c)
      PROVE  TakingIsNew'
  BY <1>1, <1>7, StopStep
<1>8. ASSUME NEW c \in Calls, DropHolds(c)
      PROVE  TakingIsNew'
  BY <1>8 DEF DropHolds, LockFree, TakingIsNew, InHold, Entered
<1>9. ASSUME Renewer \/ UNCHANGED vars \/ \E c \in Calls : RaiseStop(c)
      PROVE  TakingIsNew'
  <2>1. UNCHANGED <<calls, held>>
    BY <1>9 DEF Renewer, WaitInterval, GoOnRenewing, EndRenewer, CopyHeld, EndRenewal, vars, RaiseStop
  <2> QED
    BY <2>1 DEF TakingIsNew, InHold, Entered
<1> QED
  BY <1>2, <1>3, <1>4, <1>5, <1>6, <1>7, <1>8, <1>9 DEF Next, Code, Library, CodeStopped

\* A claim that is lost stays lost.
LEMMA LostStaysLost ==
  ASSUME HoldInv, [Next]_vars, NEW k \in ClaimIds, Lost(k)
  PROVE  Lost(k)'
<1> USE DEF HoldInv, StopInv
<1>1. ASSUME NEW c \in Calls, StepOf(c), k \in late',
             k \notin Entered(c)' \cup Taking(c)'
      PROVE  Lost(k)'
  BY <1>1, OthersStay DEF Lost
<1>2. ASSUME NEW c \in Calls,
             \/ FindRenewer(c) \/ SetRenewer(c) \/ StartRenewer(c) \/ EndBlock(c) \/ EndCode(c)
             \/ MarkFinished(c) \/ EndThread(c)
      PROVE  Lost(k)'
  <2>1. StepOf(c) /\ calls'[c].blocks = calls[c].blocks /\ calls'[c].claim = calls[c].claim
    BY <1>2, PlainSteps
  <2>2. UNCHANGED late
    BY <1>2 DEF FindRenewer, SetRenewer, StartRenewer, EndBlock, EndCode, MarkFinished, EndThread
  <2> QED
    BY <1>1, <2>1, <2>2 DEF Lost, Entered, Taking
<1>3. ASSUME NEW c \in Calls, Begin(c)
      PROVE  Lost(k)'
  <2>1. /\ StepOf(c) /\ calls'[c].blocks = <<>> /\ calls'[c].claim = None
        /\ UNCHANGED late
    BY <1>3, BeginStep DEF Begin
  <2>2. Entered(c)' = {}
    BY <2>1 DEF Entered
  <2> QED
    BY <1>1, <2>1, <2>2 DEF Lost, Taking
<1>4. ASSUME NEW c \in Calls, EnterHold(c)
      PROVE  Lost(k)'
  <2>1. /\ StepOf(c) /\ calls'[c].claim = NewClaim /\ calls'[c].blocks = calls[c].blocks
        /\ NewClaim \notin InUse /\ late \subseteq late'
    BY <1>4, EnterHoldStep DEF EnterHold
  <2>2. k # NewClaim
    BY <2>1 DEF InUse, Lost
  <2> QED
    BY <1>1, <2>1, <2>2 DEF Lost, Entered, Taking
<1>5. ASSUME NEW c \in Calls, EnterBlock(c)
      PROVE  Lost(k)'
  <2>1. /\ StepOf(c) /\ calls'[c].claim = None /\ UNCHANGED late
        /\ Entered(c)' = Entered(c) \cup {calls[c].claim} /\ calls[c].step = "holding"
    BY <1>5, EnterBlockStep DEF EnterBlock
  <2>2. calls[c].claim # None
    BY <2>1 DEF ShapeInv, Shaped
  <2> QED
    BY <1>1, <2>1, <2>2 DEF Lost, Taking
<1>6. ASSUME NEW c \in Calls, Release(c)
      PROVE  Lost(k)'
  <2>1. /\ StepOf(c) /\ calls'[c].claim = None /\ Entered(c)' \subseteq Entered(c)
        /\ Innermost(c) \in Entered(c) /\ late' = late \ {Innermost(c)}
    BY <1>6, ReleaseStep DEF Release
  <2> QED
    BY <1>1, <2>1 DEF Lost, Taking
<1>7. ASSUME NEW c \in Calls,
             \/ StopArrives(c) \/ StopArrivesHolding(c) \/ StopArrivesLeaving(c)
             \/ StopArrivesEnding(c) \/ SwallowStop(c)
      PROVE  Lost(k)'
  <2>1. StepOf(c) /\ calls'[c].claim = None /\ Entered(c)' \subseteq Entered(c) /\ UNCHANGED late
    BY <1>7, StopStep
  <2> QED
    BY <1>1, <2>1 DEF Lost, Taking
<1>8. ASSUME Renewer \/ UNCHANGED vars \/ \E c \in Calls : DropHolds(c) \/ RaiseStop(c)
      PROVE  Lost(k)'
  <2>1. UNCHANGED <<calls, late>>
    BY <1>8 DEF Renewer, WaitInterval, GoOnRenewing, EndRenewer, CopyHeld, EndRenewal, vars, RaiseStop, DropHolds
  <2> QED
    BY <2>1 DEF Lost, Entered, Taking
<1> QED
  BY <1>2, <1>3, <1>4, <1>5, <1>6, <1>7, <1>8 DEF Next, Code, Library, CodeStopped

\* A stop that arrives in a hold() leaves a claim behind that is lost: the holds of
\* its call were dropped before, so this one was taken since.
LEMMA StopInHoldLeaks ==
  ASSUME RenewInv, NEW c \in Calls, StopArrivesHolding(c), InHold(c)
  PROVE  Leaked'
<1> USE DEF RenewInv, HoldInv, StopInv
<1> DEFINE k == calls[c].claim
<1>1. k \in ClaimIds /\ calls[c].ident # None
  BY DEF InHold, ShapeInv, TypeOK, Shaped, CallState
<1>2. held[k] = calls[c].ident
  BY DEF TakingIsNew
<1>3. raised[c] = c
  BY DEF StopArrivesHolding, StopState
<1>4. k \in late
  BY <1>1, <1>2, <1>3 DEF StoppedHoldsNothing, Held
<1>5. StepOf(c) /\ calls'[c].claim = None /\ Entered(c)' \subseteq Entered(c) /\ UNCHANGED late
  BY StopStep
<1>6. \A d \in Calls : k \notin Entered(d) /\ (d # c => k # calls[d].claim)
  BY <1>1, NullsAssumption DEF TakingIsNew
<1>7. k \notin Entered(c)' \cup Taking(c)'
  BY <1>5, <1>6 DEF Taking
<1>8. \A d \in Calls \ {c} : k \notin Entered(d)' \cup Taking(d)'
  BY <1>5, <1>6, OthersStay DEF Taking
<1> QED
  BY <1>1, <1>4, <1>5, <1>7, <1>8 DEF Leaked, Lost

LEMMA StepRenewerSet ==
  ASSUME RenewInv, [Next]_vars
  PROVE  RenewerSet'
<1> USE DEF RenewInv, HoldInv, StopInv
<1>l. CASE Leaked
  BY <1>l, LostStaysLost DEF Leaked, RenewerSet
<1>n. CASE ~Leaked
  \* A step after which the threads in a hold() are where they were.
  <2>1. ASSUME renewer' = renewer, Held' \subseteq Held,
               \A d \in Calls : calls[d].step \in {"entered", "starting"} => calls'[d].step = calls[d].step
        PROVE  RenewerSet'
    BY <1>n, <2>1 DEF RenewerSet
  <2>2. ASSUME NEW c \in Calls, FindRenewer(c)
        PROVE  RenewerSet'
    <3>1. renewer # "none" /\ renewer' = renewer /\ calls[c].step = "entered" /\ StepOf(c)
      BY <2>2, PlainSteps DEF FindRenewer, At
    <3> QED
      BY <1>n, <3>1, OthersStay DEF RenewerSet
  <2>3. ASSUME NEW c \in Calls, SetRenewer(c)
        PROVE  RenewerSet'
    <3>1. renewer' = "unstarted" /\ calls' = [calls EXCEPT ![c] = [calls[c] EXCEPT !.step = "starting"]]
      BY <2>3 DEF SetRenewer, Goto
    <3>2. calls'[c].step = "starting"
      BY <3>1 DEF ShapeInv, TypeOK, CallState
    <3> QED
      BY <3>1, <3>2 DEF RenewerSet
  <2>4. ASSUME NEW c \in Calls, StartRenewer(c)
        PROVE  RenewerSet'
    BY <2>4 DEF StartRenewer, RenewerSet
  <2>5. ASSUME NEW c \in Calls, StepOf(c), calls[c].step \notin {"entered", "starting"},
               renewer' = renewer, Held' \subseteq Held
        PROVE  RenewerSet'
    BY <2>1, <2>5, OthersStay
  <2>6. ASSUME NEW c \in Calls, EndBlock(c) \/ EndCode(c) \/ MarkFinished(c) \/ EndThread(c)
        PROVE  RenewerSet'
    <3>1. StepOf(c)
      BY <2>6, PlainSteps
    <3> QED
      BY <2>5, <2>6, <3>1 DEF EndBlock, EndCode, MarkFinished, EndThread, At, Held
  <2>7. ASSUME NEW c \in Calls, Begin(c)
        PROVE  RenewerSet'
    BY <2>5, <2>7, BeginStep DEF Begin, Held
  <2>8. ASSUME NEW c \in Calls, EnterHold(c)
        PROVE  RenewerSet'
    <3>1. StepOf(c) /\ calls[c].step = "coding" /\ calls'[c].step = "entered" /\ renewer' = renewer
      BY <2>8, EnterHoldStep DEF EnterHold
    <3> QED
      BY <1>n, <3>1, OthersStay DEF RenewerSet
  <2>9. ASSUME NEW c \in Calls, EnterBlock(c)
        PROVE  RenewerSet'
    BY <2>5, <2>9, EnterBlockStep DEF EnterBlock, Held
  <2>10. ASSUME NEW c \in Calls, Release(c)
         PROVE  RenewerSet'
    <3>1. StepOf(c) /\ calls[c].step = "leaving" /\ renewer' = renewer
      BY <2>10, ReleaseStep DEF Release
    <3>2. Held' \subseteq Held
      BY <2>10 DEF Release, Released, Held, ShapeInv, TypeOK
    <3> QED
      BY <2>5, <3>1, <3>2
  <2>11. ASSUME NEW c \in Calls,
                \/ StopArrives(c) \/ StopArrivesHolding(c) \/ StopArrivesLeaving(c)
                \/ StopArrivesEnding(c) \/ SwallowStop(c)
         PROVE  RenewerSet'
    <3>1. StepOf(c) /\ UNCHANGED <<held, renewer>>
      BY <2>11, StopStep
    <3>2. CASE StopArrivesHolding(c) /\ InHold(c)
      BY <3>2, StopInHoldLeaks DEF RenewerSet
    <3>3. CASE ~(StopArrivesHolding(c) /\ InHold(c))
      <4>1. calls[c].step \notin {"entered", "starting"}
        BY <2>11, <3>3 DEF StopArrives, StopArrivesHolding, StopArrivesLeaving, StopArrivesEnding, SwallowStop,
                           InHold
      <4> QED
        BY <2>5, <3>1, <4>1 DEF Held
    <3> QED
      BY <3>2, <3>3
  <2>12. ASSUME NEW c \in Calls, DropHolds(c) \/ RaiseStop(c)
         PROVE  RenewerSet'
    <3>1. UNCHANGED <<calls, renewer>>
      BY <2>12 DEF DropHolds, RaiseStop
    <3>2. Held' \subseteq Held
      BY <2>12 DEF DropHolds, RaiseStop, Held
    <3> QED
      BY <2>1, <3>1, <3>2
  <2>13. CASE Renewer
    <3>1. renewer' \in {"waiting", "renewing", "writing", "checking"} \/ (renewer' = "none" /\ Held = {} /\ held' = held)
      BY <2>13 DEF Renewer, WaitInterval, GoOnRenewing, EndRenewer, Forgotten, CopyHeld, EndRenewal
    <3> QED
      BY <3>1 DEF RenewerSet, Held
  <2>14. CASE UNCHANGED vars
    BY <2>1, <2>14 DEF vars, Held
  <2> QED
    BY <2>2, <2>3, <2>4, <2>6, <2>7, <2>8, <2>9, <2>10, <2>11, <2>12, <2>13, <2>14
    DEF Next, Code, Library, CodeStopped
<1> QED
  BY <1>l, <1>n

LEMMA RenewInvHolds == Spec => []RenewInv
<1>1. Init => TakingIsNew /\ RenewerSet
  <2> SUFFICES ASSUME Init PROVE TakingIsNew /\ RenewerSet
    OBVIOUS
  <2>1. Held = {} /\ renewer = "none"
    BY DEF Init, Held
  <2>2. \A c \in Calls : calls[c].step = "unborn" /\ calls[c].claim = None
    BY UnbornType DEF Init
  <2> QED
    BY <2>1, <2>2 DEF TakingIsNew, RenewerSet, InHold
<1>2. HoldInv /\ HoldInv' /\ TakingIsNew /\ RenewerSet /\ [Next]_vars => TakingIsNew' /\ RenewerSet'
  BY StepTakingIsNew, StepRenewerSet DEF RenewInv
<1>3. HoldInv /\ TakingIsNew /\ RenewerSet => RenewInv
  BY DEF RenewInv
<1> QED
  BY <1>1, <1>2, <1>3, HoldInvHolds, PTL DEF Spec

\* Whatever holds, releases and stops meet the renewer's end, what is held has a
\* renewer that runs, but after a claim was lost to a stop.
THEOREM HeldKeepsRenewer == Spec => []HeldHasRenewer
<1>1. RenewInv => HeldHasRenewer
  <2> SUFFICES ASSUME RenewInv, LockFree, Held # {}, late = {}
               PROVE  renewer \in {"checking", "waiting", "renewing", "writing"}
    BY DEF HeldHasRenewer
  <2>1. ~Leaked
    BY DEF Leaked, Lost
  <2>2. \A c \in Calls : calls[c].step \notin {"entered", "starting"}
    BY DEF LockFree, InHold
  <2> QED
    BY <2>1, <2>2 DEF RenewInv, HoldInv, StopInv, ShapeInv, TypeOK, RenewerSet
<1> QED
  BY <1>1, RenewInvHolds, PTL

=============================================================================
