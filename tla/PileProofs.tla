------------------------------ MODULE PileProofs ------------------------------
(***************************************************************************)
(* Theorems about PileEngine, for any number of items, threads, tries and  *)
(* processes, and any depth of blocks: its invariants, who writes what,    *)
(* how blocks leave their items, and that it implements Handouts.          *)
(***************************************************************************)
EXTENDS PileEngine, SequenceTheorems, TLAPS

(* Threads: the stack of blocks, and the exception on its way out           *)

RealClaims == Nat \ {NoClaim}

Exceptions == [kind : {"nothing", "ended", "error", "stop"}, claimId : Nat]

ThreadState ==
  [step : {"code", "reading", "givingUp", "unwinding"}, at : Nat,
   given : {<<>>} \cup (Items \X RealClaims), blocks : Seq(BlockType),
   raising : Exceptions, stopping : BOOLEAN]

\* A thread in each of its steps has what the step uses.
Shaped(thread) ==
  /\ thread.step = "givingUp" => thread.given \in Items \X RealClaims
  /\ thread.step = "unwinding" => thread.blocks # <<>>

\* Blocks that were left, or ended, but not changed into others.
Follow(new, old) ==
  /\ Len(new) <= Len(old)
  /\ \A n \in 1 .. Len(new) :
       /\ new[n].uid = old[n].uid /\ new[n].claimId = old[n].claimId
       /\ old[n].ended => new[n].ended

\* The block an exception ends is among `blocks` only if it has ended.
EndsEnded(thread) ==
  thread.step = "unwinding" /\ thread.raising.kind = "ended" =>
    \A n \in 1 .. Len(thread.blocks) :
      thread.blocks[n].claimId = thread.raising.claimId => thread.blocks[n].ended

LEMMA ExceptionTypes ==
  /\ Nothing \in Exceptions /\ Error \in Exceptions /\ Stop \in Exceptions
  /\ \A id \in Nat : Ended(id) \in Exceptions
  /\ Error.kind # "ended" /\ Stop.kind # "ended" /\ Nothing.kind # "ended"
  /\ \A id \in Nat : Ended(id).kind = "ended" /\ Ended(id).claimId = id
BY DEF Nothing, Error, Stop, Ended, Exceptions, NoClaim

LEMMA OutsideState ==
  /\ Outside \in ThreadState /\ Shaped(Outside) /\ EndsEnded(Outside)
  /\ Outside.at = 0 /\ Outside.blocks = <<>> /\ Outside.step = "code"
<1>1. <<>> \in Seq(BlockType)
  BY EmptySeq
<1> QED
  BY <1>1, ExceptionTypes DEF Outside, ThreadState, Shaped, EndsEnded

LEMMA ResumedState ==
  ASSUME NEW thread \in ThreadState
  PROVE  /\ Resumed(thread) \in ThreadState
         /\ Shaped(Resumed(thread)) /\ EndsEnded(Resumed(thread))
         /\ Resumed(thread).blocks = thread.blocks
         /\ Resumed(thread).at = 0
         /\ Resumed(thread).step = "code"
BY ExceptionTypes DEF Resumed, ThreadState, Shaped, EndsEnded

LEMMA RaisedState ==
  ASSUME NEW thread \in ThreadState, NEW exception \in Exceptions
  PROVE  /\ Raised(thread, exception) \in ThreadState
         /\ Shaped(Raised(thread, exception))
         /\ Raised(thread, exception).blocks = thread.blocks
         /\ Raised(thread, exception).at = 0
         /\ \/ Raised(thread, exception).step = "code"
            \/ /\ Raised(thread, exception).step = "unwinding"
               /\ Raised(thread, exception).raising = exception
<1>1. CASE thread.blocks = <<>>
  <2>1. Raised(thread, exception) = [Resumed(thread) EXCEPT !.stopping = FALSE]
    BY <1>1 DEF Raised
  <2> QED
    BY <2>1, ResumedState DEF ThreadState, Shaped
<1>2. CASE thread.blocks # <<>>
  <2>1. Raised(thread, exception) =
          [Resumed(thread) EXCEPT !.step = "unwinding", !.raising = exception]
    BY <1>2 DEF Raised
  <2> QED
    BY <1>2, <2>1, ResumedState DEF ThreadState, Shaped
<1> QED
  BY <1>1, <1>2

LEMMA FollowItself ==
  ASSUME NEW blocks \in Seq(BlockType)
  PROVE  Follow(blocks, blocks)
BY DEF Follow

LEMMA LeftState ==
  ASSUME NEW thread \in ThreadState, thread.blocks # <<>>
  PROVE  /\ Left(thread) \in ThreadState
         /\ Follow(Left(thread).blocks, thread.blocks)
         /\ Len(Left(thread).blocks) = Len(thread.blocks) - 1
         /\ \A n \in 1 .. Len(thread.blocks) - 1 : Left(thread).blocks[n] = thread.blocks[n]
         /\ Left(thread).step = thread.step /\ Left(thread).at = thread.at
         /\ Left(thread).raising = thread.raising /\ Left(thread).given = thread.given
         /\ Len(thread.blocks) \in Nat \ {0}
         /\ thread.blocks[Len(thread.blocks)] \in BlockType
<1> DEFINE old == thread.blocks
           new == SubSeq(old, 1, Len(old) - 1)
<1>1. old \in Seq(BlockType) /\ Len(old) \in Nat \ {0}
  BY EmptySeq DEF ThreadState
<1>2. \A n \in 1 .. Len(old) : old[n] \in BlockType
  BY <1>1, ElementOfSeq
<1> HIDE DEF old
<1>3. /\ new \in Seq(BlockType)
      /\ Len(new) = Len(old) - 1
      /\ \A n \in 1 .. Len(old) - 1 : new[n] = old[n]
  <2> DEFINE last == Len(old) - 1
  <2>1. 1 \in Int /\ last \in Int /\ \A i \in 1 .. last : old[i] \in BlockType
    BY <1>1, <1>2
  <2> HIDE DEF last
  <2>2. /\ SubSeq(old, 1, last) \in Seq(BlockType)
        /\ Len(SubSeq(old, 1, last)) = IF 1 <= last THEN last - 1 + 1 ELSE 0
        /\ \A i \in 1 .. last - 1 + 1 : SubSeq(old, 1, last)[i] = old[1 + i - 1]
    BY <2>1, SubSeqProperties
  <2>3. last \in Nat
    BY <1>1 DEF last
  <2>4. /\ Len(SubSeq(old, 1, last)) = last
        /\ \A n \in 1 .. last : SubSeq(old, 1, last)[n] = old[n]
    BY <2>2, <2>3
  <2> QED
    BY <2>2, <2>4 DEF last
<1>4. Left(thread) = [thread EXCEPT !.blocks = new]
  BY DEF Left, old
<1> HIDE DEF new
<1>5. Left(thread) \in ThreadState /\ Left(thread).blocks = new
  BY <1>3, <1>4 DEF ThreadState
<1>6. Follow(new, old)
  BY <1>1, <1>3 DEF Follow
<1>7. /\ Left(thread).step = thread.step /\ Left(thread).at = thread.at
      /\ Left(thread).raising = thread.raising /\ Left(thread).given = thread.given
  BY <1>4 DEF ThreadState
<1> QED
  BY <1>1, <1>2, <1>3, <1>5, <1>6, <1>7 DEF old

\* An exception goes on through the block around the one left.
LEMMA EndsEndedOnward ==
  ASSUME NEW thread \in ThreadState, NEW blocks \in Seq(BlockType), EndsEnded(thread),
         thread.step = "unwinding",
         Follow(blocks, thread.blocks), NEW new \in ThreadState, new.blocks = blocks,
         new.step = "code" \/ new.raising = thread.raising \/ new.raising.kind # "ended"
  PROVE  EndsEnded(new)
<1>1. Len(blocks) \in Nat /\ Len(thread.blocks) \in Nat
  BY LenProperties DEF ThreadState
<1> QED
  BY <1>1 DEF EndsEnded, Follow

-----------------------------------------------------------------------------
(* Items, and the tries spent on them                                      *)

SpentType == [times : Nat, latest : BOOLEAN]

\* A claim stands exactly while the item is running, for a try used.
Fits(doc) ==
  /\ (doc.claimId # NoClaim) <=> (doc.status = "running")
  /\ doc.status = "running" => doc.attempts >= 1

\* The tries handed to blocks are tries used; the latest claim of a running item is
\* one of them, or one more that was not handed out.
Counts(doc, count) ==
  /\ count.times <= MaxAttempts
  /\ count.latest => count.times >= 1
  /\ doc.status = "absent" => count.times = 0
  /\ doc.status \in Unfinished => count.times <= doc.attempts
  /\ doc.status = "running" /\ ~count.latest => count.times <= doc.attempts - 1

Good(doc, count) == doc \in Item /\ count \in SpentType /\ Fits(doc) /\ Counts(doc, count)

\* What a step may make of an item: nothing else happens to one that ended, and its
\* claim stays, goes, or makes way for one never made before.
MayBecome(i) ==
  \/ items'[i] = items[i] /\ spent'[i] = spent[i]
  \/ items'[i] = Deleted /\ spent'[i] = spent[i]
  \/ /\ items[i].status \notin Finished \cup {"purged"}
     /\ Good(items'[i], spent'[i])
     /\ items'[i].claimId \in {items[i].claimId, NoClaim} \/ items'[i].claimId \notin InUse

ItemsOK ==
  /\ items \in [Items -> Item]
  /\ spent \in [Items -> SpentType]
  /\ \A i \in Items : Fits(items[i]) /\ Counts(items[i], spent[i])

\* Every item of which this holds is as it should be after the step as well.
Harmless ==
  /\ DOMAIN items' = Items /\ items' = [i \in Items |-> items'[i]]
  /\ DOMAIN spent' = Items /\ spent' = [i \in Items |-> spent'[i]]
  /\ \A i \in Items : MayBecome(i)

LEMMA DeletedIsGood ==
  /\ Deleted \in Item /\ Absent \in Item
  /\ Fits(Deleted) /\ Fits(Absent)
  /\ \A count \in SpentType : count.times <= MaxAttempts /\ (count.latest => count.times >= 1)
       => Counts(Deleted, count)
BY DEF Deleted, Absent, Item, Fits, Counts, Unfinished, Finished, NoTime, NoClaim, SpentType

LEMMA HarmlessKeepsItems ==
  ASSUME ItemsOK, Harmless
  PROVE  ItemsOK'
<1>1. ASSUME NEW i \in Items
      PROVE  /\ items'[i] \in Item /\ spent'[i] \in SpentType
             /\ Fits(items'[i]) /\ Counts(items'[i], spent'[i])
  <2>1. /\ items[i] \in Item /\ spent[i] \in SpentType
        /\ Fits(items[i]) /\ Counts(items[i], spent[i])
    BY DEF ItemsOK
  <2>2. CASE items'[i] = Deleted /\ spent'[i] = spent[i]
    BY <2>1, <2>2, DeletedIsGood DEF Counts
  <2> QED
    BY <2>1, <2>2 DEF Harmless, MayBecome, Good
<1> QED
  BY <1>1 DEF ItemsOK, Harmless

\* One item is written, by someone who may.
LEMMA OneWrite ==
  ASSUME ItemsOK, NEW i \in Items, NEW doc, NEW count, Good(doc, count),
         items' = [items EXCEPT ![i] = doc],
         spent' = [spent EXCEPT ![i] = count],
         items[i].status \notin Finished \cup {"purged"},
         doc.claimId \in {items[i].claimId, NoClaim} \/ doc.claimId \notin InUse
  PROVE  Harmless
BY DEF ItemsOK, Harmless, MayBecome, Good

LEMMA OneWriteCounted ==
  ASSUME ItemsOK, NEW i \in Items, NEW doc, Good(doc, spent'[i]),
         items' = [items EXCEPT ![i] = doc],
         spent' = [spent EXCEPT ![i] = spent'[i]],
         items[i].status \notin Finished \cup {"purged"},
         doc.claimId \in {items[i].claimId, NoClaim} \/ doc.claimId \notin InUse
  PROVE  Harmless
<1> DEFINE count == spent'[i]
<1>1. Good(doc, count) /\ spent' = [spent EXCEPT ![i] = count]
  OBVIOUS
<1> HIDE DEF count
<1> QED
  BY <1>1, OneWrite

LEMMA NoWrite ==
  ASSUME ItemsOK, UNCHANGED <<items, spent>>
  PROVE  Harmless
BY DEF ItemsOK, Harmless, MayBecome

\* What each write makes of a document and its count.
LEMMA FinishIsGood ==
  ASSUME NEW doc, NEW count, Good(doc, count), NEW status \in Finished, now \in Nat
  PROVE  Good(Finish(doc, status), count) /\ Finish(doc, status).claimId = NoClaim
<1> DEFINE new == Finish(doc, status)
<1>1. doc \in Item /\ count \in SpentType /\ Counts(doc, count)
  BY DEF Good
<1>2. /\ new \in Item /\ new.claimId = NoClaim /\ new.status = status
  BY <1>1 DEF Finish, LetGo, Item, NoClaim
<1>3. status \notin {"running", "pending", "absent"}
  BY DEF Finished
<1> HIDE DEF new
<1>4. Fits(new)
  BY <1>2, <1>3 DEF Fits
<1>5. Counts(new, count)
  BY <1>1, <1>2, <1>3 DEF Counts, Unfinished
<1> QED
  BY <1>1, <1>2, <1>4, <1>5 DEF Good, new

LEMMA CanceledIsGood ==
  ASSUME NEW doc, NEW count, Good(doc, count), now \in Nat
  PROVE  Good(Canceled(doc, now), count) /\ Canceled(doc, now).claimId = NoClaim
<1>1. Canceled(doc, now) = Finish(doc, "canceled")
  BY DEF Canceled, Finish, LetGo, Good, Item
<1> QED
  BY <1>1, FinishIsGood DEF Finished

LEMMA RenewedIsGood ==
  ASSUME NEW doc, NEW count, Good(doc, count), NEW at \in Nat
  PROVE  /\ Good(Renewed(doc, at, LeaseTime), count)
         /\ Renewed(doc, at, LeaseTime).claimId = doc.claimId
<1> DEFINE new == Renewed(doc, at, LeaseTime)
<1>1. doc \in Item /\ count \in SpentType /\ Counts(doc, count) /\ Fits(doc)
  BY DEF Good
<1>2. at + LeaseTime \in Nat
  BY TimesAssumption
<1>3. /\ new \in Item /\ new.claimId = doc.claimId /\ new.status = doc.status
      /\ new.attempts = doc.attempts
  BY <1>1, <1>2 DEF Renewed, Item
<1> HIDE DEF new
<1>4. Fits(new) /\ Counts(new, count)
  BY <1>1, <1>3 DEF Fits, Counts
<1> QED
  BY <1>1, <1>3, <1>4 DEF Good, new

LEMMA ClaimedIsGood ==
  ASSUME NEW doc, NEW count, Good(doc, count), doc.status \in Unfinished,
         NEW id \in RealClaims, NEW at \in Nat
  PROVE  /\ ClaimedItem(doc, id, at).claimId = id
         /\ HasTry(doc) =>
              \A more \in SpentType :
                more.times = count.times + 1 /\ more.latest => Good(ClaimedItem(doc, id, at), more)
         /\ \A same \in SpentType :
              same.times = count.times /\ ~same.latest => Good(ClaimedItem(doc, id, at), same)
<1> DEFINE new == ClaimedItem(doc, id, at)
<1>1. doc \in Item /\ count \in SpentType /\ Counts(doc, count) /\ Fits(doc)
  BY DEF Good
<1>2. at + LeaseTime \in Nat /\ doc.attempts \in Nat /\ doc.attempts + 1 \in Nat
  BY <1>1, TimesAssumption DEF Item
<1>3. /\ new \in Item /\ new.claimId = id /\ new.status = "running"
      /\ new.attempts = doc.attempts + 1
  BY <1>1, <1>2 DEF ClaimedItem, Claimed, Item, RealClaims, Unfinished
<1> HIDE DEF new
<1>4. Fits(new)
  BY <1>2, <1>3 DEF Fits, RealClaims
<1>5. count.times \in Nat /\ count.times <= doc.attempts /\ count.times <= MaxAttempts
  BY <1>1 DEF Counts, SpentType
<1>6. ASSUME HasTry(doc), NEW more \in SpentType, more.times = count.times + 1, more.latest
      PROVE  Counts(new, more)
  BY <1>2, <1>3, <1>5, <1>6, TriesAssumption DEF Counts, HasTry, Unfinished
<1>7. ASSUME NEW same \in SpentType, same.times = count.times, ~same.latest
      PROVE  Counts(new, same)
  BY <1>2, <1>3, <1>5, <1>7 DEF Counts, Unfinished
<1> QED
  BY <1>3, <1>4, <1>6, <1>7 DEF Good, new

GivenBackCount(count) ==
  [times |-> IF count.latest THEN count.times - 1 ELSE count.times, latest |-> FALSE]

LEMMA HandBackIsGood ==
  ASSUME NEW doc, NEW count, Good(doc, count), doc.status = "running", now \in Nat,
         NEW delay \in Delays \cup {NoDelay}
  PROVE  /\ HandBack(doc, TRUE, delay).claimId = NoClaim
         /\ HandBack(doc, FALSE, delay).claimId = NoClaim
         /\ Good(HandBack(doc, TRUE, delay), GivenBackCount(count))
         /\ Good(HandBack(doc, FALSE, delay), count)
<1>1. doc \in Item /\ count \in SpentType /\ Counts(doc, count) /\ Fits(doc)
  BY DEF Good
<1> DEFINE due == IF delay = NoDelay THEN doc.createdAt ELSE now + delay
<1>2. due \in Nat /\ doc.attempts \in Nat /\ doc.attempts >= 1
  BY <1>1, TimesAssumption DEF Item, Fits
<1> HIDE DEF due
<1>3. ASSUME NEW returnTry \in BOOLEAN, NEW new, new = HandBack(doc, returnTry, delay)
      PROVE  /\ new \in Item /\ new.claimId = NoClaim /\ new.status = "pending"
             /\ new.attempts = IF returnTry THEN doc.attempts - 1 ELSE doc.attempts
  <2>1. new = [LetGo(doc) EXCEPT !.status = "pending", !.leaseUntil = due,
                                 !.attempts = IF returnTry THEN doc.attempts - 1 ELSE doc.attempts]
    BY <1>1, <1>3 DEF HandBack, LetGo, Item, due
  <2>2. LetGo(doc) \in Item /\ LetGo(doc).claimId = NoClaim
    BY <1>1 DEF LetGo, Item, NoClaim
  <2>3. (IF returnTry THEN doc.attempts - 1 ELSE doc.attempts) \in Nat
    BY <1>2
  <2> QED
    BY <1>2, <2>1, <2>2, <2>3 DEF Item, Unfinished
<1>4. ASSUME NEW new, new.status = "pending", new.claimId = NoClaim PROVE Fits(new)
  BY <1>4 DEF Fits
<1>5. /\ count.times \in Nat /\ count.times <= doc.attempts /\ count.times <= MaxAttempts
      /\ count.latest \in BOOLEAN
      /\ count.latest => count.times >= 1
      /\ ~count.latest => count.times <= doc.attempts - 1
  BY <1>1 DEF Counts, SpentType, Unfinished
<1>6. ASSUME NEW new, new.status = "pending", new.attempts = doc.attempts - 1
      PROVE  Counts(new, GivenBackCount(count))
  BY <1>2, <1>5, <1>6, TriesAssumption DEF Counts, GivenBackCount, Unfinished
<1>7. ASSUME NEW new, new.status = "pending", new.attempts = doc.attempts
      PROVE  Counts(new, count)
  BY <1>2, <1>5, <1>7 DEF Counts, Unfinished
<1>8. GivenBackCount(count) \in SpentType
  BY <1>5 DEF GivenBackCount, SpentType
<1>9. /\ HandBack(doc, TRUE, delay) \in Item
      /\ HandBack(doc, TRUE, delay).claimId = NoClaim
      /\ HandBack(doc, TRUE, delay).status = "pending"
      /\ HandBack(doc, TRUE, delay).attempts = doc.attempts - 1
  BY <1>3
<1>10. /\ HandBack(doc, FALSE, delay) \in Item
       /\ HandBack(doc, FALSE, delay).claimId = NoClaim
       /\ HandBack(doc, FALSE, delay).status = "pending"
       /\ HandBack(doc, FALSE, delay).attempts = doc.attempts
  BY <1>3
<1> QED
  BY <1>1, <1>4, <1>6, <1>7, <1>8, <1>9, <1>10 DEF Good

LEMMA NewItemIsGood ==
  ASSUME NEW count \in SpentType, count.times = 0, ~count.latest, now \in Nat
  PROVE  Good(NewItem, count) /\ NewItem.claimId = NoClaim
<1> DEFINE new == NewItem
<1>2. /\ new \in Item /\ new.claimId = NoClaim /\ new.status = "pending"
      /\ new.attempts = 0
  <2>1. Absent \in Item /\ Absent.claimId = NoClaim /\ Absent.attempts = 0
    BY DeletedIsGood DEF Absent
  <2> QED
    BY <2>1 DEF NewItem, Item, Unfinished
<1> HIDE DEF new
<1>3. Fits(new)
  BY <1>2 DEF Fits
<1>4. Counts(new, count)
  BY <1>2, TriesAssumption DEF Counts
<1> QED
  BY <1>2, <1>3, <1>4 DEF Good, new

-----------------------------------------------------------------------------
(* What a step of one thread does                                          *)

ThreadsOK ==
  /\ threads \in [Threads -> ThreadState]
  /\ \A w \in Threads : Shaped(threads[w]) /\ threads[w].at <= now

RenewalsOK == renewal \in [Processes -> [claims : SUBSET RealClaims, at : Nat]]

RestOK == now \in Nat /\ up \subseteq Processes

Inv == ItemsOK /\ ThreadsOK /\ RenewalsOK /\ RestOK

Distinct(thread) ==
  \A m, n \in 1 .. Len(thread.blocks) :
    thread.blocks[m].claimId = thread.blocks[n].claimId => m = n

\* Thread w took a step, to a state as it should be.
StepOf(w) ==
  /\ threads' = [threads EXCEPT ![w] = threads'[w]]
  /\ threads'[w] \in ThreadState /\ Shaped(threads'[w]) /\ threads'[w].at <= now
  /\ UNCHANGED <<now, renewal, up>>

EndedUnheld(w) ==
  \A n \in 1 .. Depth(w) :
    LET b == threads[w].blocks[n] IN b.ended => items[b.uid].claimId # b.claimId

\* The innermost block is left with its item settled.
LeavesSettled(w) ==
  EndedUnheld(w) /\ EndsEnded(threads[w]) /\ now >= FaultsUntil /\ threads[w].raising # Stop =>
    items'[Innermost(w).uid].claimId # Innermost(w).claimId

\* It entered no block, a block it ended holds its item no more, and neither does one
\* it left.
Keeps(w) ==
  /\ Follow(threads'[w].blocks, threads[w].blocks)
  /\ \A n \in 1 .. Len(threads'[w].blocks) :
       LET b == threads[w].blocks[n]
       IN  threads'[w].blocks[n].ended /\ ~b.ended => items'[b.uid].claimId # b.claimId
  /\ Distinct(threads[w]) /\ EndsEnded(threads[w]) => EndsEnded(threads'[w])
  /\ Len(threads'[w].blocks) < Len(threads[w].blocks) => LeavesSettled(w)

LEMMA StepKeepsThreads ==
  ASSUME ThreadsOK, NEW w \in Threads, StepOf(w)
  PROVE  ThreadsOK'
BY DEF ThreadsOK, StepOf

LEMMA StepTo ==
  ASSUME ThreadsOK, NEW w \in Threads, NEW new \in ThreadState, Shaped(new), new.at <= now,
         Goto(w, new), UNCHANGED <<now, renewal, up>>
  PROVE  StepOf(w) /\ threads'[w] = new
BY DEF ThreadsOK, Goto, StepOf

\* A step that leaves the blocks as they are.
LEMMA SameBlocksKeep ==
  ASSUME ThreadsOK, NEW w \in Threads, threads'[w].blocks = threads[w].blocks,
         \/ threads'[w].step # "unwinding"
         \/ threads'[w].raising.kind # "ended"
         \/ threads'[w].raising = threads[w].raising /\ threads'[w].step = threads[w].step
  PROVE  Keeps(w)
<1>1. threads[w].blocks \in Seq(BlockType)
  BY DEF ThreadsOK, ThreadState
<1> QED
  BY <1>1, FollowItself DEF Keeps, EndsEnded

LEMMA BlocksAre ==
  ASSUME ThreadsOK, NEW w \in Threads, NEW n \in 1 .. Depth(w)
  PROVE  /\ threads[w].blocks[n] \in BlockType
         /\ threads[w].blocks[n].uid \in Items
         /\ threads[w].blocks[n].claimId \in RealClaims
<1>1. threads[w].blocks \in Seq(BlockType) /\ n \in 1 .. Len(threads[w].blocks)
  BY DEF ThreadsOK, ThreadState, Depth
<1>2. threads[w].blocks[n] \in BlockType
  BY <1>1, ElementOfSeq
<1> QED
  BY <1>2 DEF BlockType, RealClaims, NoClaim

LEMMA NewClaimIsNew ==
  ASSUME ClaimIds \ InUse # {}
  PROVE  NewClaim \in RealClaims /\ NewClaim \notin InUse
BY ClaimsAssumption DEF NewClaim, RealClaims

LEMMA ItemsAreGood ==
  ASSUME ItemsOK, NEW i \in Items
  PROVE  Good(items[i], spent[i])
BY DEF ItemsOK, Good

LEMMA MatchedRuns ==
  ASSUME ItemsOK, NEW i \in Items, NEW id \in RealClaims, Matches(i, id)
  PROVE  items[i].status = "running" /\ items[i].status \notin Finished \cup {"purged"}
BY DEF ItemsOK, Matches, HeldBy, Fits, RealClaims, Finished

LEMMA OneWriteUnspent ==
  ASSUME ItemsOK, NEW i \in Items, NEW doc, Good(doc, spent[i]),
         items' = [items EXCEPT ![i] = doc],
         spent' = spent,
         items[i].status \notin Finished \cup {"purged"},
         doc.claimId \in {items[i].claimId, NoClaim} \/ doc.claimId \notin InUse
  PROVE  Harmless
<1>1. spent = [spent EXCEPT ![i] = spent[i]]
  BY DEF ItemsOK
<1> QED
  BY <1>1, OneWrite

\* What ends a claim's item: an outcome, or handing it back.
LEMMA FinishHarmless ==
  ASSUME ItemsOK, now \in Nat, NEW i \in Items, NEW status \in Finished,
         items[i].status \in Unfinished,
         items' = [items EXCEPT ![i] = Finish(items[i], status)],
         spent' = spent
  PROVE  Harmless /\ items'[i].claimId = NoClaim
<1>1. /\ Good(Finish(items[i], status), spent[i])
      /\ Finish(items[i], status).claimId = NoClaim
  BY ItemsAreGood, FinishIsGood
<1>2. items[i].status \notin Finished \cup {"purged"}
  BY DEF Unfinished, Finished
<1> QED
  BY <1>1, <1>2, OneWriteUnspent DEF ItemsOK

LEMMA GiveBackHarmless ==
  ASSUME ItemsOK, now \in Nat, NEW i \in Items, NEW delay \in Delays \cup {NoDelay},
         items[i].status = "running",
         items' = [items EXCEPT ![i] = HandBack(items[i], TRUE, delay)],
         spent' = GivenBack(i)
  PROVE  Harmless /\ items'[i].claimId = NoClaim
<1>1. /\ Good(HandBack(items[i], TRUE, delay), GivenBackCount(spent[i]))
      /\ HandBack(items[i], TRUE, delay).claimId = NoClaim
  BY ItemsAreGood, HandBackIsGood
<1>2. items[i].status \notin Finished \cup {"purged"}
  BY DEF Finished
<1>3. spent' = [spent EXCEPT ![i] = GivenBackCount(spent[i])]
  BY DEF GivenBack, GivenBackCount
<1> QED
  BY <1>1, <1>2, <1>3, OneWrite DEF ItemsOK

LEMMA PassBackHarmless ==
  ASSUME ItemsOK, now \in Nat, NEW i \in Items,
         items[i].status = "running",
         items' = [items EXCEPT ![i] = HandBack(items[i], FALSE, NoDelay)],
         spent' = spent
  PROVE  Harmless /\ items'[i].claimId = NoClaim
<1>1. /\ Good(HandBack(items[i], FALSE, NoDelay), spent[i])
      /\ HandBack(items[i], FALSE, NoDelay).claimId = NoClaim
  BY ItemsAreGood, HandBackIsGood
<1>2. items[i].status \notin Finished \cup {"purged"}
  BY DEF Finished
<1> QED
  BY <1>1, <1>2, OneWriteUnspent DEF ItemsOK

LEMMA RenewHarmless ==
  ASSUME ItemsOK, now \in Nat, NEW i \in Items,
         items[i].status = "running",
         items' = [items EXCEPT ![i] = Renewed(items[i], now, LeaseTime)],
         spent' = spent
  PROVE  Harmless
<1>1. /\ Good(Renewed(items[i], now, LeaseTime), spent[i])
      /\ Renewed(items[i], now, LeaseTime).claimId = items[i].claimId
  BY ItemsAreGood, RenewedIsGood
<1>2. items[i].status \notin Finished \cup {"purged"}
  BY DEF Finished
<1> QED
  BY <1>1, <1>2, OneWriteUnspent

-----------------------------------------------------------------------------
(* Entering a block                                                        *)

LEMMA EnterBlockStep ==
  ASSUME Inv, NEW w \in Threads, EnterBlock(w)
  PROVE  StepOf(w) /\ Keeps(w) /\ Harmless
<1>t. /\ ThreadsOK /\ ItemsOK /\ now \in Nat
      /\ threads[w] \in ThreadState /\ Shaped(threads[w])
  BY DEF Inv, RestOK, ThreadsOK
<1> DEFINE new == [threads[w] EXCEPT !.step = "reading", !.at = now]
<1>1. /\ new \in ThreadState /\ new.step = "reading" /\ new.at = now
      /\ new.blocks = threads[w].blocks
  BY <1>t DEF ThreadState
<1>2. Goto(w, new) /\ UNCHANGED <<now, items, renewal, up, spent>>
  BY DEF EnterBlock
<1> HIDE DEF new
<1>3. Shaped(new) /\ new.at <= now
  BY <1>t, <1>1 DEF Shaped
<1>4. StepOf(w) /\ threads'[w] = new
  BY <1>t, <1>1, <1>2, <1>3, StepTo
<1> QED
  BY <1>t, <1>1, <1>2, <1>4, SameBlocksKeep, NoWrite

\* What claiming makes of the count of an item, handed out or not.
LEMMA CountsUp ==
  ASSUME NEW i \in Items, NEW old \in [Items -> SpentType], NEW new,
         new = [old EXCEPT ![i].times = old[i].times + 1, ![i].latest = TRUE]
  PROVE  /\ new = [old EXCEPT ![i] = new[i]]
         /\ new[i] \in SpentType /\ new[i].times = old[i].times + 1 /\ new[i].latest
<1> DEFINE count == [old[i] EXCEPT !.times = old[i].times + 1]
           mid == [old EXCEPT ![i] = count]
<1>1. old[i] \in SpentType
  OBVIOUS
<1>2. count \in SpentType /\ count.times = old[i].times + 1
  BY <1>1 DEF SpentType
<1> HIDE DEF count
<1>3. mid \in [Items -> SpentType] /\ mid[i] = count
  BY <1>2
<1>4. new = [mid EXCEPT ![i].latest = TRUE]
  BY DEF count
<1>5. /\ new[i] = [count EXCEPT !.latest = TRUE]
      /\ new = [mid EXCEPT ![i] = new[i]]
  BY <1>3, <1>4
<1>6. new[i] \in SpentType /\ new[i].times = old[i].times + 1 /\ new[i].latest
  BY <1>2, <1>5 DEF SpentType
<1>7. new = [old EXCEPT ![i] = new[i]]
  BY <1>5
<1> QED
  BY <1>6, <1>7

LEMMA NotCounted ==
  ASSUME NEW i \in Items, NEW old \in [Items -> SpentType], NEW new,
         new = [old EXCEPT ![i].latest = FALSE]
  PROVE  /\ new = [old EXCEPT ![i] = new[i]]
         /\ new[i] \in SpentType /\ new[i].times = old[i].times /\ ~new[i].latest
BY DEF SpentType

\* A claim is made of an item whose lease ran out.
LEMMA TakeItemFacts ==
  ASSUME Inv, NEW w \in Threads, NEW i \in Items, TakeItem(w, i)
  PROVE  /\ Lapsed(items[i], threads[w].at)
         /\ items[i].status \in Unfinished /\ items[i].status \notin Finished \cup {"purged"}
         /\ NewClaim \in RealClaims /\ NewClaim \notin InUse
         /\ items' = [items EXCEPT ![i] = ClaimedItem(items[i], NewClaim, threads[w].at)]
         /\ ClaimedItem(items[i], NewClaim, threads[w].at).claimId = NewClaim
         /\ HasTry(items[i]) =>
              \A more \in SpentType :
                more.times = spent[i].times + 1 /\ more.latest =>
                  Good(ClaimedItem(items[i], NewClaim, threads[w].at), more)
         /\ \A same \in SpentType :
              same.times = spent[i].times /\ ~same.latest =>
                Good(ClaimedItem(items[i], NewClaim, threads[w].at), same)
         /\ threads[w].step = "reading"
<1>1. /\ Lapsed(items[i], threads[w].at)
      /\ items[i].status \in Unfinished
      /\ items' = [items EXCEPT ![i] = ClaimedItem(items[i], NewClaim, threads[w].at)]
      /\ threads[w].step = "reading"
  BY DEF TakeItem, NextDue, Claimable, At
<1>2. items[i].status \notin Finished \cup {"purged"}
  BY <1>1 DEF Unfinished, Finished
<1>3. NewClaim \in RealClaims /\ NewClaim \notin InUse
  BY NewClaimIsNew DEF TakeItem
<1>4. threads[w].at \in Nat /\ Good(items[i], spent[i])
  BY ItemsAreGood DEF Inv, ThreadsOK, ThreadState
<1> QED
  BY <1>1, <1>2, <1>3, <1>4, ClaimedIsGood

LEMMA ClaimStep ==
  ASSUME Inv, NEW w \in Threads, NEW i \in Items, Claim(w, i)
  PROVE  /\ StepOf(w) /\ Harmless
         /\ threads'[w].blocks = Append(threads[w].blocks, Block(i, NewClaim))
         /\ threads'[w].step = "code"
<1>t. /\ ThreadsOK /\ ItemsOK /\ now \in Nat
      /\ threads[w] \in ThreadState
      /\ threads[w].blocks \in Seq(BlockType)
  BY DEF Inv, RestOK, ThreadsOK, ThreadState
<1>f. /\ items[i].status \notin Finished \cup {"purged"}
      /\ NewClaim \in RealClaims /\ NewClaim \notin InUse
      /\ items' = [items EXCEPT ![i] = ClaimedItem(items[i], NewClaim, threads[w].at)]
      /\ ClaimedItem(items[i], NewClaim, threads[w].at).claimId = NewClaim
      /\ \A more \in SpentType :
           more.times = spent[i].times + 1 /\ more.latest =>
             Good(ClaimedItem(items[i], NewClaim, threads[w].at), more)
  BY TakeItemFacts DEF Claim
<1>1. Harmless
  <2>1. /\ spent' = [spent EXCEPT ![i] = spent'[i]]
        /\ spent'[i] \in SpentType /\ spent'[i].times = spent[i].times + 1 /\ spent'[i].latest
    <3>1. spent' = [spent EXCEPT ![i].times = spent[i].times + 1, ![i].latest = TRUE]
      BY DEF Claim
    <3>2. spent \in [Items -> SpentType]
      BY <1>t DEF ItemsOK
    <3> QED
      BY <3>1, <3>2, CountsUp
  <2>2. Good(ClaimedItem(items[i], NewClaim, threads[w].at), spent'[i])
    BY <1>f, <2>1
  <2> DEFINE doc == ClaimedItem(items[i], NewClaim, threads[w].at)
  <2>3. /\ items' = [items EXCEPT ![i] = doc] /\ doc.claimId \notin InUse
        /\ Good(doc, spent'[i])
    BY <1>f, <2>2
  <2> HIDE DEF doc
  <2> QED
    BY <1>t, <1>f, <2>1, <2>3, OneWriteCounted
<1> DEFINE old == Resumed(threads[w])
           blocks == Append(threads[w].blocks, Block(i, NewClaim))
           new == [old EXCEPT !.blocks = blocks]
<1>2. /\ old \in ThreadState /\ old.step = "code" /\ old.at = 0
      /\ old.blocks = threads[w].blocks
  BY <1>t, ResumedState
<1>3. Goto(w, new) /\ UNCHANGED <<now, renewal, up>>
  BY <1>2 DEF Claim, TakeItem
<1>4. blocks \in Seq(BlockType)
  <2>1. Block(i, NewClaim) \in BlockType
    BY <1>f DEF Block, BlockType, RealClaims, NoClaim
  <2> QED
    BY <1>t, <2>1
<1> HIDE DEF blocks, old
<1>5. new \in ThreadState /\ new.step = "code" /\ new.at = 0 /\ new.blocks = blocks
  BY <1>2, <1>4 DEF ThreadState
<1> HIDE DEF new
<1>6. Shaped(new) /\ new.at <= now
  BY <1>t, <1>5 DEF Shaped
<1>7. StepOf(w) /\ threads'[w] = new
  BY <1>t, <1>3, <1>5, <1>6, StepTo
<1> QED
  BY <1>1, <1>5, <1>7 DEF blocks

LEMMA ClaimLostHarmless ==
  ASSUME Inv, NEW w \in Threads, NEW i \in Items, TakeItem(w, i),
         spent' = [spent EXCEPT ![i].latest = FALSE]
  PROVE  Harmless
<1>1. /\ spent' = [spent EXCEPT ![i] = spent'[i]]
      /\ spent'[i] \in SpentType /\ spent'[i].times = spent[i].times /\ ~spent'[i].latest
  BY NotCounted DEF Inv, ItemsOK
<1>2. Good(ClaimedItem(items[i], NewClaim, threads[w].at), spent'[i])
  BY <1>1, TakeItemFacts
<1> DEFINE doc == ClaimedItem(items[i], NewClaim, threads[w].at)
<1>3. /\ items' = [items EXCEPT ![i] = doc] /\ doc.claimId \notin InUse
      /\ Good(doc, spent'[i]) /\ items[i].status \notin Finished \cup {"purged"}
  BY <1>2, TakeItemFacts
<1> HIDE DEF doc
<1>4. ItemsOK
  BY DEF Inv
<1> QED
  BY <1>1, <1>3, <1>4, OneWriteCounted

LEMMA ClaimSpentStep ==
  ASSUME Inv, NEW w \in Threads, NEW i \in Items, ClaimSpent(w, i)
  PROVE  StepOf(w) /\ Keeps(w) /\ Harmless
<1>t. /\ ThreadsOK /\ now \in Nat
      /\ threads[w] \in ThreadState /\ threads[w].at <= now
  BY DEF Inv, RestOK, ThreadsOK
<1>1. Harmless /\ NewClaim \in RealClaims
  BY ClaimLostHarmless, TakeItemFacts DEF ClaimSpent
<1> DEFINE new == [threads[w] EXCEPT !.step = "givingUp", !.given = <<i, NewClaim>>]
<1>2. Goto(w, new) /\ UNCHANGED <<now, renewal, up>>
  BY DEF ClaimSpent, TakeItem
<1>3. /\ new \in ThreadState /\ new.step = "givingUp" /\ new.given = <<i, NewClaim>>
      /\ new.at = threads[w].at /\ new.blocks = threads[w].blocks
  BY <1>t, <1>1 DEF ThreadState
<1> HIDE DEF new
<1>4. Shaped(new) /\ new.at <= now
  BY <1>t, <1>1, <1>3 DEF Shaped
<1>5. StepOf(w) /\ threads'[w] = new
  BY <1>t, <1>2, <1>3, <1>4, StepTo
<1>6. threads'[w].step # "unwinding"
  BY <1>3, <1>5
<1> QED
  BY <1>t, <1>1, <1>3, <1>5, <1>6, SameBlocksKeep

LEMMA GiveUpStep ==
  ASSUME Inv, NEW w \in Threads, GiveUp(w)
  PROVE  StepOf(w) /\ Keeps(w) /\ Harmless
<1>t. /\ ThreadsOK /\ ItemsOK /\ now \in Nat
      /\ threads[w] \in ThreadState /\ Shaped(threads[w])
  BY DEF Inv, RestOK, ThreadsOK
<1> DEFINE i == threads[w].given[1]
           id == threads[w].given[2]
           new == [threads[w] EXCEPT !.step = "reading", !.at = now, !.given = <<>>]
<1>1. i \in Items /\ id \in RealClaims
  BY <1>t DEF GiveUp, At, Shaped
<1>2. /\ items' = IF Matches(i, id) THEN [items EXCEPT ![i] = Finish(items[i], "failed")] ELSE items
      /\ Goto(w, new) /\ UNCHANGED <<now, renewal, up, spent>>
  BY DEF GiveUp
<1>3. Harmless
  <2> HIDE DEF i, id
  <2>1. CASE Matches(i, id)
    <3>1. items[i].status \in Unfinished
      BY <1>t, <1>1, <2>1, MatchedRuns DEF Unfinished
    <3> QED
      BY <1>t, <1>1, <1>2, <2>1, <3>1, FinishHarmless DEF Finished
  <2>2. CASE ~Matches(i, id)
    BY <1>t, <1>2, <2>2, NoWrite
  <2> QED
    BY <2>1, <2>2
<1>4. /\ new \in ThreadState /\ new.step = "reading" /\ new.at = now
      /\ new.blocks = threads[w].blocks
  BY <1>t DEF ThreadState
<1> HIDE DEF new
<1>5. Shaped(new) /\ new.at <= now
  BY <1>t, <1>4 DEF Shaped
<1>6. StepOf(w) /\ threads'[w] = new
  BY <1>t, <1>2, <1>4, <1>5, StepTo
<1>7. threads'[w].step # "unwinding"
  BY <1>4, <1>6
<1> QED
  BY <1>t, <1>3, <1>4, <1>6, <1>7, SameBlocksKeep

\* A thread that is back in user code, or on its way out with an exception that ends
\* no block, with its blocks as they were.
LEMMA ResumeStep ==
  ASSUME Inv, NEW w \in Threads, Goto(w, Resumed(threads[w])), UNCHANGED <<now, renewal, up>>
  PROVE  StepOf(w) /\ Keeps(w)
<1>t. ThreadsOK /\ now \in Nat /\ threads[w] \in ThreadState
  BY DEF Inv, RestOK, ThreadsOK
<1> DEFINE new == Resumed(threads[w])
<1>1. /\ new \in ThreadState /\ Shaped(new) /\ new.at <= now
      /\ new.blocks = threads[w].blocks /\ new.step = "code"
  BY <1>t, ResumedState
<1>2. StepOf(w) /\ threads'[w] = new
  BY <1>t, <1>1, StepTo
<1> HIDE DEF new
<1>3. threads'[w].step # "unwinding"
  BY <1>1, <1>2
<1> QED
  BY <1>t, <1>1, <1>2, <1>3, SameBlocksKeep

LEMMA RaiseStep ==
  ASSUME Inv, NEW w \in Threads, NEW thread \in ThreadState,
         thread.blocks = threads[w].blocks,
         NEW exception \in Exceptions, exception.kind # "ended",
         Goto(w, Raised(thread, exception)), UNCHANGED <<now, renewal, up>>
  PROVE  StepOf(w) /\ Keeps(w)
<1>t. ThreadsOK /\ now \in Nat
  BY DEF Inv, RestOK
<1> DEFINE new == Raised(thread, exception)
<1>1. /\ new \in ThreadState /\ Shaped(new) /\ new.at <= now
      /\ new.blocks = threads[w].blocks
      /\ new.step = "code" \/ new.raising = exception
  BY <1>t, RaisedState
<1>2. StepOf(w) /\ threads'[w] = new
  BY <1>t, <1>1, StepTo
<1> HIDE DEF new
<1>3. threads'[w].step # "unwinding" \/ threads'[w].raising.kind # "ended"
  BY <1>1, <1>2
<1> QED
  BY <1>t, <1>1, <1>2, <1>3, SameBlocksKeep

-----------------------------------------------------------------------------
(* Ending a block early, and leaving one                                   *)

WithEnded(blocks, n) == [blocks EXCEPT ![n] = [blocks[n] EXCEPT !.ended = TRUE]]

LEMMA EndedEarlyBlocks ==
  ASSUME NEW blocks \in Seq(BlockType), NEW n \in 1 .. Len(blocks)
  PROVE  LET new == WithEnded(blocks, n)
         IN  /\ new \in Seq(BlockType) /\ Len(new) = Len(blocks) /\ Follow(new, blocks)
             /\ new[n].ended
             /\ \A m \in 1 .. Len(blocks) : m # n => new[m] = blocks[m]
<1> DEFINE new == WithEnded(blocks, n)
           b == [blocks[n] EXCEPT !.ended = TRUE]
<1>1. blocks[n] \in BlockType
  BY ElementOfSeq
<1>2. b \in BlockType /\ b.ended /\ b.uid = blocks[n].uid /\ b.claimId = blocks[n].claimId
  BY <1>1 DEF BlockType
<1>3. new = [blocks EXCEPT ![n] = b]
  BY DEF WithEnded
<1> HIDE DEF b, new
<1>4. /\ new \in Seq(BlockType) /\ Len(new) = Len(blocks)
      /\ \A m \in 1 .. Len(blocks) : new[m] = IF m = n THEN b ELSE blocks[m]
  <2>1. /\ [blocks EXCEPT ![n] = b] \in Seq(BlockType)
        /\ Len([blocks EXCEPT ![n] = b]) = Len(blocks)
        /\ \A m \in 1 .. Len(blocks) :
             [blocks EXCEPT ![n] = b][m] = IF m = n THEN b ELSE blocks[m]
    BY <1>2, ExceptSeq
  <2> QED
    BY <1>3, <2>1
<1>5. Len(blocks) \in Nat
  BY LenProperties
<1> QED
  BY <1>2, <1>4, <1>5 DEF Follow, new

LEMMA EndedEarlyStep ==
  ASSUME Inv, NEW w \in Threads, NEW n \in 1 .. Depth(w),
         Goto(w, EndedEarly(w, n)), UNCHANGED <<now, renewal, up>>,
         items'[threads[w].blocks[n].uid].claimId # threads[w].blocks[n].claimId
  PROVE  StepOf(w) /\ Keeps(w)
<1>t. /\ ThreadsOK /\ now \in Nat /\ threads[w] \in ThreadState
      /\ threads[w].blocks \in Seq(BlockType) /\ n \in 1 .. Len(threads[w].blocks)
      /\ Len(threads[w].blocks) \in Nat
  BY LenProperties DEF Inv, RestOK, ThreadsOK, ThreadState, Depth
<1> DEFINE id == threads[w].blocks[n].claimId
           blocks == WithEnded(threads[w].blocks, n)
           thread == [threads[w] EXCEPT !.blocks = blocks]
           new == Raised(thread, Ended(id))
<1>1. Ended(id) \in Exceptions /\ Ended(id).kind = "ended" /\ Ended(id).claimId = id
  BY BlocksAre, <1>t, ExceptionTypes DEF RealClaims
<1>2. /\ blocks \in Seq(BlockType) /\ Len(blocks) = Len(threads[w].blocks)
      /\ Follow(blocks, threads[w].blocks) /\ blocks[n].ended
      /\ \A m \in 1 .. Len(threads[w].blocks) : m # n => blocks[m] = threads[w].blocks[m]
  BY <1>t, EndedEarlyBlocks
<1>3. Goto(w, new)
  <2>1. thread = [threads[w] EXCEPT !.blocks[n].ended = TRUE]
    BY DEF WithEnded
  <2> QED
    BY <2>1 DEF EndedEarly
<1> HIDE DEF blocks
<1>4. thread \in ThreadState /\ thread.blocks = blocks
  BY <1>t, <1>2 DEF ThreadState
<1> HIDE DEF thread
<1>5. /\ new \in ThreadState /\ Shaped(new) /\ new.at <= now /\ new.blocks = blocks
      /\ new.step = "code" \/ (new.step = "unwinding" /\ new.raising = Ended(id))
  BY <1>t, <1>1, <1>4, RaisedState
<1> HIDE DEF new
<1>6. StepOf(w) /\ threads'[w] = new
  BY <1>t, <1>3, <1>5, StepTo
<1>7. \A m \in 1 .. Len(blocks) :
        LET b == threads[w].blocks[m]
        IN  blocks[m].ended /\ ~b.ended => items'[b.uid].claimId # b.claimId
  BY <1>2
<1>8. Distinct(threads[w]) => EndsEnded(new)
  <2> SUFFICES ASSUME Distinct(threads[w]), new.step = "unwinding",
                      NEW m \in 1 .. Len(new.blocks), new.blocks[m].claimId = new.raising.claimId
               PROVE  new.blocks[m].ended
    BY DEF EndsEnded
  <2>1. new.raising.claimId = id /\ m \in 1 .. Len(threads[w].blocks)
    BY <1>1, <1>2, <1>5
  <2>2. threads[w].blocks[m].claimId = threads[w].blocks[n].claimId
    BY <1>2, <1>5, <2>1 DEF Follow
  <2>3. m = n
    BY <1>t, <2>1, <2>2 DEF Distinct
  <2> QED
    BY <1>2, <1>5, <2>3
<1> QED
  BY <1>t, <1>2, <1>5, <1>6, <1>7, <1>8 DEF Keeps

\* A block is left: the thread is back in user code, or its exception goes on, as an
\* error if it was raised on the way out.
LEMMA LeaveStep ==
  ASSUME Inv, NEW w \in Threads, Depth(w) > 0, NEW new \in ThreadState,
         Shaped(new), new.at <= now, new.blocks = Left(threads[w]).blocks,
         \/ new.step # "unwinding"
         \/ new.raising.kind # "ended"
         \/ threads[w].step = "unwinding" /\ new.raising = threads[w].raising,
         Goto(w, new), UNCHANGED <<now, renewal, up>>, LeavesSettled(w)
  PROVE  StepOf(w) /\ Keeps(w)
<1>t. /\ ThreadsOK /\ now \in Nat /\ threads[w] \in ThreadState
      /\ threads[w].blocks \in Seq(BlockType) /\ threads[w].blocks # <<>>
  BY EmptySeq DEF Inv, RestOK, ThreadsOK, ThreadState, Depth
<1>1. StepOf(w) /\ threads'[w] = new
  BY <1>t, StepTo
<1>2. /\ Follow(new.blocks, threads[w].blocks)
      /\ Len(new.blocks) = Len(threads[w].blocks) - 1
      /\ \A n \in 1 .. Len(threads[w].blocks) - 1 : new.blocks[n] = threads[w].blocks[n]
      /\ new.blocks \in Seq(BlockType)
  BY <1>t, LeftState DEF ThreadState
<1>3. EndsEnded(threads[w]) => EndsEnded(new)
  <2>1. CASE new.step # "unwinding" \/ new.raising.kind # "ended"
    BY <2>1 DEF EndsEnded
  <2>2. CASE threads[w].step = "unwinding" /\ new.raising = threads[w].raising
    BY <1>t, <1>2, <2>2, EndsEndedOnward
  <2> QED
    BY <2>1, <2>2
<1>4. \A n \in 1 .. Len(new.blocks) : new.blocks[n] = threads[w].blocks[n]
  BY <1>2
<1> QED
  BY <1>1, <1>2, <1>3, <1>4 DEF Keeps

\* The block around it is where the exception goes, or it leaves the task.
LEMMA LeaveRaising ==
  ASSUME Inv, NEW w \in Threads, Depth(w) > 0, NEW exception \in Exceptions,
         exception.kind # "ended" \/ (threads[w].step = "unwinding" /\ exception = threads[w].raising),
         Goto(w, Raised(Left(threads[w]), exception)), UNCHANGED <<now, renewal, up>>,
         LeavesSettled(w)
  PROVE  StepOf(w) /\ Keeps(w)
<1>t. /\ now \in Nat /\ threads[w] \in ThreadState /\ threads[w].blocks # <<>>
  BY EmptySeq DEF Inv, RestOK, ThreadsOK, ThreadState, Depth
<1> DEFINE new == Raised(Left(threads[w]), exception)
<1>1. /\ new \in ThreadState /\ Shaped(new) /\ new.at <= now
      /\ new.blocks = Left(threads[w]).blocks
      /\ new.step = "code" \/ new.raising = exception
  BY <1>t, LeftState, RaisedState
<1> HIDE DEF new
<1>2. Goto(w, new)
  BY DEF new
<1> QED
  BY <1>1, <1>2, LeaveStep

-----------------------------------------------------------------------------
(* What a block writes, and under which claim                              *)

\* Whose item i is, if thread w may change it: that of a block it is in, the one it is
\* giving up, or one it claims.
Owns(w, i) ==
  \/ \E b \in BlocksOf(w) : b.uid = i /\ b.claimId = items[i].claimId
  \/ threads[w].step = "givingUp" /\ threads[w].given = <<i, items[i].claimId>>
  \/ Lapsed(items[i], now) /\ items'[i].claimId \notin InUse

WritesOwned(w) == \A i \in Items : items'[i] # items[i] => Owns(w, i)

LEMMA BlockOwns ==
  ASSUME Inv, NEW w \in Threads, NEW n \in 1 .. Depth(w), NEW doc,
         LET b == threads[w].blocks[n]
         IN  \/ items' = items
             \/ Matches(b.uid, b.claimId) /\ items' = [items EXCEPT ![b.uid] = doc]
  PROVE  WritesOwned(w)
<1> DEFINE b == threads[w].blocks[n]
<1>1. b \in BlocksOf(w)
  BY DEF BlocksOf
<1> HIDE DEF b
<1>2. items' = items \/ (items[b.uid].claimId = b.claimId /\ items' = [items EXCEPT ![b.uid] = doc])
  BY DEF b, Matches, HeldBy
<1>3. items \in [Items -> Item]
  BY DEF Inv, ItemsOK
<1> QED
  BY <1>1, <1>2, <1>3 DEF WritesOwned, Owns

LEMMA TakeOwns ==
  ASSUME Inv, NEW w \in Threads, NEW i \in Items, TakeItem(w, i)
  PROVE  WritesOwned(w)
<1> DEFINE doc == ClaimedItem(items[i], NewClaim, threads[w].at)
<1>1. /\ Lapsed(items[i], threads[w].at) /\ items' = [items EXCEPT ![i] = doc]
      /\ doc.claimId \notin InUse
  BY TakeItemFacts
<1> HIDE DEF doc
<1>2. /\ items \in [Items -> Item] /\ now \in Nat
      /\ threads[w].at \in Nat /\ threads[w].at <= now
  BY DEF Inv, ItemsOK, ThreadsOK, ThreadState, RestOK
<1>3. items[i].leaseUntil \in Nat
  BY <1>2 DEF Item
<1>4. Lapsed(items[i], now)
  BY <1>1, <1>2, <1>3 DEF Lapsed
<1> QED
  BY <1>1, <1>2, <1>4 DEF WritesOwned, Owns

LEMMA GiveUpOwns ==
  ASSUME Inv, NEW w \in Threads, GiveUp(w)
  PROVE  WritesOwned(w)
<1> DEFINE i == threads[w].given[1]
           id == threads[w].given[2]
           doc == Finish(items[i], "failed")
<1>1. /\ items' = IF Matches(i, id) THEN [items EXCEPT ![i] = doc] ELSE items
      /\ threads[w].step = "givingUp"
  BY DEF GiveUp, At
<1>2. threads[w].given \in Items \X RealClaims
  BY <1>1 DEF Inv, ThreadsOK, Shaped
<1>3. threads[w].given = <<i, id>>
  BY <1>2
<1> HIDE DEF i, id, doc
<1>4. items \in [Items -> Item]
  BY DEF Inv, ItemsOK
<1>5. items' = items \/ (items[i].claimId = id /\ items' = [items EXCEPT ![i] = doc])
  BY <1>1 DEF Matches, HeldBy
<1> QED
  BY <1>1, <1>3, <1>4, <1>5 DEF WritesOwned, Owns

LEMMA UnwrittenOwns ==
  ASSUME items' = items, NEW w \in Threads
  PROVE  WritesOwned(w)
BY DEF WritesOwned

\* A block closes with an outcome, or hands its item back.
LEMMA ClosedStep ==
  ASSUME Inv, NEW w \in Threads, NEW n \in 1 .. Depth(w), NEW doc,
         LET b == threads[w].blocks[n]
         IN  /\ doc \in {Finish(items[b.uid], "done"), Finish(items[b.uid], "failed"),
                         HandBack(items[b.uid], FALSE, NoDelay)}
             /\ items' = Closed(b, doc),
         spent' = spent
  PROVE  /\ Harmless /\ WritesOwned(w)
         /\ EndedUnheld(w) => items'[threads[w].blocks[n].uid].claimId # threads[w].blocks[n].claimId
<1> DEFINE b == threads[w].blocks[n]
<1>1. b.uid \in Items /\ b.claimId \in RealClaims
  BY BlocksAre DEF Inv
<1>2. ItemsOK /\ now \in Nat
  BY DEF Inv, RestOK
<1>3. CASE ~b.ended /\ Matches(b.uid, b.claimId)
  <2>1. items' = [items EXCEPT ![b.uid] = doc]
    BY <1>3 DEF Closed
  <2>2. WritesOwned(w)
    BY <1>3, <2>1, BlockOwns
  <2>3. items[b.uid].status = "running" /\ items[b.uid].status \in Unfinished
    BY <1>1, <1>2, <1>3, MatchedRuns DEF Unfinished
  <2> HIDE DEF b
  <2>4. Harmless /\ items'[b.uid].claimId = NoClaim
    <3>1. CASE \E status \in Finished : doc = Finish(items[b.uid], status)
      BY <1>1, <1>2, <2>1, <2>3, <3>1, FinishHarmless
    <3>2. CASE doc = HandBack(items[b.uid], FALSE, NoDelay)
      BY <1>1, <1>2, <2>1, <2>3, <3>2, PassBackHarmless
    <3>3. "done" \in Finished /\ "failed" \in Finished
      BY DEF Finished
    <3> QED
      BY <3>1, <3>2, <3>3 DEF b
  <2> QED
    BY <1>1, <2>2, <2>4 DEF b, RealClaims
<1>4. CASE ~(~b.ended /\ Matches(b.uid, b.claimId))
  <2>1. items' = items
    BY <1>4 DEF Closed
  <2>2. Harmless /\ WritesOwned(w)
    BY <1>2, <2>1, NoWrite, UnwrittenOwns
  <2>3. EndedUnheld(w) => items[b.uid].claimId # b.claimId
    BY <1>4 DEF EndedUnheld, Matches, HeldBy
  <2> QED
    BY <2>1, <2>2, <2>3
<1> QED
  BY <1>3, <1>4

LEMMA EndBlockStep ==
  ASSUME Inv, NEW w \in Threads, NEW n \in 1 .. Depth(w), NEW outcome \in {"done", "failed"},
         EndBlock(w, n, outcome)
  PROVE  StepOf(w) /\ Keeps(w) /\ Harmless /\ WritesOwned(w)
<1> DEFINE b == threads[w].blocks[n]
           doc == Finish(items[b.uid], outcome)
<1>1. b.uid \in Items /\ b.claimId \in RealClaims /\ b.claimId # NoClaim
  BY BlocksAre DEF Inv, RealClaims
<1>2. ItemsOK /\ now \in Nat /\ outcome \in Finished
  BY DEF Inv, RestOK, Finished
<1>3. /\ items' = IF Matches(b.uid, b.claimId) THEN [items EXCEPT ![b.uid] = doc] ELSE items
      /\ Goto(w, EndedEarly(w, n)) /\ UNCHANGED <<now, renewal, up, spent>>
  BY DEF EndBlock
<1>4. Harmless /\ WritesOwned(w) /\ items'[b.uid].claimId # b.claimId
  <2>1. CASE Matches(b.uid, b.claimId)
    <3>1. items[b.uid].status \in Unfinished
      BY <1>1, <1>2, <2>1, MatchedRuns DEF Unfinished
    <3>2. WritesOwned(w)
      BY <1>3, <2>1, BlockOwns
    <3> HIDE DEF b
    <3> QED
      BY <1>1, <1>2, <1>3, <2>1, <3>1, <3>2, FinishHarmless
  <2>2. CASE ~Matches(b.uid, b.claimId)
    BY <1>2, <1>3, <2>2, NoWrite, UnwrittenOwns DEF Matches, HeldBy
  <2> QED
    BY <2>1, <2>2
<1>5. StepOf(w) /\ Keeps(w)
  BY <1>3, <1>4, EndedEarlyStep
<1> QED
  BY <1>4, <1>5

LEMMA ReleaseBlockStep ==
  ASSUME Inv, NEW w \in Threads, NEW n \in 1 .. Depth(w), NEW delay \in Delays,
         ReleaseBlock(w, n, delay)
  PROVE  StepOf(w) /\ Keeps(w) /\ Harmless /\ WritesOwned(w)
<1> DEFINE b == threads[w].blocks[n]
           doc == HandBack(items[b.uid], TRUE, delay)
<1>1. b.uid \in Items /\ b.claimId \in RealClaims /\ b.claimId # NoClaim
  BY BlocksAre DEF Inv, RealClaims
<1>2. ItemsOK /\ now \in Nat
  BY DEF Inv, RestOK
<1>3. /\ items' = IF Matches(b.uid, b.claimId) /\ items[b.uid].status = "running"
                  THEN [items EXCEPT ![b.uid] = doc] ELSE items
      /\ spent' = IF Matches(b.uid, b.claimId) /\ items[b.uid].status = "running"
                  THEN GivenBack(b.uid) ELSE spent
      /\ Goto(w, EndedEarly(w, n)) /\ UNCHANGED <<now, renewal, up>>
  BY DEF ReleaseBlock
<1>4. Harmless /\ WritesOwned(w) /\ items'[b.uid].claimId # b.claimId
  <2>1. CASE Matches(b.uid, b.claimId)
    <3>1. items[b.uid].status = "running"
      BY <1>1, <1>2, <2>1, MatchedRuns
    <3>2. WritesOwned(w)
      BY <1>3, <2>1, BlockOwns
    <3> HIDE DEF b
    <3> QED
      BY <1>1, <1>2, <1>3, <2>1, <3>1, <3>2, GiveBackHarmless
  <2>2. CASE ~Matches(b.uid, b.claimId)
    BY <1>2, <1>3, <2>2, NoWrite, UnwrittenOwns DEF Matches, HeldBy
  <2> QED
    BY <2>1, <2>2
<1>5. StepOf(w) /\ Keeps(w)
  BY <1>3, <1>4, EndedEarlyStep
<1> QED
  BY <1>4, <1>5

LEMMA ConfirmStep ==
  ASSUME Inv, NEW w \in Threads, NEW n \in 1 .. Depth(w), Confirm(w, n)
  PROVE  StepOf(w) /\ Keeps(w) /\ Harmless /\ WritesOwned(w)
<1> DEFINE b == threads[w].blocks[n]
           doc == Renewed(items[b.uid], now, LeaseTime)
<1>1. b.uid \in Items /\ b.claimId \in RealClaims /\ b.claimId # NoClaim
  BY BlocksAre DEF Inv, RealClaims
<1>2. ItemsOK /\ now \in Nat /\ ThreadsOK
  BY DEF Inv, RestOK
<1>3. /\ items' = IF Matches(b.uid, b.claimId) /\ items[b.uid].status = "running"
                  THEN [items EXCEPT ![b.uid] = doc] ELSE items
      /\ Goto(w, IF Matches(b.uid, b.claimId) /\ items[b.uid].status = "running"
                 THEN threads[w] ELSE EndedEarly(w, n))
      /\ At(w, "code") /\ UNCHANGED <<now, renewal, up, spent>>
  BY DEF Confirm
<1>4. CASE Matches(b.uid, b.claimId)
  <2>1. items[b.uid].status = "running"
    BY <1>1, <1>2, <1>4, MatchedRuns
  <2>2. WritesOwned(w)
    BY <1>3, <1>4, BlockOwns
  <2>3. threads[w] \in ThreadState /\ Shaped(threads[w]) /\ threads[w].at <= now
    BY <1>2 DEF ThreadsOK
  <2>4. StepOf(w) /\ threads'[w] = threads[w]
    BY <1>2, <1>3, <1>4, <2>1, <2>3, StepTo
  <2>5. Keeps(w)
    BY <1>2, <2>4, SameBlocksKeep
  <2> HIDE DEF b
  <2>6. Harmless
    BY <1>1, <1>2, <1>3, <1>4, <2>1, RenewHarmless
  <2> QED
    BY <2>2, <2>4, <2>5, <2>6
<1>5. CASE ~Matches(b.uid, b.claimId)
  <2>1. /\ Harmless /\ WritesOwned(w) /\ items'[b.uid].claimId # b.claimId
        /\ Goto(w, EndedEarly(w, n))
    BY <1>2, <1>3, <1>5, NoWrite, UnwrittenOwns DEF Matches, HeldBy
  <2> QED
    BY <1>3, <2>1, EndedEarlyStep
<1> QED
  BY <1>4, <1>5

-----------------------------------------------------------------------------
(* The other steps of a thread                                             *)

LEMMA UnwrittenResume ==
  ASSUME Inv, NEW w \in Threads, FindNothing(w) \/ Swallow(w)
  PROVE  StepOf(w) /\ Keeps(w) /\ Harmless /\ WritesOwned(w)
<1>1. Goto(w, Resumed(threads[w])) /\ UNCHANGED <<now, items, renewal, up, spent>>
  BY DEF FindNothing, Swallow
<1>2. ItemsOK
  BY DEF Inv
<1> QED
  BY <1>1, <1>2, ResumeStep, NoWrite, UnwrittenOwns

LEMMA RaisesStep ==
  ASSUME Inv, NEW w \in Threads, Raise(w) \/ StopArrives(w)
  PROVE  StepOf(w) /\ Keeps(w) /\ Harmless /\ WritesOwned(w)
<1>1. threads[w] \in ThreadState
  BY DEF Inv, ThreadsOK
<1> DEFINE stopped == [threads[w] EXCEPT !.stopping = FALSE]
<1>2. stopped \in ThreadState /\ stopped.blocks = threads[w].blocks
  BY <1>1 DEF ThreadState
<1>3. /\ Goto(w, Raised(threads[w], Error)) \/ Goto(w, Raised(stopped, Stop))
      /\ UNCHANGED <<now, items, renewal, up, spent>>
  BY DEF Raise, StopArrives
<1>4. ItemsOK
  BY DEF Inv
<1> HIDE DEF stopped
<1>5. StepOf(w) /\ Keeps(w)
  <2>1. CASE Goto(w, Raised(threads[w], Error))
    BY <1>1, <1>3, <2>1, ExceptionTypes, RaiseStep
  <2>2. CASE Goto(w, Raised(stopped, Stop))
    BY <1>2, <1>3, <2>2, ExceptionTypes, RaiseStep
  <2> QED
    BY <1>3, <2>1, <2>2
<1> QED
  BY <1>3, <1>4, <1>5, NoWrite, UnwrittenOwns

LEMMA ClaimUnheardStep ==
  ASSUME Inv, NEW w \in Threads, NEW i \in Items, ClaimUnheard(w, i)
  PROVE  StepOf(w) /\ Keeps(w) /\ Harmless /\ WritesOwned(w)
<1>1. /\ TakeItem(w, i) /\ Goto(w, Raised(threads[w], Error))
      /\ spent' = [spent EXCEPT ![i].latest = FALSE]
  BY DEF ClaimUnheard
<1>2. UNCHANGED <<now, renewal, up>>
  BY <1>1 DEF TakeItem
<1>3. threads[w] \in ThreadState
  BY DEF Inv, ThreadsOK
<1>4. StepOf(w) /\ Keeps(w)
  BY <1>1, <1>2, <1>3, ExceptionTypes, RaiseStep
<1>5. Harmless
  BY <1>1, ClaimLostHarmless
<1>6. WritesOwned(w)
  BY <1>1, TakeOwns
<1> QED
  BY <1>4, <1>5, <1>6

\* The blocks stay the thread's, and are renewed no more.
LEMMA TimeOutStep ==
  ASSUME Inv, NEW w \in Threads, TimeOut(w)
  PROVE  StepOf(w) /\ Keeps(w) /\ Harmless /\ WritesOwned(w)
<1>t. /\ ThreadsOK /\ ItemsOK /\ now \in Nat
      /\ threads[w] \in ThreadState /\ Shaped(threads[w]) /\ threads[w].at <= now
      /\ threads[w].blocks \in Seq(BlockType) /\ Len(threads[w].blocks) \in Nat
      /\ threads[w].blocks # <<>>
  BY LenProperties, EmptySeq DEF Inv, RestOK, ThreadsOK, ThreadState, TimeOut, Depth
<1> DEFINE old == threads[w].blocks
           blocks == [n \in 1 .. Len(old) |-> [old[n] EXCEPT !.held = FALSE]]
           new == [threads[w] EXCEPT !.stopping = TRUE, !.blocks = blocks]
<1>1. Goto(w, new) /\ UNCHANGED <<now, items, renewal, up, spent>>
  BY DEF TimeOut
<1>2. \A n \in 1 .. Len(old) : old[n] \in BlockType
  BY <1>t, ElementOfSeq
<1>3. \A n \in 1 .. Len(old) :
        /\ blocks[n] \in BlockType
        /\ blocks[n].uid = old[n].uid /\ blocks[n].claimId = old[n].claimId
        /\ blocks[n].ended = old[n].ended
  BY <1>2 DEF BlockType
<1>4. blocks \in Seq(BlockType) /\ Len(blocks) = Len(old)
  <2>1. blocks \in [1 .. Len(old) -> BlockType]
    BY <1>3
  <2> HIDE DEF blocks
  <2> QED
    BY <1>t, <2>1, SeqDef, LenProperties DEF old
<1> HIDE DEF blocks
<1>5. /\ new \in ThreadState /\ new.blocks = blocks /\ new.at = threads[w].at
      /\ new.step = threads[w].step /\ new.raising = threads[w].raising
      /\ new.given = threads[w].given
  BY <1>t, <1>4 DEF ThreadState
<1> HIDE DEF new
<1>6. blocks # <<>>
  BY <1>t, <1>4, EmptySeq DEF old
<1>7. Shaped(new) /\ new.at <= now
  BY <1>t, <1>5, <1>6 DEF Shaped
<1>8. StepOf(w) /\ threads'[w] = new
  BY <1>t, <1>1, <1>5, <1>7, StepTo
<1>9. Keeps(w)
  BY <1>t, <1>3, <1>4, <1>5, <1>8 DEF Keeps, Follow, EndsEnded
<1> QED
  BY <1>t, <1>1, <1>8, <1>9, NoWrite, UnwrittenOwns

LEMMA ReachEndStep ==
  ASSUME Inv, NEW w \in Threads, ReachEnd(w)
  PROVE  StepOf(w) /\ Keeps(w) /\ Harmless /\ WritesOwned(w)
<1>t. /\ now \in Nat /\ threads[w] \in ThreadState /\ Shaped(threads[w])
      /\ threads[w].at <= now /\ Depth(w) \in 1 .. Depth(w) /\ Depth(w) > 0
      /\ threads[w].step = "code" /\ threads[w].blocks # <<>>
  <2>1. threads[w].blocks \in Seq(BlockType) /\ Depth(w) > 0
    BY DEF Inv, ThreadsOK, ThreadState, ReachEnd
  <2>2. Depth(w) \in Nat
    BY <2>1, LenProperties DEF Depth
  <2> QED
    BY <2>1, <2>2, EmptySeq DEF Inv, RestOK, ThreadsOK, ReachEnd, At, Depth
<1>1. /\ items' = Closed(Innermost(w), Finish(items[Innermost(w).uid], "done"))
      /\ Goto(w, Left(threads[w])) /\ UNCHANGED <<now, renewal, up, spent>>
  BY DEF ReachEnd
<1>2. /\ Harmless /\ WritesOwned(w)
      /\ EndedUnheld(w) => items'[Innermost(w).uid].claimId # Innermost(w).claimId
  BY <1>t, <1>1, ClosedStep DEF Innermost
<1>3. LeavesSettled(w)
  BY <1>2 DEF LeavesSettled
<1> DEFINE new == Left(threads[w])
<1>4. /\ new \in ThreadState /\ Shaped(new) /\ new.at <= now /\ new.step # "unwinding"
  BY <1>t, LeftState DEF Shaped
<1> HIDE DEF new
<1>5. Goto(w, new) /\ new.blocks = Left(threads[w]).blocks
  BY <1>1 DEF new
<1> QED
  BY <1>t, <1>1, <1>2, <1>3, <1>4, <1>5, LeaveStep

LEMMA UnwindingDepth ==
  ASSUME Inv, NEW w \in Threads, threads[w].step = "unwinding" \/ Depth(w) > 0
  PROVE  /\ Depth(w) > 0 /\ Depth(w) \in 1 .. Depth(w) /\ threads[w].blocks # <<>>
         /\ threads[w] \in ThreadState /\ threads[w].raising \in Exceptions
         /\ now \in Nat
<1>1. /\ threads[w].blocks \in Seq(BlockType)
      /\ threads[w].step = "unwinding" => threads[w].blocks # <<>>
      /\ threads[w] \in ThreadState /\ threads[w].raising \in Exceptions
      /\ now \in Nat
  BY DEF Inv, ThreadsOK, ThreadState, Shaped, RestOK
<1>2. Depth(w) \in Nat /\ (Depth(w) = 0 <=> threads[w].blocks = <<>>)
  BY <1>1, LenProperties, EmptySeq DEF Depth
<1> QED
  BY <1>1, <1>2

LEMMA EndHereStep ==
  ASSUME Inv, NEW w \in Threads, EndHere(w)
  PROVE  StepOf(w) /\ Keeps(w) /\ Harmless /\ WritesOwned(w)
<1>1. /\ threads[w].step = "unwinding" /\ threads[w].raising = Ended(Innermost(w).claimId)
      /\ Goto(w, Resumed(Left(threads[w]))) /\ UNCHANGED <<now, items, renewal, up, spent>>
  BY DEF EndHere, At
<1>2. /\ Depth(w) > 0 /\ Depth(w) \in 1 .. Depth(w) /\ threads[w].blocks # <<>>
      /\ threads[w] \in ThreadState /\ now \in Nat
  BY <1>1, UnwindingDepth
<1>3. LeavesSettled(w)
  <2>1. Innermost(w).claimId \in Nat
    BY <1>2, BlocksAre DEF Inv, Innermost, RealClaims
  <2>2. threads[w].raising.kind = "ended" /\ threads[w].raising.claimId = Innermost(w).claimId
    BY <1>1, <2>1, ExceptionTypes
  <2> QED
    BY <1>1, <1>2, <2>2 DEF LeavesSettled, EndsEnded, EndedUnheld, Innermost, Depth
<1> DEFINE new == Resumed(Left(threads[w]))
<1>4. /\ new \in ThreadState /\ Shaped(new) /\ new.at <= now /\ new.step # "unwinding"
      /\ new.blocks = Left(threads[w]).blocks
  BY <1>2, LeftState, ResumedState
<1> HIDE DEF new
<1>5. Goto(w, new)
  BY <1>1 DEF new
<1>6. ItemsOK
  BY DEF Inv
<1> QED
  BY <1>1, <1>2, <1>3, <1>4, <1>5, <1>6, LeaveStep, NoWrite, UnwrittenOwns

LEMMA PassEndStep ==
  ASSUME Inv, NEW w \in Threads, PassEnd(w)
  PROVE  StepOf(w) /\ Keeps(w) /\ Harmless /\ WritesOwned(w)
<1>1. /\ threads[w].step = "unwinding"
      /\ items' = Closed(Innermost(w), HandBack(items[Innermost(w).uid], FALSE, NoDelay))
      /\ Goto(w, Raised(Left(threads[w]), threads[w].raising))
      /\ UNCHANGED <<now, renewal, up, spent>>
  BY DEF PassEnd, At
<1>2. /\ Depth(w) > 0 /\ Depth(w) \in 1 .. Depth(w) /\ threads[w].raising \in Exceptions
  BY <1>1, UnwindingDepth
<1>3. /\ Harmless /\ WritesOwned(w)
      /\ EndedUnheld(w) => items'[Innermost(w).uid].claimId # Innermost(w).claimId
  BY <1>1, <1>2, ClosedStep DEF Innermost
<1>4. LeavesSettled(w)
  BY <1>3 DEF LeavesSettled
<1> QED
  BY <1>1, <1>2, <1>3, <1>4, LeaveRaising

LEMMA FailBlockStep ==
  ASSUME Inv, NEW w \in Threads, FailBlock(w)
  PROVE  StepOf(w) /\ Keeps(w) /\ Harmless /\ WritesOwned(w)
<1>1. /\ threads[w].step = "unwinding"
      /\ items' = Closed(Innermost(w), Finish(items[Innermost(w).uid], "failed"))
      /\ Goto(w, Raised(Left(threads[w]), Error))
      /\ UNCHANGED <<now, renewal, up, spent>>
  BY DEF FailBlock, At
<1>2. Depth(w) > 0 /\ Depth(w) \in 1 .. Depth(w)
  BY <1>1, UnwindingDepth
<1>3. /\ Harmless /\ WritesOwned(w)
      /\ EndedUnheld(w) => items'[Innermost(w).uid].claimId # Innermost(w).claimId
  BY <1>1, <1>2, ClosedStep DEF Innermost
<1>4. LeavesSettled(w)
  BY <1>3 DEF LeavesSettled
<1> QED
  BY <1>1, <1>2, <1>3, <1>4, ExceptionTypes, LeaveRaising

\* Unwritten: the task was stopped, or the write failed.
LEMMA AbandonsStep ==
  ASSUME Inv, NEW w \in Threads, DropBlock(w) \/ CloseFails(w)
  PROVE  StepOf(w) /\ Keeps(w) /\ Harmless /\ WritesOwned(w)
<1>1. /\ UNCHANGED <<now, items, renewal, up, spent>>
      /\ \/ /\ threads[w].step = "unwinding" /\ threads[w].raising = Stop
            /\ Goto(w, Raised(Left(threads[w]), Stop))
         \/ /\ now < FaultsUntil /\ Depth(w) > 0
            /\ Goto(w, Raised(Left(threads[w]), Error))
  BY DEF DropBlock, CloseFails, At
<1>2. Depth(w) > 0
  BY <1>1, UnwindingDepth
<1>3. StepOf(w) /\ Keeps(w)
  <2>1. CASE threads[w].raising = Stop /\ Goto(w, Raised(Left(threads[w]), Stop))
    <3>1. LeavesSettled(w)
      BY <2>1 DEF LeavesSettled
    <3> QED
      BY <1>1, <1>2, <2>1, <3>1, ExceptionTypes, LeaveRaising
  <2>2. CASE now < FaultsUntil /\ Goto(w, Raised(Left(threads[w]), Error))
    <3>1. LeavesSettled(w)
      BY <2>2, TimesAssumption DEF LeavesSettled, Inv, RestOK
    <3> QED
      BY <1>1, <1>2, <2>2, <3>1, ExceptionTypes, LeaveRaising
  <2> QED
    BY <1>1, <2>1, <2>2
<1>4. ItemsOK
  BY DEF Inv
<1> QED
  BY <1>1, <1>3, <1>4, NoWrite, UnwrittenOwns

-----------------------------------------------------------------------------
(* Every step                                                              *)

ThreadNext(w) == Entering(w) \/ Working(w) \/ ReachEnd(w) \/ Leaving(w) \/ Failing(w)

\* Thread w entered a block, with a claim never made before.
Enters(w) ==
  \E i \in Items :
    /\ NewClaim \notin InUse
    /\ threads'[w].blocks = Append(threads[w].blocks, Block(i, NewClaim))
    /\ threads'[w].step = "code"

LEMMA ThreadNextStep ==
  ASSUME Inv, NEW w \in Threads, ThreadNext(w)
  PROVE  StepOf(w) /\ Harmless /\ WritesOwned(w) /\ (Keeps(w) \/ Enters(w))
<1> USE DEF ThreadNext
<1>1. CASE Entering(w)
  <2>1. CASE EnterBlock(w)
    <3>1. items' = items
      BY <2>1 DEF EnterBlock
    <3> QED
      BY <2>1, <3>1, EnterBlockStep, UnwrittenOwns
  <2>2. ASSUME NEW i \in Items, Claim(w, i)
        PROVE  StepOf(w) /\ Harmless /\ WritesOwned(w) /\ Enters(w)
    <3>1. TakeItem(w, i)
      BY <2>2 DEF Claim
    <3>2. NewClaim \notin InUse /\ WritesOwned(w)
      BY <3>1, TakeItemFacts, TakeOwns
    <3> QED
      BY <2>2, <3>2, ClaimStep DEF Enters
  <2>3. ASSUME NEW i \in Items, ClaimSpent(w, i)
        PROVE  StepOf(w) /\ Keeps(w) /\ Harmless /\ WritesOwned(w)
    <3>1. TakeItem(w, i)
      BY <2>3 DEF ClaimSpent
    <3> QED
      BY <2>3, <3>1, ClaimSpentStep, TakeOwns
  <2>4. CASE GiveUp(w)
    BY <2>4, GiveUpStep, GiveUpOwns
  <2>5. CASE FindNothing(w)
    BY <2>5, UnwrittenResume
  <2> QED
    BY <1>1, <2>1, <2>2, <2>3, <2>4, <2>5 DEF Entering
<1>2. CASE Working(w)
  <2>1. ASSUME NEW n \in 1 .. Depth(w), NEW outcome \in {"done", "failed"}, EndBlock(w, n, outcome)
        PROVE  StepOf(w) /\ Keeps(w) /\ Harmless /\ WritesOwned(w)
    BY <2>1, EndBlockStep
  <2>2. ASSUME NEW n \in 1 .. Depth(w), NEW delay \in Delays, ReleaseBlock(w, n, delay)
        PROVE  StepOf(w) /\ Keeps(w) /\ Harmless /\ WritesOwned(w)
    BY <2>2, ReleaseBlockStep
  <2>3. ASSUME NEW n \in 1 .. Depth(w), Confirm(w, n)
        PROVE  StepOf(w) /\ Keeps(w) /\ Harmless /\ WritesOwned(w)
    BY <2>3, ConfirmStep
  <2>4. CASE Raise(w)
    BY <2>4, RaisesStep
  <2>5. CASE Swallow(w)
    BY <2>5, UnwrittenResume
  <2> QED
    BY <1>2, <2>1, <2>2, <2>3, <2>4, <2>5 DEF Working
<1>3. CASE ReachEnd(w)
  BY <1>3, ReachEndStep
<1>4. CASE Leaving(w)
  BY <1>4, EndHereStep, PassEndStep, FailBlockStep, AbandonsStep DEF Leaving
<1>5. CASE Failing(w)
  BY <1>5, ClaimUnheardStep, TimeOutStep, RaisesStep, AbandonsStep DEF Failing
<1> QED
  BY <1>1, <1>2, <1>3, <1>4, <1>5

LEMMA AddHarmless ==
  ASSUME Inv, NEW i \in Items, Add(i)
  PROVE  Harmless
<1>1. ItemsOK /\ now \in Nat
  BY DEF Inv, RestOK
<1>2. /\ items[i].status = "absent" /\ items' = [items EXCEPT ![i] = NewItem] /\ spent' = spent
  BY DEF Add
<1>3. spent[i] \in SpentType /\ spent[i].times = 0 /\ ~spent[i].latest
  BY <1>1, <1>2 DEF ItemsOK, Counts, SpentType
<1> DEFINE doc == NewItem
<1>4. Good(doc, spent[i]) /\ doc.claimId = NoClaim
  BY <1>1, <1>3, NewItemIsGood
<1>5. items' = [items EXCEPT ![i] = doc]
  BY <1>2
<1>6. items[i].status \notin Finished \cup {"purged"}
  BY <1>2 DEF Finished
<1> HIDE DEF doc
<1> QED
  BY <1>1, <1>2, <1>4, <1>5, <1>6, OneWriteUnspent

LEMMA ByHandHarmless ==
  ASSUME Inv, ByHand
  PROVE  Harmless
<1>t. ItemsOK /\ now \in Nat
  BY DEF Inv, RestOK
<1>1. ASSUME NEW i \in Items, NEW status \in {"done", "failed"}, FinishByHand(i, status)
      PROVE  Harmless
  BY <1>t, <1>1, FinishHarmless DEF FinishByHand, Finished
<1>2. ASSUME NEW i \in Items, NEW delay \in Delays, ReleaseByHand(i, delay)
      PROVE  Harmless
  BY <1>t, <1>2, GiveBackHarmless DEF ReleaseByHand
<1>3. ASSUME NEW i \in Items, RenewByHand(i)
      PROVE  Harmless
  BY <1>t, <1>3, RenewHarmless DEF RenewByHand
<1>4. ASSUME NEW chosen \in SUBSET Items, Cancel(chosen)
      PROVE  Harmless
  <2> DEFINE picked == {i \in Items : i \in chosen /\ NotStarted(items[i], now)}
  <2>1. /\ items' = [i \in Items |-> IF i \in chosen /\ NotStarted(items[i], now)
                                     THEN Canceled(items[i], now) ELSE items[i]]
        /\ spent' = spent
    BY <1>4 DEF Cancel
  <2>2. ASSUME NEW i \in Items
        PROVE  MayBecome(i)
    <3>1. CASE i \in chosen /\ NotStarted(items[i], now)
      <4>1. /\ Good(Canceled(items[i], now), spent[i])
            /\ Canceled(items[i], now).claimId = NoClaim
        BY <1>t, ItemsAreGood, CanceledIsGood
      <4>2. items[i].status \notin Finished \cup {"purged"}
        BY <3>1 DEF NotStarted, Finished
      <4>3. items'[i] = Canceled(items[i], now) /\ spent'[i] = spent[i]
        BY <2>1, <3>1
      <4> QED
        BY <4>1, <4>2, <4>3 DEF MayBecome
    <3>2. CASE ~(i \in chosen /\ NotStarted(items[i], now))
      BY <2>1, <3>2 DEF MayBecome
    <3> QED
      BY <3>1, <3>2
  <2> QED
    BY <1>t, <2>1, <2>2 DEF Harmless, ItemsOK
<1>5. ASSUME NEW statuses \in PurgeStatuses, Purge(statuses)
      PROVE  Harmless
  BY <1>t, <1>5 DEF Purge, Harmless, MayBecome, ItemsOK
<1> QED
  BY <1>1, <1>2, <1>3, <1>4, <1>5 DEF ByHand

LEMMA RenewalHarmless ==
  ASSUME Inv, NEW p \in Processes, WriteRenewal(p)
  PROVE  Harmless
<1>t. /\ ItemsOK /\ now \in Nat
      /\ renewal[p] \in [claims : SUBSET RealClaims, at : Nat]
  BY DEF Inv, RestOK, RenewalsOK
<1>1. PICK at \in renewal[p].at .. now : items' = RenewHeld(items, renewal[p].claims, at, LeaseTime)
  BY DEF WriteRenewal
<1>2. spent' = spent
  BY DEF WriteRenewal
<1>3. at \in Nat /\ renewal[p].claims \subseteq RealClaims
  BY <1>t, <1>1
<1>4. items' = [i \in Items |-> IF items[i].claimId \in renewal[p].claims
                                THEN Renewed(items[i], at, LeaseTime) ELSE items[i]]
  BY <1>t, <1>1 DEF RenewHeld, ItemsOK
<1>5. ASSUME NEW i \in Items
      PROVE  MayBecome(i)
  <2>1. CASE items[i].claimId \in renewal[p].claims
    <3>1. /\ Good(Renewed(items[i], at, LeaseTime), spent[i])
          /\ Renewed(items[i], at, LeaseTime).claimId = items[i].claimId
      BY <1>t, <1>3, ItemsAreGood, RenewedIsGood
    <3>2. items[i].status \notin Finished \cup {"purged"}
      BY <1>t, <1>3, <2>1 DEF ItemsOK, Fits, RealClaims, Finished
    <3>3. items'[i] = Renewed(items[i], at, LeaseTime) /\ spent'[i] = spent[i]
      BY <1>2, <1>4, <2>1
    <3> QED
      BY <3>1, <3>2, <3>3 DEF MayBecome
  <2>2. CASE items[i].claimId \notin renewal[p].claims
    BY <1>2, <1>4, <2>2 DEF MayBecome
  <2> QED
    BY <2>1, <2>2
<1> QED
  BY <1>t, <1>2, <1>4, <1>5 DEF Harmless, ItemsOK

\* Every step leaves each item what it may become, the crash of a process among them.
LEMMA StepHarmless ==
  ASSUME Inv, [Next]_vars
  PROVE  Harmless
<1>t. ItemsOK
  BY DEF Inv
<1>1. CASE \E i \in Items : Add(i)
  BY <1>1, AddHarmless
<1>2. CASE \E w \in Threads : ThreadNext(w)
  BY <1>2, ThreadNextStep
<1>3. CASE ByHand
  BY <1>3, ByHandHarmless
<1>4. CASE \E p \in Processes : WriteRenewal(p)
  BY <1>4, RenewalHarmless
<1>5. CASE UNCHANGED <<items, spent>>
  BY <1>t, <1>5, NoWrite
<1> QED
  BY <1>1, <1>2, <1>3, <1>4, <1>5
     DEF Next, ThreadNext, Tick, BeginRenewal, Crash, Restart, vars

LEMMA HeldAreClaims ==
  ASSUME ThreadsOK, NEW p \in Processes
  PROVE  Held(p) \in SUBSET RealClaims
BY BlocksAre DEF Held, BlocksOf

LEMMA StepInv == Inv /\ [Next]_vars => Inv'
<1> SUFFICES ASSUME Inv, [Next]_vars PROVE Inv'
  OBVIOUS
<1>t. ItemsOK /\ ThreadsOK /\ RenewalsOK /\ RestOK
  BY DEF Inv
<1>0. ItemsOK'
  BY <1>t, StepHarmless, HarmlessKeepsItems
<1>1. CASE Tick
  <2>1. now' = now + 1 /\ UNCHANGED <<threads, renewal, up>>
    BY <1>1 DEF Tick
  <2>2. RestOK' /\ RenewalsOK'
    BY <1>t, <2>1 DEF RestOK, RenewalsOK
  <2>3. ThreadsOK'
    BY <1>t, <2>1 DEF ThreadsOK, RestOK, ThreadState
  <2> QED
    BY <1>0, <2>2, <2>3 DEF Inv
<1>2. CASE \E w \in Threads : ThreadNext(w)
  <2>1. PICK w \in Threads : ThreadNext(w)
    BY <1>2
  <2>2. StepOf(w)
    BY <2>1, ThreadNextStep
  <2>3. ThreadsOK'
    BY <1>t, <2>2, StepKeepsThreads
  <2>4. RestOK' /\ RenewalsOK'
    BY <1>t, <2>2 DEF StepOf, RestOK, RenewalsOK
  <2> QED
    BY <1>0, <2>3, <2>4 DEF Inv
<1>3. CASE UNCHANGED <<now, threads, renewal, up>>
  BY <1>0, <1>t, <1>3 DEF Inv, RestOK, RenewalsOK, ThreadsOK
<1>4. ASSUME NEW p \in Processes, BeginRenewal(p) \/ WriteRenewal(p) \/ Crash(p)
      PROVE  RenewalsOK'
  <2>1. [claims |-> Held(p), at |-> now] \in [claims : SUBSET RealClaims, at : Nat]
    BY <1>t, HeldAreClaims DEF RestOK
  <2>2. NoRenewal \in [claims : SUBSET RealClaims, at : Nat]
    BY DEF NoRenewal
  <2> QED
    BY <1>t, <1>4, <2>1, <2>2 DEF RenewalsOK, BeginRenewal, WriteRenewal, Crash
<1>5. ASSUME NEW p \in Processes, BeginRenewal(p) \/ WriteRenewal(p)
      PROVE  Inv'
  <2>1. UNCHANGED <<now, threads, up>>
    BY <1>5 DEF BeginRenewal, WriteRenewal
  <2> QED
    BY <1>0, <1>t, <1>4, <1>5, <2>1 DEF Inv, RestOK, ThreadsOK
<1>6. ASSUME NEW p \in Processes, Crash(p)
      PROVE  Inv'
  <2>1. /\ now' = now /\ up' = up \ {p}
        /\ threads' = [w \in Threads |-> IF Home[w] = p THEN Outside ELSE threads[w]]
    BY <1>6 DEF Crash
  <2>2. RestOK'
    BY <1>t, <2>1 DEF RestOK
  <2>3. Outside.at <= now
    BY <1>t, OutsideState DEF RestOK
  <2>4. ThreadsOK'
    BY <1>t, <2>1, <2>3, OutsideState DEF ThreadsOK
  <2> QED
    BY <1>0, <1>4, <1>6, <2>2, <2>4 DEF Inv
<1>7. ASSUME NEW p \in Processes, Restart(p)
      PROVE  Inv'
  BY <1>0, <1>t, <1>7 DEF Restart, Inv, RestOK, RenewalsOK, ThreadsOK
<1> QED
  BY <1>1, <1>2, <1>3, <1>5, <1>6, <1>7 DEF Next, ThreadNext, Add, ByHand, vars

LEMMA InitInv == Init => Inv
<1> SUFFICES ASSUME Init PROVE Inv
  OBVIOUS
<1>1. ItemsOK
  BY DeletedIsGood, TriesAssumption DEF Init, ItemsOK, Counts, SpentType, Absent, Unfinished
<1>2. RestOK
  BY DEF Init, RestOK
<1>3. RenewalsOK
  <2>1. NoRenewal \in [claims : SUBSET RealClaims, at : Nat]
    BY DEF NoRenewal
  <2> QED
    BY <2>1 DEF Init, RenewalsOK
<1>4. ThreadsOK
  <2>1. Outside.at <= now
    BY OutsideState DEF Init
  <2> QED
    BY <2>1, OutsideState DEF Init, ThreadsOK
<1> QED
  BY <1>1, <1>2, <1>3, <1>4 DEF Inv

LEMMA AlwaysInv == Spec => []Inv
BY InitInv, StepInv, PTL DEF Spec

\* Every variable has its type; in particular, tries never go below zero.
THEOREM TypeCorrect == Spec => []TypeOK
<1>1. Inv => TypeOK
  <2> SUFFICES ASSUME Inv PROVE TypeOK
    OBVIOUS
  <2>1. \A w \in Threads :
          /\ threads[w].step \in {"code", "reading", "givingUp", "unwinding"}
          /\ threads[w].blocks \in Seq(BlockType)
          /\ threads[w].stopping \in BOOLEAN
    BY DEF Inv, ThreadsOK, ThreadState
  <2>2. renewal \in [Processes -> [claims : SUBSET Nat, at : Nat]]
    BY DEF Inv, RenewalsOK, RealClaims
  <2> QED
    BY <2>1, <2>2 DEF TypeOK, Inv, ItemsOK, RestOK, SpentType
<1> QED
  BY <1>1, AlwaysInv, PTL

\* An item is handed out MaxAttempts times at most, not counting the times its try was
\* given back: the attempts written in the document never fall behind the tries handed
\* out, whoever died, lapsed, was stopped, released or finished it by hand.
THEOREM TriesStayBounded == Spec => []TriesBounded
<1>1. Inv => TriesBounded
  BY DEF Inv, ItemsOK, Counts, TriesBounded
<1> QED
  BY <1>1, AlwaysInv, PTL

\* A claim stands exactly while the item is running, and for a try used.
THEOREM ClaimsStandForTries == Spec => []ClaimStandsForTry
<1>1. Inv => ClaimStandsForTry
  BY DEF Inv, ItemsOK, Fits, ClaimStandsForTry
<1> QED
  BY <1>1, AlwaysInv, PTL

\* An item that ended stays as it ended, until it is purged.
THEOREM EndedStaysFrozen == Spec => EndedIsFrozen
<1>1. Inv /\ [Next]_vars =>
        [\A i \in Items : items[i].status \in Finished => items'[i] \in {items[i], Deleted}]_vars
  BY StepHarmless DEF Harmless, MayBecome
<1> QED
  BY <1>1, AlwaysInv, PTL DEF Spec, EndedIsFrozen

-----------------------------------------------------------------------------
(* Who writes                                                              *)

\* A thread changes an item only under the claim of a block it is in, of the item it is
\* giving up, or by claiming one whose lease ran out.
THEOREM ThreadsWriteTheirOwn == Spec => WritesUnderClaim
<1> DEFINE Step ==
      \A w \in Threads, i \in Items :
        threads'[w] # threads[w] /\ items'[i] # items[i] /\ up' = up => Owns(w, i)
<1>1. Inv /\ [Next]_vars => Step
  <2> SUFFICES ASSUME Inv, [Next]_vars, NEW w \in Threads, NEW i \in Items,
                      threads'[w] # threads[w], items'[i] # items[i], up' = up
               PROVE  Owns(w, i)
    OBVIOUS
  <2>1. CASE \E v \in Threads : ThreadNext(v)
    <3>1. PICK v \in Threads : ThreadNext(v)
      BY <2>1
    <3>2. StepOf(v) /\ WritesOwned(v)
      BY <3>1, ThreadNextStep
    <3>3. v = w
      BY <3>2 DEF StepOf, Inv, ThreadsOK
    <3> QED
      BY <3>2, <3>3 DEF WritesOwned
  <2>2. CASE UNCHANGED threads
    BY <2>2
  <2>3. CASE UNCHANGED items
    BY <2>3
  <2> QED
    BY <2>1, <2>2, <2>3
       DEF Next, ThreadNext, Tick, Add, ByHand, BeginRenewal, WriteRenewal, Crash, Restart, vars
<1>2. Step <=>
        \A w \in Threads, i \in Items :
          threads'[w] # threads[w] /\ items'[i] # items[i] /\ up' = up =>
            \/ \E b \in BlocksOf(w) : b.uid = i /\ b.claimId = items[i].claimId
            \/ threads[w].step = "givingUp" /\ threads[w].given = <<i, items[i].claimId>>
            \/ Lapsed(items[i], now) /\ items'[i].claimId \notin InUse
  BY DEF Owns
<1> QED
  BY <1>1, <1>2, AlwaysInv, PTL DEF Spec, WritesUnderClaim

-----------------------------------------------------------------------------
(* No block is left with its item held                                     *)

\* The claims of a thread's blocks are its own, an exception that ends a block ends one
\* that ended, and a block that ended holds its item no more.
Settled ==
  \A w \in Threads : Distinct(threads[w]) /\ EndsEnded(threads[w]) /\ EndedUnheld(w)

LEMMA BlocksInUse ==
  ASSUME NEW w \in Threads, NEW n \in 1 .. Depth(w)
  PROVE  threads[w].blocks[n].claimId \in InUse
<1> DEFINE b == threads[w].blocks[n]
           claims(v) == {c.claimId : c \in BlocksOf(v)} \cup {threads[v].raising.claimId}
<1>1. b \in BlocksOf(w)
  BY DEF BlocksOf
<1> HIDE DEF b
<1>2. b.claimId \in claims(w)
  BY <1>1
<1> HIDE DEF claims
<1>3. b.claimId \in UNION {claims(v) : v \in Threads}
  BY <1>2
<1> QED
  BY <1>3 DEF InUse, claims, b

\* A claim that was lost does not come back.
LEMMA LostStaysLost ==
  ASSUME Inv, Harmless, NEW w \in Threads, NEW n \in 1 .. Depth(w),
         items[threads[w].blocks[n].uid].claimId # threads[w].blocks[n].claimId
  PROVE  items'[threads[w].blocks[n].uid].claimId # threads[w].blocks[n].claimId
<1> DEFINE b == threads[w].blocks[n]
<1>1. b.uid \in Items /\ b.claimId \in RealClaims
  BY BlocksAre DEF Inv
<1>2. b.claimId \in InUse
  BY BlocksInUse
<1> HIDE DEF b
<1>3. MayBecome(b.uid) /\ items[b.uid].claimId # b.claimId
  BY <1>1 DEF Harmless, b
<1>4. Deleted.claimId = NoClaim
  BY DEF Deleted, Absent
<1>5. items'[b.uid].claimId # b.claimId
  BY <1>1, <1>2, <1>3, <1>4 DEF MayBecome, RealClaims
<1> QED
  BY <1>5 DEF b

LEMMA KeptThreadSettled ==
  ASSUME Inv, Settled, Harmless, NEW w \in Threads,
         threads'[w] = threads[w] \/ (StepOf(w) /\ Keeps(w))
  PROVE  Distinct(threads'[w]) /\ EndsEnded(threads'[w]) /\ EndedUnheld(w)'
<1>t. /\ threads[w].blocks \in Seq(BlockType) /\ Len(threads[w].blocks) = Depth(w)
      /\ Depth(w) \in Nat
  BY LenProperties DEF Inv, ThreadsOK, ThreadState, Depth
<1>s. Distinct(threads[w]) /\ EndsEnded(threads[w]) /\ EndedUnheld(w)
  BY DEF Settled
<1>1. CASE threads'[w] = threads[w]
  BY <1>s, <1>1, LostStaysLost DEF EndedUnheld, Depth
<1>2. CASE StepOf(w) /\ Keeps(w)
  <2> DEFINE new == threads'[w].blocks
             old == threads[w].blocks
  <2>1. new \in Seq(BlockType) /\ Len(new) \in Nat /\ Follow(new, old)
    BY <1>2, LenProperties DEF StepOf, ThreadState, Keeps
  <2>2. Distinct(threads'[w])
    <3> SUFFICES ASSUME NEW m \in 1 .. Len(new), NEW n \in 1 .. Len(new),
                        new[m].claimId = new[n].claimId
                 PROVE  m = n
      BY DEF Distinct
    <3>1. m \in 1 .. Len(old) /\ n \in 1 .. Len(old)
      BY <1>t, <2>1 DEF Follow
    <3>2. old[m].claimId = old[n].claimId
      BY <2>1 DEF Follow
    <3> QED
      BY <1>s, <3>1, <3>2 DEF Distinct
  <2>3. EndsEnded(threads'[w])
    BY <1>s, <1>2 DEF Keeps
  <2>4. ASSUME NEW n \in 1 .. Len(new), new[n].ended
        PROVE  items'[new[n].uid].claimId # new[n].claimId
    <3>1. n \in 1 .. Depth(w) /\ new[n].uid = old[n].uid /\ new[n].claimId = old[n].claimId
      BY <1>t, <2>1 DEF Follow
    <3>2. CASE old[n].ended
      BY <1>s, <3>1, <3>2, LostStaysLost DEF EndedUnheld
    <3>3. CASE ~old[n].ended
      BY <1>2, <2>4, <3>1, <3>3 DEF Keeps
    <3> QED
      BY <3>2, <3>3
  <2> QED
    BY <2>2, <2>3, <2>4 DEF EndedUnheld, Depth
<1> QED
  BY <1>1, <1>2

LEMMA EnteredThreadSettled ==
  ASSUME Inv, Settled, Harmless, NEW w \in Threads, StepOf(w), Enters(w)
  PROVE  Distinct(threads'[w]) /\ EndsEnded(threads'[w]) /\ EndedUnheld(w)'
<1>t. /\ threads[w].blocks \in Seq(BlockType) /\ Len(threads[w].blocks) = Depth(w)
      /\ Depth(w) \in Nat
  BY LenProperties DEF Inv, ThreadsOK, ThreadState, Depth
<1>s. Distinct(threads[w]) /\ EndedUnheld(w)
  BY DEF Settled
<1>1. PICK i \in Items :
        /\ NewClaim \notin InUse
        /\ threads'[w].blocks = Append(threads[w].blocks, Block(i, NewClaim))
        /\ threads'[w].step = "code"
  BY DEF Enters
<1> DEFINE old == threads[w].blocks
           new == threads'[w].blocks
           last == Block(i, NewClaim)
<1>2. ~last.ended /\ last.claimId = NewClaim
  BY DEF Block
<1>3. /\ Len(new) = Depth(w) + 1 /\ new[Depth(w) + 1] = last
      /\ \A n \in 1 .. Depth(w) : new[n] = old[n]
  BY <1>t, <1>1, AppendProperties
<1> HIDE DEF last
<1>4. \A n \in 1 .. Depth(w) : old[n].claimId \in InUse
  BY BlocksInUse
<1>5. Distinct(threads'[w])
  <2> SUFFICES ASSUME NEW m \in 1 .. Len(new), NEW n \in 1 .. Len(new),
                      new[m].claimId = new[n].claimId
               PROVE  m = n
    BY DEF Distinct
  <2>1. CASE m \in 1 .. Depth(w) /\ n \in 1 .. Depth(w)
    BY <1>t, <1>s, <1>3, <2>1 DEF Distinct
  <2>2. CASE m = Depth(w) + 1 \/ n = Depth(w) + 1
    BY <1>t, <1>1, <1>2, <1>3, <1>4, <2>2
  <2> QED
    BY <1>t, <1>3, <2>1, <2>2
<1>6. EndsEnded(threads'[w])
  BY <1>1 DEF EndsEnded
<1>7. ASSUME NEW n \in 1 .. Len(new), new[n].ended
      PROVE  items'[new[n].uid].claimId # new[n].claimId
  <2>1. n \in 1 .. Depth(w) /\ new[n] = old[n]
    BY <1>t, <1>2, <1>3, <1>7
  <2> QED
    BY <1>s, <1>7, <2>1, LostStaysLost DEF EndedUnheld
<1> QED
  BY <1>5, <1>6, <1>7 DEF EndedUnheld, Depth

LEMMA SettledStep == Inv /\ Settled /\ [Next]_vars => Settled'
<1> SUFFICES ASSUME Inv, Settled, [Next]_vars, NEW w \in Threads
             PROVE  Distinct(threads'[w]) /\ EndsEnded(threads'[w]) /\ EndedUnheld(w)'
  BY DEF Settled
<1>1. Harmless
  BY StepHarmless
<1>2. CASE \E v \in Threads : ThreadNext(v)
  <2>1. PICK v \in Threads : ThreadNext(v)
    BY <1>2
  <2>2. StepOf(v) /\ (Keeps(v) \/ Enters(v))
    BY <2>1, ThreadNextStep
  <2>3. CASE v = w
    BY <1>1, <2>2, <2>3, KeptThreadSettled, EnteredThreadSettled
  <2>4. CASE v # w
    <3>1. threads'[w] = threads[w]
      BY <2>2, <2>4 DEF StepOf, Inv, ThreadsOK
    <3> QED
      BY <1>1, <3>1, KeptThreadSettled
  <2> QED
    BY <2>3, <2>4
<1>3. CASE UNCHANGED threads
  BY <1>1, <1>3, KeptThreadSettled
<1>4. ASSUME NEW p \in Processes, Crash(p)
      PROVE  Distinct(threads'[w]) /\ EndsEnded(threads'[w]) /\ EndedUnheld(w)'
  <2>1. threads'[w] = IF Home[w] = p THEN Outside ELSE threads[w]
    BY <1>4 DEF Crash
  <2>2. CASE threads'[w] = threads[w]
    BY <1>1, <2>2, KeptThreadSettled
  <2>3. CASE threads'[w] = Outside
    <3>1. threads'[w].blocks = <<>> /\ EndsEnded(threads'[w])
      BY <2>3, OutsideState
    <3> QED
      BY <3>1, EmptySeq DEF Distinct, EndedUnheld, Depth
  <2> QED
    BY <2>1, <2>2, <2>3
<1> QED
  BY <1>2, <1>3, <1>4
     DEF Next, ThreadNext, Tick, Add, ByHand, BeginRenewal, WriteRenewal, Restart, vars

LEMMA SettledInit == Init => Settled
<1> SUFFICES ASSUME Init, NEW w \in Threads
             PROVE  Distinct(threads[w]) /\ EndsEnded(threads[w]) /\ EndedUnheld(w)
  BY DEF Settled
<1>1. threads[w].blocks = <<>> /\ EndsEnded(threads[w])
  BY OutsideState DEF Init
<1> QED
  BY <1>1, EmptySeq DEF Distinct, EndedUnheld, Depth

\* Once writes no longer fail, no block is left with its item still held by it, unless its
\* task was stopped at its timeout.
THEOREM BlocksSettleItems == Spec => BlockSettlesItem
<1> DEFINE Step ==
      \A w \in Threads :
        Depth(w)' < Depth(w) /\ now >= FaultsUntil /\ threads[w].raising # Stop =>
          items'[Innermost(w).uid].claimId # Innermost(w).claimId
<1>1. Inv /\ Settled /\ [Next]_vars => Step
  <2> SUFFICES ASSUME Inv, Settled, [Next]_vars, NEW w \in Threads,
                      Depth(w)' < Depth(w), now >= FaultsUntil, threads[w].raising # Stop
               PROVE  items'[Innermost(w).uid].claimId # Innermost(w).claimId
    OBVIOUS
  <2>t. /\ threads[w].blocks \in Seq(BlockType) /\ Depth(w) \in Nat
        /\ now \in Nat
    BY LenProperties DEF Inv, ThreadsOK, ThreadState, Depth, RestOK
  <2>1. CASE \E v \in Threads : ThreadNext(v)
    <3>1. PICK v \in Threads : ThreadNext(v)
      BY <2>1
    <3>2. StepOf(v) /\ (Keeps(v) \/ Enters(v))
      BY <3>1, ThreadNextStep
    <3>3. v = w
      BY <2>t, <3>2 DEF StepOf, Inv, ThreadsOK, Depth
    <3>4. ~Enters(w)
      BY <2>t, AppendProperties DEF Enters, Depth
    <3>5. LeavesSettled(w)
      BY <3>2, <3>3, <3>4 DEF Keeps, Depth
    <3> QED
      BY <3>5 DEF LeavesSettled, Settled
  <2>2. CASE UNCHANGED threads
    BY <2>t, <2>2 DEF Depth
  <2>3. CASE \E p \in Processes : Crash(p)
    BY <2>t, <2>3, TimesAssumption DEF Crash
  <2> QED
    BY <2>1, <2>2, <2>3
       DEF Next, ThreadNext, Tick, Add, ByHand, BeginRenewal, WriteRenewal, Restart, vars
<1>2. Spec => []Settled
  BY AlwaysInv, SettledInit, SettledStep, PTL DEF Spec
<1> QED
  BY <1>1, <1>2, AlwaysInv, PTL DEF Spec, BlockSettlesItem

-----------------------------------------------------------------------------
(* The pile implements Handouts                                            *)

\* A step of the promise, or none.
Kept == [Promise!Next]_(Promise!vars)

Stage(i) == StageOf(items[i], spent[i])

Same(i) == Stage(i)' = Stage(i) /\ spent'[i].times = spent[i].times

LEMMA StageIs ==
  ASSUME NEW doc, NEW count
  PROVE  /\ doc.status = "absent" => StageOf(doc, count) = "none"
         /\ doc.status = "pending" => StageOf(doc, count) = "waiting"
         /\ doc.status = "running" /\ count.latest => StageOf(doc, count) = "handed"
         /\ doc.status = "running" /\ ~count.latest => StageOf(doc, count) = "taken"
         /\ doc.status = "purged" => StageOf(doc, count) = "gone"
         /\ doc.status \in Finished => StageOf(doc, count) = "ended"
         /\ doc.status \in Unfinished => StageOf(doc, count) \in Promise!Open
BY DEF StageOf, Finished, Unfinished, Promise!Open

\* Each step of the promise, from what it makes of the items.
LEMMA Stutter ==
  ASSUME \A i \in Items : Same(i)
  PROVE  Kept
BY DEF Kept, Same, Stage, Promise!vars

LEMMA MapAdd ==
  ASSUME NEW i \in Items, Stage(i) = "none", Stage(i)' = "waiting",
         spent' = spent, \A j \in Items \ {i} : Same(j)
  PROVE  Kept
<1>1. Promise!Add(i)
  BY DEF Promise!Add, Same, Stage
<1> QED
  BY <1>1 DEF Kept, Promise!Next

LEMMA MapHandOut ==
  ASSUME NEW i \in Items, Stage(i) \in Promise!Open, spent[i].times < MaxAttempts,
         Stage(i)' = "handed", spent'[i].times = spent[i].times + 1,
         \A j \in Items \ {i} : Same(j)
  PROVE  Kept
<1>1. Promise!HandOut(i)
  BY DEF Promise!HandOut, Same, Stage
<1> QED
  BY <1>1 DEF Kept, Promise!Next

LEMMA MapTakeAside ==
  ASSUME NEW i \in Items, Stage(i) \in Promise!Open, Stage(i)' = "taken",
         spent'[i].times = spent[i].times, \A j \in Items \ {i} : Same(j)
  PROVE  Kept
<1>1. Promise!TakeAside(i)
  BY DEF Promise!TakeAside, Same, Stage
<1> QED
  BY <1>1 DEF Kept, Promise!Next

LEMMA MapGiveBack ==
  ASSUME NEW i \in Items, Stage(i) \in {"handed", "taken"}, Stage(i)' = "waiting",
         spent'[i].times = IF Stage(i) = "handed" THEN spent[i].times - 1 ELSE spent[i].times,
         \A j \in Items \ {i} : Same(j)
  PROVE  Kept
<1>1. Promise!GiveBack(i)
  BY DEF Promise!GiveBack, Same, Stage
<1> QED
  BY <1>1 DEF Kept, Promise!Next

LEMMA MapPutBack ==
  ASSUME NEW i \in Items, Stage(i) \in {"handed", "taken"}, Stage(i)' = "waiting",
         spent' = spent, \A j \in Items \ {i} : Same(j)
  PROVE  Kept
<1>1. Promise!PutBack(i)
  BY DEF Promise!PutBack, Same, Stage
<1> QED
  BY <1>1 DEF Kept, Promise!Next

LEMMA MapEnd ==
  ASSUME NEW some \in SUBSET Items,
         \A i \in some : Stage(i) \in Promise!Open /\ Stage(i)' = "ended",
         spent' = spent, \A i \in Items \ some : Same(i)
  PROVE  Kept
<1>1. Promise!End(some)
  BY DEF Promise!End, Same, Stage
<1> QED
  BY <1>1 DEF Kept, Promise!Next

LEMMA MapDelete ==
  ASSUME NEW some \in SUBSET Items,
         \A i \in some : Stage(i) = "ended" /\ Stage(i)' = "gone",
         spent' = spent, \A i \in Items \ some : Same(i)
  PROVE  Kept
<1>1. Promise!Delete(some)
  BY DEF Promise!Delete, Same, Stage
<1> QED
  BY <1>1 DEF Kept, Promise!Next

\* The writes of the pile.
LEMMA OthersSame ==
  ASSUME ItemsOK, NEW i \in Items, NEW doc, NEW count,
         items' = [items EXCEPT ![i] = doc], spent' = [spent EXCEPT ![i] = count]
  PROVE  /\ items'[i] = doc /\ spent'[i] = count
         /\ Stage(i)' = StageOf(doc, count)
         /\ \A j \in Items \ {i} : Same(j)
BY DEF ItemsOK, Same, Stage

LEMMA OthersSameUncounted ==
  ASSUME ItemsOK, NEW i \in Items, NEW doc,
         items' = [items EXCEPT ![i] = doc], spent' = spent
  PROVE  /\ items'[i] = doc
         /\ Stage(i)' = StageOf(doc, spent[i])
         /\ \A j \in Items \ {i} : Same(j)
BY DEF ItemsOK, Same, Stage

LEMMA FinishMaps ==
  ASSUME ItemsOK, NEW i \in Items, NEW status \in Finished, items[i].status \in Unfinished,
         items' = [items EXCEPT ![i] = Finish(items[i], status)], spent' = spent
  PROVE  Kept
<1>1. Finish(items[i], status).status = status
  BY DEF Finish, LetGo, ItemsOK, Item
<1>2. Stage(i)' = StageOf(Finish(items[i], status), spent[i]) /\ \A j \in Items \ {i} : Same(j)
  BY OthersSameUncounted
<1>3. Stage(i) \in Promise!Open /\ Stage(i)' = "ended"
  BY <1>1, <1>2, StageIs DEF Stage
<1> DEFINE some == {i}
<1>4. /\ some \in SUBSET Items
      /\ \A j \in some : Stage(j) \in Promise!Open /\ Stage(j)' = "ended"
      /\ \A j \in Items \ some : Same(j)
  BY <1>2, <1>3
<1> HIDE DEF some
<1> QED
  BY <1>4, MapEnd

LEMMA HandBackStatus ==
  ASSUME ItemsOK, NEW i \in Items, NEW delay, NEW returnTry \in BOOLEAN
  PROVE  HandBack(items[i], returnTry, delay).status = "pending"
BY DEF HandBack, LetGo, ItemsOK, Item

LEMMA GiveBackMaps ==
  ASSUME ItemsOK, NEW i \in Items, NEW delay, items[i].status = "running",
         items' = [items EXCEPT ![i] = HandBack(items[i], TRUE, delay)],
         spent' = GivenBack(i)
  PROVE  Kept
<1> DEFINE doc == HandBack(items[i], TRUE, delay)
           count == GivenBackCount(spent[i])
<1>1. doc.status = "pending"
  BY HandBackStatus
<1>2. items' = [items EXCEPT ![i] = doc] /\ spent' = [spent EXCEPT ![i] = count]
  BY DEF GivenBack, GivenBackCount
<1>3. count.times = IF spent[i].latest THEN spent[i].times - 1 ELSE spent[i].times
  BY DEF GivenBackCount
<1> HIDE DEF doc, count
<1>4. /\ Stage(i)' = "waiting" /\ spent'[i].times = count.times
      /\ \A j \in Items \ {i} : Same(j)
  <2>1. /\ Stage(i)' = StageOf(doc, count) /\ spent'[i] = count
        /\ \A j \in Items \ {i} : Same(j)
    BY <1>2, OthersSame
  <2>2. StageOf(doc, count) = "waiting"
    BY <1>1, StageIs
  <2> QED
    BY <2>1, <2>2
<1>5. Stage(i) = IF spent[i].latest THEN "handed" ELSE "taken"
  BY StageIs DEF Stage
<1> QED
  BY <1>3, <1>4, <1>5, MapGiveBack

LEMMA PutBackMaps ==
  ASSUME ItemsOK, NEW i \in Items, items[i].status = "running",
         items' = [items EXCEPT ![i] = HandBack(items[i], FALSE, NoDelay)], spent' = spent
  PROVE  Kept
<1> DEFINE doc == HandBack(items[i], FALSE, NoDelay)
<1>1. doc.status = "pending"
  BY HandBackStatus
<1> HIDE DEF doc
<1>2. Stage(i)' = "waiting" /\ \A j \in Items \ {i} : Same(j)
  <2>1. Stage(i)' = StageOf(doc, spent[i]) /\ \A j \in Items \ {i} : Same(j)
    BY OthersSameUncounted DEF doc
  <2>2. StageOf(doc, spent[i]) = "waiting"
    BY <1>1, StageIs
  <2> QED
    BY <2>1, <2>2
<1>3. Stage(i) \in {"handed", "taken"}
  BY StageIs DEF Stage
<1> QED
  BY <1>2, <1>3, MapPutBack

LEMMA SameStatusMaps ==
  ASSUME spent' = spent, \A i \in Items : items'[i].status = items[i].status
  PROVE  Kept
<1>1. \A i \in Items : Same(i)
  BY DEF Same, Stage, StageOf
<1> QED
  BY <1>1, Stutter

LEMMA RenewMaps ==
  ASSUME ItemsOK, spent' = spent,
         \A i \in Items : items'[i] = items[i] \/ \E at : items'[i] = Renewed(items[i], at, LeaseTime)
  PROVE  Kept
<1>1. \A i \in Items : items'[i].status = items[i].status
  BY DEF Renewed, ItemsOK, Item
<1> QED
  BY <1>1, SameStatusMaps

LEMMA UnwrittenMaps ==
  ASSUME UNCHANGED <<items, spent>>
  PROVE  Kept
BY SameStatusMaps

\* An item taken is handed out with a try, or goes to nobody.
LEMMA TakenRuns ==
  ASSUME Inv, NEW w \in Threads, NEW i \in Items, TakeItem(w, i)
  PROVE  /\ ClaimedItem(items[i], NewClaim, threads[w].at).status = "running"
         /\ Stage(i) \in Promise!Open
         /\ items' = [items EXCEPT ![i] = ClaimedItem(items[i], NewClaim, threads[w].at)]
<1>1. ClaimedItem(items[i], NewClaim, threads[w].at).status = "running"
  BY DEF ClaimedItem, Claimed, Inv, ItemsOK, Item
<1> QED
  BY <1>1, TakeItemFacts, StageIs DEF Stage

LEMMA ClaimMaps ==
  ASSUME Inv, NEW w \in Threads, NEW i \in Items, Claim(w, i)
  PROVE  Kept
<1>t. ItemsOK /\ spent[i].times \in Nat /\ items[i].attempts \in Nat
  BY DEF Inv, ItemsOK, SpentType, Item
<1> DEFINE doc == ClaimedItem(items[i], NewClaim, threads[w].at)
           count == spent'[i]
<1>1. /\ doc.status = "running" /\ Stage(i) \in Promise!Open
      /\ items' = [items EXCEPT ![i] = doc] /\ items[i].status \in Unfinished
  BY TakenRuns, TakeItemFacts DEF Claim
<1>2. spent' = [spent EXCEPT ![i] = count] /\ count.times = spent[i].times + 1 /\ count.latest
  <2>1. spent' = [spent EXCEPT ![i].times = spent[i].times + 1, ![i].latest = TRUE]
    BY DEF Claim
  <2> QED
    BY <1>t, <2>1, CountsUp DEF ItemsOK
<1>3. spent[i].times < MaxAttempts
  <2>1. items[i].attempts < MaxAttempts /\ spent[i].times <= items[i].attempts
    BY <1>t, <1>1 DEF Claim, HasTry, ItemsOK, Counts
  <2> QED
    BY <1>t, <2>1, TriesAssumption
<1> HIDE DEF doc
<1> HIDE DEF count
<1>4. /\ Stage(i)' = "handed" /\ spent'[i] = count
      /\ \A j \in Items \ {i} : Same(j)
  <2>1. /\ Stage(i)' = StageOf(doc, count) /\ spent'[i] = count
        /\ \A j \in Items \ {i} : Same(j)
    BY <1>t, <1>1, <1>2, OthersSame
  <2>2. StageOf(doc, count) = "handed"
    BY <1>1, <1>2, StageIs
  <2> QED
    BY <2>1, <2>2
<1> QED
  BY <1>1, <1>2, <1>3, <1>4, MapHandOut

LEMMA UncountedMaps ==
  ASSUME Inv, NEW w \in Threads, NEW i \in Items, TakeItem(w, i), NEW count,
         spent' = [spent EXCEPT ![i] = count], count.times = spent[i].times, ~count.latest
  PROVE  Kept
<1>t. ItemsOK
  BY DEF Inv
<1> DEFINE doc == ClaimedItem(items[i], NewClaim, threads[w].at)
<1>1. /\ doc.status = "running" /\ Stage(i) \in Promise!Open
      /\ items' = [items EXCEPT ![i] = doc]
  BY TakenRuns
<1> HIDE DEF doc
<1>2. /\ Stage(i)' = StageOf(doc, count) /\ spent'[i] = count
      /\ \A j \in Items \ {i} : Same(j)
  BY <1>t, <1>1, OthersSame
<1>3. StageOf(doc, count) = "taken"
  BY <1>1, StageIs
<1> QED
  BY <1>1, <1>2, <1>3, MapTakeAside

LEMMA TakeAsideMaps ==
  ASSUME Inv, NEW w \in Threads, NEW i \in Items, TakeItem(w, i),
         spent' = [spent EXCEPT ![i].latest = FALSE]
  PROVE  Kept
<1>1. /\ spent' = [spent EXCEPT ![i] = spent'[i]]
      /\ spent'[i].times = spent[i].times /\ ~spent'[i].latest
  BY NotCounted DEF Inv, ItemsOK
<1> QED
  BY <1>1, UncountedMaps

\* What a thread writes for a block it is in, or for an item it gives up.
LEMMA GiveUpMaps ==
  ASSUME Inv, NEW w \in Threads, GiveUp(w)
  PROVE  Kept
<1> DEFINE i == threads[w].given[1]
           id == threads[w].given[2]
<1>1. /\ items' = IF Matches(i, id) THEN [items EXCEPT ![i] = Finish(items[i], "failed")] ELSE items
      /\ threads[w].step = "givingUp" /\ spent' = spent
  BY DEF GiveUp, At
<1>2. i \in Items /\ id \in RealClaims
  BY <1>1 DEF Inv, ThreadsOK, Shaped
<1>3. ItemsOK /\ "failed" \in Finished
  BY DEF Inv, Finished
<1> HIDE DEF i, id
<1>4. CASE Matches(i, id)
  <2>1. items[i].status \in Unfinished
    BY <1>2, <1>3, <1>4, MatchedRuns DEF Unfinished
  <2> QED
    BY <1>1, <1>2, <1>3, <1>4, <2>1, FinishMaps
<1>5. CASE ~Matches(i, id)
  BY <1>1, <1>5, UnwrittenMaps
<1> QED
  BY <1>4, <1>5

LEMMA EndBlockMaps ==
  ASSUME Inv, NEW w \in Threads, NEW n \in 1 .. Depth(w), NEW outcome \in {"done", "failed"},
         EndBlock(w, n, outcome)
  PROVE  Kept
<1> DEFINE b == threads[w].blocks[n]
<1>1. b.uid \in Items /\ b.claimId \in RealClaims
  BY BlocksAre DEF Inv
<1>2. ItemsOK /\ outcome \in Finished
  BY DEF Inv, Finished
<1>3. /\ items' = IF Matches(b.uid, b.claimId)
                  THEN [items EXCEPT ![b.uid] = Finish(items[b.uid], outcome)] ELSE items
      /\ spent' = spent
  BY DEF EndBlock
<1> HIDE DEF b
<1>4. CASE Matches(b.uid, b.claimId)
  <2>1. items[b.uid].status \in Unfinished
    BY <1>1, <1>2, <1>4, MatchedRuns DEF Unfinished
  <2> QED
    BY <1>1, <1>2, <1>3, <1>4, <2>1, FinishMaps
<1>5. CASE ~Matches(b.uid, b.claimId)
  BY <1>3, <1>5, UnwrittenMaps
<1> QED
  BY <1>4, <1>5

LEMMA ReleaseBlockMaps ==
  ASSUME Inv, NEW w \in Threads, NEW n \in 1 .. Depth(w), NEW delay \in Delays,
         ReleaseBlock(w, n, delay)
  PROVE  Kept
<1> DEFINE b == threads[w].blocks[n]
           mine == Matches(b.uid, b.claimId) /\ items[b.uid].status = "running"
<1>1. b.uid \in Items /\ ItemsOK
  BY BlocksAre DEF Inv
<1>2. /\ items' = IF mine THEN [items EXCEPT ![b.uid] = HandBack(items[b.uid], TRUE, delay)] ELSE items
      /\ spent' = IF mine THEN GivenBack(b.uid) ELSE spent
  BY DEF ReleaseBlock
<1>3. mine => items[b.uid].status = "running"
  OBVIOUS
<1> HIDE DEF b, mine
<1>4. CASE mine
  BY <1>1, <1>2, <1>3, <1>4, GiveBackMaps
<1>5. CASE ~mine
  BY <1>2, <1>5, UnwrittenMaps
<1> QED
  BY <1>4, <1>5

LEMMA ConfirmMaps ==
  ASSUME Inv, NEW w \in Threads, NEW n \in 1 .. Depth(w), Confirm(w, n)
  PROVE  Kept
<1> DEFINE b == threads[w].blocks[n]
           mine == Matches(b.uid, b.claimId) /\ items[b.uid].status = "running"
<1>1. b.uid \in Items /\ ItemsOK
  BY BlocksAre DEF Inv
<1>2. /\ items' = IF mine THEN [items EXCEPT ![b.uid] = Renewed(items[b.uid], now, LeaseTime)] ELSE items
      /\ spent' = spent
  BY DEF Confirm
<1> HIDE DEF b, mine
<1>3. \A i \in Items : items'[i] = items[i] \/ \E at : items'[i] = Renewed(items[i], at, LeaseTime)
  BY <1>1, <1>2 DEF ItemsOK
<1> QED
  BY <1>1, <1>2, <1>3, RenewMaps

LEMMA ClosedMaps ==
  ASSUME Inv, NEW w \in Threads, NEW n \in 1 .. Depth(w), NEW doc,
         LET b == threads[w].blocks[n]
         IN  /\ doc \in {Finish(items[b.uid], "done"), Finish(items[b.uid], "failed"),
                         HandBack(items[b.uid], FALSE, NoDelay)}
             /\ items' = Closed(b, doc),
         spent' = spent
  PROVE  Kept
<1> DEFINE b == threads[w].blocks[n]
<1>1. b.uid \in Items /\ b.claimId \in RealClaims
  BY BlocksAre DEF Inv
<1>2. ItemsOK /\ "done" \in Finished /\ "failed" \in Finished
  BY DEF Inv, Finished
<1>3. CASE ~b.ended /\ Matches(b.uid, b.claimId)
  <2>1. items' = [items EXCEPT ![b.uid] = doc]
    BY <1>3 DEF Closed
  <2>2. items[b.uid].status = "running" /\ items[b.uid].status \in Unfinished
    BY <1>1, <1>2, <1>3, MatchedRuns DEF Unfinished
  <2> HIDE DEF b
  <2>3. CASE \E status \in Finished : doc = Finish(items[b.uid], status)
    BY <1>1, <1>2, <2>1, <2>2, <2>3, FinishMaps
  <2>4. CASE doc = HandBack(items[b.uid], FALSE, NoDelay)
    BY <1>1, <1>2, <2>1, <2>2, <2>4, PutBackMaps
  <2> QED
    BY <1>2, <2>3, <2>4 DEF b
<1>4. CASE ~(~b.ended /\ Matches(b.uid, b.claimId))
  BY <1>4, UnwrittenMaps DEF Closed
<1> QED
  BY <1>3, <1>4

LEMMA EnteringMaps ==
  ASSUME Inv, NEW w \in Threads, Entering(w)
  PROVE  Kept
<1>1. ASSUME EnterBlock(w) \/ FindNothing(w)
      PROVE  Kept
  BY <1>1, UnwrittenMaps DEF EnterBlock, FindNothing
<1>2. ASSUME NEW i \in Items, Claim(w, i)
      PROVE  Kept
  BY <1>2, ClaimMaps
<1>3. ASSUME NEW i \in Items, ClaimSpent(w, i)
      PROVE  Kept
  BY <1>3, TakeAsideMaps DEF ClaimSpent
<1> QED
  BY <1>1, <1>2, <1>3, GiveUpMaps DEF Entering

LEMMA WorkingMaps ==
  ASSUME Inv, NEW w \in Threads, Working(w)
  PROVE  Kept
<1>1. ASSUME NEW n \in 1 .. Depth(w), NEW outcome \in {"done", "failed"}, EndBlock(w, n, outcome)
      PROVE  Kept
  BY <1>1, EndBlockMaps
<1>2. ASSUME NEW n \in 1 .. Depth(w), NEW delay \in Delays, ReleaseBlock(w, n, delay)
      PROVE  Kept
  BY <1>2, ReleaseBlockMaps
<1>3. ASSUME NEW n \in 1 .. Depth(w), Confirm(w, n)
      PROVE  Kept
  BY <1>3, ConfirmMaps
<1>4. ASSUME Raise(w) \/ Swallow(w)
      PROVE  Kept
  BY <1>4, UnwrittenMaps DEF Raise, Swallow
<1> QED
  BY <1>1, <1>2, <1>3, <1>4 DEF Working

LEMMA LeavingMaps ==
  ASSUME Inv, NEW w \in Threads, ReachEnd(w) \/ Leaving(w)
  PROVE  Kept
<1>1. ASSUME EndHere(w) \/ DropBlock(w)
      PROVE  Kept
  BY <1>1, UnwrittenMaps DEF EndHere, DropBlock
<1>2. CASE ReachEnd(w)
  <2>1. /\ Depth(w) > 0 /\ spent' = spent
        /\ items' = Closed(Innermost(w), Finish(items[Innermost(w).uid], "done"))
    BY <1>2 DEF ReachEnd
  <2>2. Depth(w) \in 1 .. Depth(w)
    BY <2>1, LenProperties DEF Inv, ThreadsOK, ThreadState, Depth
  <2> QED
    BY <2>1, <2>2, ClosedMaps DEF Innermost
<1>3. CASE PassEnd(w) \/ FailBlock(w)
  <2>1. /\ threads[w].step = "unwinding" /\ spent' = spent
        /\ \/ items' = Closed(Innermost(w), Finish(items[Innermost(w).uid], "failed"))
           \/ items' = Closed(Innermost(w), HandBack(items[Innermost(w).uid], FALSE, NoDelay))
    BY <1>3 DEF PassEnd, FailBlock, At
  <2>2. Depth(w) \in 1 .. Depth(w)
    BY <2>1, UnwindingDepth
  <2> QED
    BY <2>1, <2>2, ClosedMaps DEF Innermost
<1> QED
  BY <1>1, <1>2, <1>3 DEF Leaving

LEMMA FailingMaps ==
  ASSUME Inv, NEW w \in Threads, Failing(w)
  PROVE  Kept
<1>1. ASSUME NEW i \in Items, ClaimUnheard(w, i)
      PROVE  Kept
  BY <1>1, TakeAsideMaps DEF ClaimUnheard
<1>2. ASSUME TimeOut(w) \/ StopArrives(w) \/ CloseFails(w)
      PROVE  Kept
  BY <1>2, UnwrittenMaps DEF TimeOut, StopArrives, CloseFails
<1> QED
  BY <1>1, <1>2 DEF Failing

\* By hand.
LEMMA CancelMaps ==
  ASSUME Inv, NEW picked \in SUBSET Items, Cancel(picked)
  PROVE  Kept
<1> DEFINE some == {i \in picked : NotStarted(items[i], now)}
<1>t. ItemsOK
  BY DEF Inv
<1>1. /\ items' = [i \in Items |-> IF i \in picked /\ NotStarted(items[i], now)
                                   THEN Canceled(items[i], now) ELSE items[i]]
      /\ spent' = spent
  BY DEF Cancel
<1>2. some \in SUBSET Items
  OBVIOUS
<1>3. ASSUME NEW i \in some
      PROVE  Stage(i) \in Promise!Open /\ Stage(i)' = "ended"
  <2>1. i \in Items /\ items[i].status \in Unfinished /\ items'[i] = Canceled(items[i], now)
    BY <1>1 DEF NotStarted, Unfinished
  <2>2. items'[i].status = "canceled" /\ "canceled" \in Finished
    BY <1>t, <2>1 DEF Canceled, LetGo, ItemsOK, Item, Finished
  <2> QED
    BY <2>1, <2>2, StageIs DEF Stage
<1>4. ASSUME NEW i \in Items \ some
      PROVE  Same(i)
  <2>1. items'[i] = items[i]
    BY <1>1
  <2> QED
    BY <1>1, <2>1 DEF Same, Stage
<1> HIDE DEF some
<1> QED
  BY <1>1, <1>2, <1>3, <1>4, MapEnd

LEMMA PurgeMaps ==
  ASSUME Inv, NEW statuses \in PurgeStatuses, Purge(statuses)
  PROVE  Kept
<1> DEFINE gone == {i \in Items : items[i].status \in statuses}
<1>1. /\ statuses \subseteq Finished /\ spent' = spent
      /\ items' = [i \in Items |-> IF i \in gone THEN Deleted ELSE items[i]]
  BY DEF Purge
<1>2. gone \in SUBSET Items /\ Deleted.status = "purged"
  BY DEF Deleted, Absent
<1>3. ASSUME NEW i \in gone
      PROVE  Stage(i) = "ended" /\ Stage(i)' = "gone"
  <2>1. items[i].status \in Finished /\ items'[i] = Deleted
    BY <1>1
  <2> QED
    BY <1>2, <2>1, StageIs DEF Stage
<1>4. ASSUME NEW i \in Items \ gone
      PROVE  Same(i)
  <2>1. items'[i] = items[i]
    BY <1>1
  <2> QED
    BY <1>1, <2>1 DEF Same, Stage
<1> HIDE DEF gone
<1> QED
  BY <1>1, <1>2, <1>3, <1>4, MapDelete

LEMMA ByHandMaps ==
  ASSUME Inv, ByHand
  PROVE  Kept
<1>t. ItemsOK
  BY DEF Inv
<1>1. ASSUME NEW i \in Items, NEW status \in {"done", "failed"}, FinishByHand(i, status)
      PROVE  Kept
  BY <1>t, <1>1, FinishMaps DEF FinishByHand, Finished
<1>2. ASSUME NEW i \in Items, NEW delay \in Delays, ReleaseByHand(i, delay)
      PROVE  Kept
  BY <1>t, <1>2, GiveBackMaps DEF ReleaseByHand
<1>3. ASSUME NEW i \in Items, RenewByHand(i)
      PROVE  Kept
  <2>1. items' = [items EXCEPT ![i] = Renewed(items[i], now, LeaseTime)] /\ spent' = spent
    BY <1>3 DEF RenewByHand
  <2>2. \A j \in Items : items'[j] = items[j] \/ \E at : items'[j] = Renewed(items[j], at, LeaseTime)
    BY <1>t, <2>1 DEF ItemsOK
  <2> QED
    BY <1>t, <2>1, <2>2, RenewMaps
<1> QED
  BY <1>1, <1>2, <1>3, CancelMaps, PurgeMaps DEF ByHand

LEMMA NextMaps ==
  ASSUME Inv, [Next]_vars
  PROVE  Kept
<1>t. ItemsOK
  BY DEF Inv
<1>1. ASSUME NEW i \in Items, Add(i)
      PROVE  Kept
  <2>1. /\ items[i].status = "absent" /\ items' = [items EXCEPT ![i] = NewItem]
        /\ spent' = spent
    BY <1>1 DEF Add
  <2>2. NewItem.status = "pending"
    BY DEF NewItem, Absent
  <2>3. Stage(i)' = StageOf(NewItem, spent[i]) /\ \A j \in Items \ {i} : Same(j)
    BY <1>t, <2>1, OthersSameUncounted
  <2>4. Stage(i) = "none" /\ StageOf(NewItem, spent[i]) = "waiting"
    BY <2>1, <2>2, StageIs DEF Stage
  <2> QED
    BY <2>1, <2>3, <2>4, MapAdd
<1>2. ASSUME NEW w \in Threads, ThreadNext(w)
      PROVE  Kept
  BY <1>2, EnteringMaps, WorkingMaps, LeavingMaps, FailingMaps DEF ThreadNext
<1>3. ASSUME NEW p \in Processes, WriteRenewal(p)
      PROVE  Kept
  <2>1. PICK at : items' = RenewHeld(items, renewal[p].claims, at, LeaseTime) /\ spent' = spent
    BY <1>3 DEF WriteRenewal
  <2>2. \A i \in Items : items'[i] = items[i] \/ items'[i] = Renewed(items[i], at, LeaseTime)
    BY <1>t, <2>1 DEF RenewHeld, ItemsOK
  <2> QED
    BY <1>t, <2>1, <2>2, RenewMaps
<1>4. ASSUME UNCHANGED <<items, spent>>
      PROVE  Kept
  BY <1>4, UnwrittenMaps
<1> QED
  BY <1>1, <1>2, <1>3, <1>4, ByHandMaps
     DEF Next, ThreadNext, Tick, BeginRenewal, Crash, Restart, vars

LEMMA InitMaps == Init => Promise!Init
<1> SUFFICES ASSUME Init PROVE Promise!Init
  OBVIOUS
<1>1. \A i \in Items : items[i].status = "absent" /\ spent[i].times = 0
  BY DEF Init, Absent
<1>2. \A i \in Items : StageOf(items[i], spent[i]) = "none"
  BY <1>1 DEF StageOf
<1> QED
  BY <1>1, <1>2 DEF Promise!Init

\* Whatever leases, claims, blocks, threads and crashes do, adding, working and
\* finishing items looks to whoever adds them as Handouts says: handed out MaxAttempts
\* times at most, given back or put back, ended once, deleted only when ended.
THEOREM PileImplementsHandouts == Spec => ImplementsHandouts
<1>1. Inv /\ [Next]_vars => [Promise!Next]_(Promise!vars)
  BY NextMaps DEF Kept
<1> QED
  BY <1>1, InitMaps, AlwaysInv, PTL DEF Spec, ImplementsHandouts, Promise!Spec
=============================================================================
