------------------------------- MODULE Claims -------------------------------
(***************************************************************************)
(* src/src/pymonque/claims.py: the leases every engine works its documents *)
(* under.  A document of work is a record with at least the fields status, *)
(* claimId, leaseUntil and finishedAt; times are ticks of one clock, which *)
(* syncClock() gives every process.                                        *)
(*                                                                         *)
(* The driver applies one update to one document atomically, so each of    *)
(* the writes below is an operator from the document found to the document *)
(* left.  claimId is a uuid in the code; here it is a number that names no  *)
(* other claim, and NoClaim is the code's None.                             *)
(***************************************************************************)
EXTENDS Integers

NoClaim == 0

NoTime == -1      \* claimedAt and finishedAt before they are written

\* The lease of `doc` has run out at `at`.  A waiting document's lease is its
\* due time, so the same test says that it is due.
Lapsed(doc, at) == doc.leaseUntil <= at

\* claimNext's filter and sort: those of `where` whose lease ran out first.
NextDue(docs, where, at) ==
  LET due == {t \in where : Lapsed(docs[t], at)}
  IN  {t \in due : \A u \in due : docs[t].leaseUntil <= docs[u].leaseUntil}

\* What claimNext writes beside the engine's own `fields`.
Claimed(doc, id, at, leaseTime) ==
  [doc EXCEPT !.claimId = id, !.leaseUntil = at + leaseTime]

\* writeClaimed's filter: the claim still holds the document.
HeldBy(doc, id) == doc.claimId = id

\* What writeClaimed writes beside the outcome: the document is let go.
LetGo(doc) == [doc EXCEPT !.claimId = NoClaim]

\* What a renewal writes, and renew()'s one update of every document one of
\* `claims` still holds.
Renewed(doc, at, leaseTime) == [doc EXCEPT !.leaseUntil = at + leaseTime]

RenewHeld(docs, claims, at, leaseTime) ==
  [t \in DOMAIN docs |-> IF docs[t].claimId \in claims
                         THEN Renewed(docs[t], at, leaseTime)
                         ELSE docs[t]]

\* Mutant of NotStarted: work is canceled whether or not its lease ran out.
NotStartedNorFinished(doc, at) == doc.status \in {"pending", "running"}

\* Work nobody is running: waiting, or held by a worker that stopped renewing.
NotStarted(doc, at) ==
  \/ doc.status = "pending"
  \/ doc.status = "running" /\ Lapsed(doc, at)

\* The write that cancels work; the claimId goes with it.
Canceled(doc, at) ==
  [LetGo(doc) EXCEPT !.status = "canceled", !.finishedAt = at]

\* endedBefore: finished in one of `statuses` before `cutoff`.
EndedBefore(doc, statuses, cutoff) ==
  doc.status \in statuses /\ doc.finishedAt < cutoff
=============================================================================
