-------------------------------- MODULE Fleet --------------------------------
(***************************************************************************)
(* src/src/pymonque/versions.py, Registry: the worker processes of an app, *)
(* of one version or another, as they see each other in the collection     *)
(* they check in to.  A process verifies that no live one runs another     *)
(* version, then registers, and beats until its work has drained; one that *)
(* stops beating goes stale and no longer counts.                          *)
(*                                                                         *)
(* Lifecycle has the inside of one process.  Here a process is             *)
(*   off        not running workers                                        *)
(*   verified   it found no live process of another version, or its app    *)
(*              does not look for one                                      *)
(*   on         it is registered, and works                                *)
(*   draining   it was asked to stop; its work in flight goes on           *)
(*   leftover   stopWorkers() timed out; it is checked out and still works *)
(*   dead       it died, and left its record                               *)
(* Every process has a heartbeatInterval and a workerStaleAfter of its     *)
(* own.  Interval is the longest of the first and StaleAfter the shortest  *)
(* of the second: to beat more often, or to be forgotten later, only keeps *)
(* a process live for longer.                                              *)
(***************************************************************************)
EXTENDS Integers, FiniteSets

CONSTANTS
  Processes,     \* worker processes, each with a uid of its own
  VersionOf,     \* process -> the fingerprint of its code
  Unchecked,     \* those whose app may be built with enforceVersion=False
  Interval,      \* ticks between two beats
  StaleAfter,    \* ticks after which a record no longer counts
  Ages,          \* ages cleanupFinished() is run with
  MaxTime,       \* bound: ticks
  FaultsUntil    \* bound: the last tick at which processes die or are cut off

ASSUME VersionsAssumption == DOMAIN VersionOf = Processes /\ Unchecked \subseteq Processes
\* That a process beats before it goes stale is up to who runs it: nothing checks
\* heartbeatInterval against workerStaleAfter.
ASSUME BeatsAssumption ==
  Interval \in Nat \ {0} /\ StaleAfter \in Nat /\ Interval <= StaleAfter
ASSUME FleetBoundsAssumption == Ages \subseteq Nat /\ MaxTime \in Nat /\ FaultsUntil \in Int

VARIABLES
  now,           \* the clock of the database server
  state,         \* process -> where it is
  records,       \* process -> lastSeen of its record, or Gone
  cutOff,        \* processes that are frozen, or cannot reach the database
  beatAt,        \* process -> when it last beat, whether there was a record or not
  raced,         \* pairs of which one was not looked for by the other (history)
  unseen         \* processes that worked without counting as live (history)

fleetVars == <<now, state, records, cutOff, beatAt, raced, unseen>>

-----------------------------------------------------------------------------
Gone == -1       \* the lastSeen of no record

FleetInit ==
  /\ now = 0
  /\ state = [p \in Processes |-> "off"]
  /\ records = [p \in Processes |-> Gone]
  /\ cutOff = {}
  /\ beatAt = [p \in Processes |-> 0]
  /\ raced = {} /\ unseen = {}

Working(p) == state[p] \in {"on", "draining", "leftover"}

Beats(p) == state[p] \in {"on", "draining"}

\* live(): the processes that have checked in recently.
Live == {p \in Processes : records[p] # Gone /\ records[p] >= now - StaleAfter}

Mixed(p, q) == VersionOf[p] # VersionOf[q]

\* Mutant of Conflicts: a process being stopped does not count.
ConflictsOn(p) == {q \in Live : Mixed(p, q) /\ state[q] # "draining"}

Conflicts(p) == {q \in Live : Mixed(p, q)}

\* verify() in init(), which raises if a live process runs another version, and
\* does not see one that has yet to register.
Verify(p) ==
  /\ state[p] = "off"
  /\ Conflicts(p) = {}
  /\ state' = [state EXCEPT ![p] = "verified"]
  /\ raced' = raced \cup {{p, q} : q \in {r \in Processes : state[r] = "verified"}}
  /\ UNCHANGED <<now, records, cutOff, beatAt, unseen>>

\* init() with enforceVersion=False, which sees nobody.
SkipVerify(p) ==
  /\ p \in Unchecked
  /\ state[p] = "off"
  /\ state' = [state EXCEPT ![p] = "verified"]
  /\ raced' = raced \cup {{p, q} : q \in {r \in Processes : state[r] = "verified" \/ Working(r)}}
  /\ UNCHANGED <<now, records, cutOff, beatAt, unseen>>

\* The housekeeping after verify() raises, or the process ends there.
GiveUpStart(p) ==
  /\ state[p] = "verified"
  /\ state' = [state EXCEPT ![p] = "off"]
  /\ raced' = {pair \in raced : p \notin pair}
  /\ UNCHANGED <<now, records, cutOff, beatAt, unseen>>

\* register() and, soon after, the first beat.
Register(p) ==
  /\ state[p] = "verified"
  /\ state' = [state EXCEPT ![p] = "on"]
  /\ records' = [records EXCEPT ![p] = now]
  /\ beatAt' = [beatAt EXCEPT ![p] = now]
  /\ UNCHANGED <<now, cutOff, raced, unseen>>

\* beat() updates the record of the process, if there is one.
Beat(p) ==
  /\ Beats(p)
  /\ p \notin cutOff
  /\ beatAt[p] # now
  /\ beatAt' = [beatAt EXCEPT ![p] = now]
  /\ records' = [records EXCEPT ![p] = IF @ = Gone THEN Gone ELSE now]
  /\ UNCHANGED <<now, state, cutOff, raced, unseen>>

RequestStop(p) ==
  /\ state[p] = "on"
  /\ state' = [state EXCEPT ![p] = "draining"]
  /\ UNCHANGED <<now, records, cutOff, beatAt, raced, unseen>>

\* deregister(), once the work has drained; a failure of it is logged.
CheckOut(p) ==
  /\ state[p] = "draining"
  /\ state' = [state EXCEPT ![p] = "off"]
  /\ records' \in {records, [records EXCEPT ![p] = Gone]}
  /\ p \in cutOff => records' = records
  /\ cutOff' = cutOff \ {p}
  /\ raced' = {pair \in raced : p \notin pair}
  /\ unseen' = unseen \ {p}
  /\ UNCHANGED <<now, beatAt>>

\* The timeout of stopWorkers() ran out: checked out all the same.
CheckOutBusy(p) ==
  /\ state[p] = "draining"
  /\ p \notin cutOff
  /\ state' = [state EXCEPT ![p] = "leftover"]
  /\ records' = [records EXCEPT ![p] = Gone]
  /\ unseen' = unseen \cup {p}
  /\ UNCHANGED <<now, cutOff, beatAt, raced>>

EndLeftover(p) ==
  /\ state[p] = "leftover"
  /\ state' = [state EXCEPT ![p] = "off"]
  /\ raced' = {pair \in raced : p \notin pair}
  /\ unseen' = unseen \ {p}
  /\ UNCHANGED <<now, records, cutOff, beatAt>>

\* Mutant of Forgettable: cleanupFinished() takes its age as it is given.
AnyOlder(age) == {q \in Processes : records[q] # Gone /\ records[q] < now - age}

\* forgetGone() deletes what is older than the age, and staleAfter at least.
Forgettable(age) ==
  LET older == IF age < StaleAfter THEN StaleAfter ELSE age
  IN  {q \in Processes : records[q] # Gone /\ records[q] < now - older}

\* cleanupFinished(), run by a worker of `p`.
ForgetGone(p) ==
  /\ Working(p) /\ p \notin cutOff
  /\ \E age \in Ages :
       /\ Forgettable(age) # {}
       /\ records' = [q \in Processes |-> IF q \in Forgettable(age) THEN Gone ELSE records[q]]
  /\ UNCHANGED <<now, state, cutOff, beatAt, raced, unseen>>

-----------------------------------------------------------------------------
(* Faults                                                                  *)

Crash(p) ==
  /\ now <= FaultsUntil
  /\ state[p] \notin {"off", "dead"}
  /\ state' = [state EXCEPT ![p] = "dead"]
  /\ cutOff' = cutOff \ {p}
  /\ UNCHANGED <<now, records, beatAt, raced, unseen>>

\* Frozen, or without the database; the work in flight may go on.
CutOff(p) ==
  /\ now <= FaultsUntil
  /\ Beats(p) /\ p \notin cutOff
  /\ cutOff' = cutOff \cup {p}
  /\ UNCHANGED <<now, state, records, beatAt, raced, unseen>>

Resume(p) ==
  /\ p \in cutOff
  /\ cutOff' = cutOff \ {p}
  /\ UNCHANGED <<now, state, records, beatAt, raced, unseen>>

\* The heartbeats of processes that are not cut off are on time.
Tick ==
  /\ now < MaxTime
  /\ \A p \in Processes : Beats(p) /\ p \notin cutOff => now < beatAt[p] + Interval
  /\ now' = now + 1
  /\ unseen' = unseen \cup {p \in cutOff : beatAt[p] < now + 1 - StaleAfter}
  /\ UNCHANGED <<state, records, cutOff, beatAt, raced>>

-----------------------------------------------------------------------------
Process(p) ==
  \/ Verify(p) \/ SkipVerify(p) \/ GiveUpStart(p) \/ Register(p) \/ Beat(p)
  \/ RequestStop(p) \/ CheckOut(p) \/ CheckOutBusy(p) \/ EndLeftover(p) \/ ForgetGone(p)

Fault(p) == Crash(p) \/ CutOff(p) \/ Resume(p)

FleetNext == Tick \/ \E p \in Processes : Process(p) \/ Fault(p)

FleetSpec == FleetInit /\ [][FleetNext]_fleetVars

-----------------------------------------------------------------------------
(* Properties                                                              *)

\* Every variable has its type.
FleetTypeOK ==
  /\ now \in 0..MaxTime
  /\ state \in [Processes -> {"off", "verified", "on", "draining", "leftover", "dead"}]
  /\ records \in [Processes -> 0..MaxTime \cup {Gone}]
  /\ cutOff \subseteq {p \in Processes : Beats(p)}
  /\ beatAt \in [Processes -> 0..MaxTime]
  /\ \A pair \in raced : pair \subseteq Processes
  /\ unseen \subseteq Processes

\* "Only one version may run at a time" (verify()): two processes of different
\* versions work at once only if neither had registered when the other verified,
\* or the one that came later was told not to verify, or one of them worked unseen:
\* cut off for longer than staleAfter, or checked out by a stop that timed out.
\* All are known (reference.md:863, 1063-1082); none comes from a stop, a crash, a
\* restart or the cleanup.
MixedOnlyUnseen ==
  \A p, q \in Processes :
    Working(p) /\ Working(q) /\ Mixed(p, q) => {p, q} \in raced \/ {p, q} \cap unseen # {}

\* A process that beats counts as live, in time and for as long as its work drains,
\* whatever the cleanup deletes: all but one whose record was deleted while it was
\* cut off, which no beat writes again.
BeatingIsSeen ==
  \A p \in Processes :
    Beats(p) /\ now <= beatAt[p] + Interval =>
      p \in Live \/ (records[p] = Gone /\ p \in unseen)

=============================================================================
