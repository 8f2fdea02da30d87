------------------------------- MODULE Upgrade -------------------------------
(***************************************************************************)
(* src/src/pymonque/migrations.py, upgradeFrom2: the documents of a 2.0    *)
(* app brought up to this version by an operator, beside the Fleet whose   *)
(* processes must all be gone.  It renames collections and rewrites        *)
(* documents in several calls, may die between any two of them, and is run *)
(* again.                                                                  *)
(*                                                                         *)
(* A collection of 2.0 is at its old name or at that of its engine.  One   *)
(* document stands for all that have its status, as all of them are        *)
(* rewritten the same way.                                                 *)
(***************************************************************************)
EXTENDS Fleet, Sequences

CONSTANTS
  MaxUpgrades    \* bound: times the upgrade is run

ASSUME UpgradesAssumption == MaxUpgrades \in Nat

VARIABLES
  up,            \* the call upgradeFrom2 makes next; 0 if it is not running
  counted,       \* the engine's collection was counted empty, for a rename
  old,           \* the collections still at their old name
  statuses,      \* document -> its status
  attempts,      \* whether tasks still have 2.0's attempts
  fresh,         \* those of `old` whose engine's collection has documents
  hurried,       \* ... written between the count and the rename (history)
  lost,          \* ... dropped by the rename (history)
  upgrades       \* times the upgrade was run

docVars == <<old, statuses, attempts, fresh, hurried, lost>>
upVars == <<up, counted, upgrades, docVars>>
vars == <<fleetVars, upVars>>

-----------------------------------------------------------------------------
\* The documents of 2.0, by what they are and the status they have.
Ended == <<"tasks", "success">>
Claimed == <<"tasks", "processing">>
Waiting == <<"tasks", "pending">>
Item == <<"items", "claimed">>
Docs == {Ended, Claimed, Waiting, Item}

\* TASK_STATUSES and ITEM_STATUSES: the word of this version for one of 2.0.
NewWord(status) ==
  CASE status = "success" -> "done"
    [] status \in {"processing", "claimed"} -> "running"
    [] OTHER -> status

Renames == {"schedulers", "tasks"}

\* Mutant of Calls: statuses are rewritten before the tasks are moved.
StatusesFirst ==
  <<"schedulers", "success", "processing", "tasks", "attempts", "claimed">>

\* The calls of upgradeFrom2, in their order.
Calls ==
  <<"schedulers", "tasks", "success", "processing", "attempts", "claimed">>

Init ==
  /\ FleetInit
  /\ up = 0 /\ counted = FALSE /\ upgrades = 0
  /\ old = Renames
  /\ statuses = [d \in Docs |-> d[2]]
  /\ attempts = TRUE
  /\ fresh = {} /\ hurried = {} /\ lost = {}

Does(call) == up \in DOMAIN Calls /\ Calls[up] = call

\* upgradeFrom2 is refused while any process is live, of any version.
BeginUpgrade ==
  /\ up = 0 /\ upgrades < MaxUpgrades
  /\ Live = {}
  /\ up' = 1
  /\ upgrades' = upgrades + 1
  /\ UNCHANGED <<counted, docVars, fleetVars>>

\* _rename finds nothing to move ...
Skip(c) ==
  /\ Does(c) /\ c \notin old
  /\ up' = up + 1
  /\ UNCHANGED <<counted, upgrades, docVars, fleetVars>>

\* ... or documents in the engine's collection, which end the upgrade ...
Refuse(c) ==
  /\ Does(c) /\ c \in old /\ ~counted /\ c \in fresh
  /\ up' = 0
  /\ UNCHANGED <<counted, upgrades, docVars, fleetVars>>

\* ... or counts none there ...
Count(c) ==
  /\ Does(c) /\ c \in old /\ ~counted /\ c \notin fresh
  /\ counted' = TRUE
  /\ UNCHANGED <<up, upgrades, docVars, fleetVars>>

\* Mutant of Left: the engine's collection keeps its documents.
LeftThere(c) == fresh

\* What a rename leaves of this version's documents, with dropTarget.
Left(c) == fresh \ {c}

\* ... and renames, which drops the engine's collection.
Rename(c) ==
  /\ Does(c) /\ counted
  /\ old' = old \ {c}
  /\ lost' = lost \cup ({c} \cap fresh)
  /\ fresh' = Left(c)
  /\ up' = up + 1
  /\ counted' = FALSE
  /\ UNCHANGED <<statuses, attempts, hurried, upgrades, fleetVars>>

\* The documents an update_many of an engine reaches: those of its collection.
Reached == {d \in Docs : d[1] \notin old}

Rewrite(status) ==
  /\ Does(status)
  /\ statuses' = [d \in Docs |-> IF d \in Reached /\ statuses[d] = status
                               THEN NewWord(status) ELSE statuses[d]]
  /\ up' = up + 1
  /\ UNCHANGED <<counted, old, attempts, fresh, hurried, lost, upgrades, fleetVars>>

DropAttempts ==
  /\ Does("attempts")
  /\ attempts' = (attempts /\ "tasks" \in old)
  /\ up' = up + 1
  /\ UNCHANGED <<counted, old, statuses, fresh, hurried, lost, upgrades, fleetVars>>

\* upgradeFrom2 returns, or raises or dies at whichever call.
EndUpgrade ==
  /\ up # 0
  /\ up' = 0
  /\ counted' = FALSE
  /\ UNCHANGED <<upgrades, docVars, fleetVars>>

\* A process of this version writes to the collection of its engine, as one that
\* only enqueues does without ever registering.
Enqueue(c) ==
  /\ c \in old \ fresh
  /\ fresh' = fresh \cup {c}
  /\ hurried' = IF Does(c) /\ counted THEN hurried \cup {c} ELSE hurried
  /\ UNCHANGED <<up, counted, old, statuses, attempts, lost, upgrades, fleetVars>>

-----------------------------------------------------------------------------
Operator ==
  \/ BeginUpgrade \/ DropAttempts \/ EndUpgrade
  \/ \E c \in Renames : Skip(c) \/ Refuse(c) \/ Count(c) \/ Rename(c)
  \/ \E status \in {"success", "processing", "claimed"} : Rewrite(status)

Next ==
  \/ Operator
  \/ \E c \in Renames : Enqueue(c)
  \/ FleetNext /\ UNCHANGED upVars

Spec == Init /\ [][Next]_vars

-----------------------------------------------------------------------------
(* Properties                                                              *)

\* Every variable has its type, those of the fleet included.
TypeOK ==
  /\ FleetTypeOK
  /\ up \in 0..Len(Calls) + 1 /\ counted \in BOOLEAN /\ upgrades \in 0..MaxUpgrades
  /\ old \subseteq Renames /\ fresh \subseteq old
  /\ hurried \subseteq Renames /\ lost \subseteq Renames
  /\ attempts \in BOOLEAN
  /\ \A d \in Docs : statuses[d] \in {d[2], NewWord(d[2])}

\* "It is safe to run again" (migrations.py): an upgrade that comes to its end,
\* however often and at whichever call it died before, has moved and rewritten
\* everything; and no rename drops what this version wrote, unless it was written
\* between the count and the rename.
UpgradeIsWhole ==
  /\ up = Len(Calls) + 1 =>
       old = {} /\ ~attempts /\ \A d \in Docs : statuses[d] = NewWord(d[2])
  /\ lost \subseteq hurried

=============================================================================
