----------------------------- MODULE TaskClients -----------------------------
(***************************************************************************)
(* The calls that reach the task collection in several steps, made by      *)
(* clients beside the workers of TaskEngine:                               *)
(*   schedule(key=...)   insert; refused, find the task that holds the     *)
(*                       key; move it up; read it back                     *)
(*   update(deadline=)   read the task, then write what changed            *)
(*   save()              read the task, then write the whole document      *)
(* Nothing locks a task between two steps of a call: a worker may claim it *)
(* there, run it and record its outcome.                                   *)
(***************************************************************************)
EXTENDS TaskEngine

CONSTANTS
  Clients,
  Calls,      \* which of {"schedule", "update", "save"} each client makes
  MaxSaves    \* bound: tasks are saved only while fewer claims were made

ASSUME CallsAssumption == Calls \in [Clients -> SUBSET {"schedule", "update", "save"}]

VARIABLES
  clients,    \* client -> the call it is in
  asked       \* uid -> the earliest deadline a schedule() settled on it for, since
              \*        it was edited (a history variable)

clientVars == <<vars, clients, asked>>

EngineIdle == UNCHANGED <<now, workers, renewal, up, nextClaim, runs>>

\* `uid` and `hand`: the new task and its document, or the one found and what
\* will be written over it.
Calling(step, uid, hand) == [step |-> step, uid |-> uid, hand |-> hand]

NoCall == Calling("idle", NoTask, Absent)

Goto(c, call) == clients' = [clients EXCEPT ![c] = call]

Ask(t, d) == asked' = [asked EXCEPT ![t] = IF @ = NoTime \/ d < @ THEN d ELSE @]

\* An edit sets the deadline whatever was asked for.
Unask(t) == asked' = [asked EXCEPT ![t] = NoTime]

ClientInit ==
  /\ Init
  /\ clients = [c \in Clients |-> NoCall]
  /\ asked = [t \in Tasks |-> NoTime]

-----------------------------------------------------------------------------
(* schedule(key=...)                                                       *)

\* A new task is built, under a uid of its own, and not stored yet.
BeginSchedule(c, t, f, d, k) ==
  /\ "schedule" \in Calls[c]
  /\ clients[c] = NoCall
  /\ tasks[t].status = "absent"
  /\ \A e \in Clients : clients[e].uid # t
  /\ \E p \in up : f \in FunctionsOf[p]
  /\ Goto(c, Calling("inserting", t, NewTask(f, d, k)))
  /\ UNCHANGED <<vars, asked>>

TryInsert(c) ==
  LET call == clients[c]
  IN  /\ call.step = "inserting"
      /\ IF KeyFree(call.hand.key)
         THEN /\ tasks' = [tasks EXCEPT ![call.uid] = call.hand]
              /\ Goto(c, NoCall)
              /\ Ask(call.uid, call.hand.deadline)
         ELSE /\ Goto(c, [call EXCEPT !.step = "finding"])
              /\ UNCHANGED <<tasks, asked>>
      /\ EngineIdle

\* The holder of the key, if it did not finish since: then insert again.
FindKey(c) ==
  LET call    == clients[c]
      holders == {t \in Tasks : tasks[t].activeKey = call.hand.key}
  IN  /\ call.step = "finding"
      /\ IF holders = {}
         THEN Goto(c, [call EXCEPT !.step = "inserting"])
         ELSE \E t \in holders : Goto(c, Calling("moving", t, call.hand))
      /\ UNCHANGED <<vars, asked>>

\* A waiting task moves up, if this call asks for sooner.
Move(c) ==
  LET call == clients[c]
      d    == call.hand.deadline
  IN  /\ call.step = "moving"
      /\ tasks' = IF Sooner(tasks[call.uid], d)
                  THEN [tasks EXCEPT ![call.uid] = MovedUp(@, d)]
                  ELSE tasks
      /\ Goto(c, NoCall)
      /\ Ask(call.uid, d)
      /\ EngineIdle

-----------------------------------------------------------------------------
(* update(deadline=...) and save()                                         *)

Stored(t) == tasks[t].status \notin {"absent", "purged"}

\* _prepare: a waiting task's lease follows its deadline.
Prepared(doc) == IF doc.status = "pending" THEN [doc EXCEPT !.leaseUntil = doc.deadline] ELSE doc

\* update() reads the task, and works out what will have changed.
BeginUpdate(c, t, d) ==
  /\ "update" \in Calls[c]
  /\ clients[c] = NoCall
  /\ Stored(t)
  /\ tasks[t].deadline # d
  /\ Goto(c, Calling("updating", t, Prepared([tasks[t] EXCEPT !.deadline = d])))
  /\ UNCHANGED <<vars, asked>>

\* $set of what changed: the deadline, and the lease if it was moved along.
Updated(doc, hand) ==
  [doc EXCEPT !.deadline = hand.deadline,
              !.leaseUntil = IF hand.status = "pending" THEN hand.leaseUntil ELSE @]

FinishUpdate(c) ==
  LET call == clients[c]
  IN  /\ call.step = "updating"
      /\ tasks' = IF Stored(call.uid)
                  THEN [tasks EXCEPT ![call.uid] = Updated(@, call.hand)]
                  ELSE tasks
      /\ Goto(c, NoCall)
      /\ Unask(call.uid)
      /\ EngineIdle

\* save() of a copy in hand, given another deadline.  _keepStored: the engine's
\* fields are put back as stored, so all that is left of the copy is its call and
\* its deadline.  _keepFresh: a task not stored, or no more, starts anew.
BeginSave(c, t, f, d) ==
  /\ "save" \in Calls[c]
  /\ nextClaim < MaxSaves
  /\ clients[c] = NoCall
  /\ tasks[t].status # "absent"
  /\ Goto(c, Calling("saving", t,
                     IF Stored(t) THEN Prepared([tasks[t] EXCEPT !.deadline = d])
                                  ELSE NewTask(f, d, NoKey)))
  /\ UNCHANGED <<vars, asked>>

\* replace_one with upsert; the unique index may refuse it.
FinishSave(c) ==
  LET call    == clients[c]
      refused == /\ call.hand.activeKey # NoKey
                 /\ \E t \in Tasks \ {call.uid} : tasks[t].activeKey = call.hand.activeKey
  IN  /\ call.step = "saving"
      /\ tasks' = IF refused THEN tasks ELSE [tasks EXCEPT ![call.uid] = call.hand]
      /\ Goto(c, NoCall)
      /\ Unask(call.uid)
      /\ EngineIdle

-----------------------------------------------------------------------------
ClientStep(c) ==
  \/ \E t \in Tasks, f \in Names, d \in Deadlines, k \in Keys : BeginSchedule(c, t, f, d, k)
  \/ TryInsert(c)
  \/ FindKey(c)
  \/ Move(c)
  \/ \E t \in Tasks, d \in Deadlines : BeginUpdate(c, t, d)
  \/ FinishUpdate(c)
  \/ \E t \in Tasks, f \in Names, d \in Deadlines : BeginSave(c, t, f, d)
  \/ FinishSave(c)

\* The engine of TaskEngine, its tasks scheduled by the clients.
EngineStep ==
  \/ Tick
  \/ \E w \in Workers : Work(w) \/ WorkFails(w)
  \/ \E p \in Processes : Renew(p) \/ Crash(p) \/ Restart(p)
  \/ Manage

ClientNext ==
  \/ \E c \in Clients : ClientStep(c)
  \/ EngineStep /\ UNCHANGED <<clients, asked>>

ClientSpec == ClientInit /\ [][ClientNext]_clientVars

-----------------------------------------------------------------------------
(* Properties                                                              *)

\* Sooner wins (reference.md): whatever order the schedule() calls of one key
\* take their steps in, a task still waiting is due no later than the earliest
\* of the deadlines they asked for since it was last edited.
SoonerWins ==
  \A t \in Tasks :
    tasks[t].status = "pending" /\ asked[t] # NoTime => tasks[t].deadline <= asked[t]

\* "a copy read before a worker finished cannot put the work back, or wipe the
\* claim holding it" (save(), documents.py): what a worker took off the queue is
\* never waiting again.
CopyPutsNothingBack ==
  [][\A t \in Tasks :
       tasks[t].status \in {"running", "done", "failed", "timeout"} =>
         tasks'[t].status # "pending"]_clientVars
=============================================================================
