--------------------------- MODULE TaskClientProofs ---------------------------
(***************************************************************************)
(* Theorems about TaskClients: what the calls that reach the collection in *)
(* several steps leave of the engine's promises, for any number of clients *)
(* and whatever each of them calls; and, as far as only save() breaks a    *)
(* promise, that without it the promise stands.                            *)
(***************************************************************************)
EXTENDS TaskClients, TaskWorkProofs

-----------------------------------------------------------------------------
(* The calls under way                                                     *)

CallSteps == {"idle", "inserting", "finding", "moving", "updating", "saving"}

Call == [step : CallSteps, uid : Tasks \cup {NoTask}, hand : Document]

\* A new task in hand: waiting, under a key, claimable at its deadline, claimed by nobody.
NewInHand(doc) ==
  /\ doc.status = "pending" /\ doc.key \in Keys /\ doc.activeKey = doc.key
  /\ doc.claimId = NoClaim /\ doc.leaseUntil = doc.deadline

\* The task a call is about to insert is not stored, nor ever was; the task it found, or
\* read, was.
CallOK(c) ==
  LET call == clients[c]
  IN  /\ call.step = "idle" => call.uid = NoTask
      /\ call.step # "idle" => call.uid \in Tasks
      /\ call.step \in {"inserting", "finding"} => tasks[call.uid].status = "absent"
      /\ call.step \in {"moving", "updating", "saving"} => tasks[call.uid].status # "absent"
      /\ call.step \in {"inserting", "finding", "moving"} => NewInHand(call.hand)
      /\ call.step = "saving" => KeyFits(call.hand) /\ call.hand.status # "absent"

Inserting(c, t) == clients[c].step \in {"inserting", "finding"} /\ clients[c].uid = t

\* No two calls insert the same task.
OneInserter == \A t \in Tasks : \A c, e \in Clients : Inserting(c, t) /\ Inserting(e, t) => c = e

\* Nothing was asked for a task that was never stored.
AskedOK ==
  /\ asked \in [Tasks -> Times]
  /\ \A t \in Tasks : tasks[t].status = "absent" => asked[t] = NoTime

ClientInv ==
  /\ KeyInv /\ SoonerWins /\ AskedOK
  /\ clients \in [Clients -> Call]
  /\ \A c \in Clients : CallOK(c)
  /\ OneInserter

\* The calls that are under way beside a step of client c: they do not see what it does,
\* as long as it stores no other task than its own and deletes none without a trace.
OthersCalling(c) ==
  /\ \A e \in Clients \ {c} : clients'[e] = clients[e]
  /\ \A t \in Tasks : /\ tasks[t].status # "absent" => tasks'[t].status # "absent"
                      /\ tasks[t].status = "absent" => tasks'[t] = tasks[t] \/ Inserting(c, t)

LEMMA ClientFacts ==
  ASSUME ClientInv, NEW c \in Clients
  PROVE  /\ Inv /\ CallOK(c)
         /\ tasks \in [Tasks -> Document] /\ asked \in [Tasks -> Times]
         /\ clients \in [Clients -> Call] /\ clients[c] \in Call
         /\ clients[c].hand \in Document
         /\ \A t \in Tasks : tasks[t] \in Document /\ KeyFits(tasks[t])
BY KeyInvFacts DEF ClientInv, KeyInv, AskedOK, Call

\* Each client is where it says, if client c is.
LEMMA CallsStayOK ==
  ASSUME ClientInv, NEW c \in Clients, OthersCalling(c), CallOK(c)',
         clients' \in [Clients -> Call],
         \A t \in Tasks : Inserting(c, t)' =>
           Inserting(c, t) \/ \A e \in Clients \ {c} : ~Inserting(e, t)
  PROVE  (\A e \in Clients : CallOK(e))' /\ OneInserter'
<1>1. ASSUME NEW e \in Clients \ {c} PROVE CallOK(e)'
  <2>1. clients'[e] = clients[e] /\ CallOK(e)
    BY <1>1 DEF OthersCalling, ClientInv
  <2>2. \A t \in Tasks : tasks[t].status = "absent" /\ Inserting(e, t) => tasks'[t] = tasks[t]
    BY <1>1 DEF OthersCalling, ClientInv, OneInserter
  <2>3. clients[e].step \in {"inserting", "finding"} =>
          tasks'[clients[e].uid].status = "absent"
    BY <2>1, <2>2 DEF CallOK, Inserting
  <2>4. clients[e].step \in {"moving", "updating", "saving"} =>
          tasks'[clients[e].uid].status # "absent"
    BY <2>1 DEF CallOK, OthersCalling
  <2> QED
    BY <2>1, <2>3, <2>4 DEF CallOK
<1>2. OneInserter'
  BY DEF OthersCalling, ClientInv, OneInserter, Inserting
<1> QED
  BY <1>1, <1>2

LEMMA NoCallIs == NoCall \in Call /\ NoCall.step = "idle" /\ NoCall.uid = NoTask
BY DocumentTypes DEF NoCall, Calling, Call, CallSteps

\* A call that ended is in no step.
LEMMA CallEnds ==
  ASSUME ClientInv, NEW c \in Clients, Goto(c, NoCall), OthersCalling(c)
  PROVE  /\ clients' \in [Clients -> Call]
         /\ (\A e \in Clients : CallOK(e))' /\ OneInserter'
<1>1. clients' \in [Clients -> Call] /\ clients'[c] = NoCall
  BY NoCallIs, ClientFacts DEF Goto
<1>2. CallOK(c)'
  BY <1>1, NoCallIs DEF CallOK
<1>3. \A t \in Tasks : ~Inserting(c, t)'
  BY <1>1, NoCallIs DEF Inserting
<1> QED
  BY <1>1, <1>2, <1>3, CallsStayOK

\* A call that goes on to another step, with a call `call` that fits it.
LEMMA CallGoesOn ==
  ASSUME ClientInv, NEW c \in Clients, NEW call \in Call, Goto(c, call), UNCHANGED <<vars, asked>>,
         CallOK(c)',
         call.step \in {"inserting", "finding"} =>
           Inserting(c, call.uid) \/ \A e \in Clients \ {c} : ~Inserting(e, call.uid)
  PROVE  ClientInv'
<1>1. /\ clients' = [clients EXCEPT ![c] = call]
      /\ UNCHANGED <<now, tasks, workers, renewal, up, nextClaim, runs, asked>>
  BY DEF Goto, vars
<1>2. clients' \in [Clients -> Call] /\ clients'[c] = call
  BY <1>1, ClientFacts
<1>3. OthersCalling(c)
  BY <1>1, ClientFacts DEF OthersCalling
<1>4. \A t \in Tasks : Inserting(c, t)' =>
           Inserting(c, t) \/ \A e \in Clients \ {c} : ~Inserting(e, t)
  BY <1>2 DEF Inserting
<1>5. (\A e \in Clients : CallOK(e))' /\ OneInserter'
  BY <1>2, <1>3, <1>4, CallsStayOK
<1>6. (KeyInv /\ SoonerWins /\ AskedOK)'
  <2>1. KeyInv'
    BY <1>1 DEF ClientInv, KeyInv, Inv, TypeOK, BusyHasTask, OneTaskPerKey
  <2>2. (SoonerWins /\ AskedOK)'
    BY <1>1 DEF ClientInv, SoonerWins, AskedOK
  <2> QED
    BY <2>1, <2>2
<1> QED
  BY <1>2, <1>5, <1>6 DEF ClientInv

LEMMA BeginScheduleKeeps ==
  ASSUME ClientInv, NEW c \in Clients, NEW t \in Tasks, NEW f \in Names, NEW d \in Deadlines,
         NEW k \in Keys, BeginSchedule(c, t, f, d, k)
  PROVE  ClientInv'
<1> DEFINE doc == NewTask(f, d, k)
           call == Calling("inserting", t, doc)
<1>1. doc \in Document /\ NewInHand(doc)
  <2>1. doc \in Document
    BY DocumentTypes, TimesAssumption
  <2>2. NewInHand(doc)
    BY DEF NewTask, Absent, NewInHand
  <2> QED
    BY <2>1, <2>2
<1> HIDE DEF doc
<1>2. call \in Call /\ call.step = "inserting" /\ call.uid = t /\ call.hand = doc
  BY <1>1 DEF Calling, Call, CallSteps
<1>3. /\ Goto(c, call) /\ UNCHANGED <<vars, asked>>
      /\ tasks[t].status = "absent" /\ \A e \in Clients : clients[e].uid # t
  BY DEF BeginSchedule, doc
<1> HIDE DEF call
<1>4. clients'[c] = call /\ tasks' = tasks
  BY <1>3, ClientFacts DEF Goto, vars
<1>5. CallOK(c)'
  BY <1>1, <1>2, <1>3, <1>4 DEF CallOK
<1>6. \A e \in Clients : ~Inserting(e, t)
  BY <1>3 DEF Inserting
<1> QED
  BY <1>2, <1>3, <1>5, <1>6, CallGoesOn

LEMMA FindKeyKeeps ==
  ASSUME ClientInv, NEW c \in Clients, FindKey(c)
  PROVE  ClientInv'
<1> DEFINE hand == clients[c].hand
<1>1. /\ clients[c] \in Call /\ hand \in Document /\ clients[c].uid \in Tasks
      /\ NewInHand(hand) /\ Inserting(c, clients[c].uid)
      /\ tasks[clients[c].uid].status = "absent"
  BY ClientFacts DEF FindKey, CallOK, Inserting
<1>2. UNCHANGED <<vars, asked>> /\ tasks' = tasks
  BY DEF FindKey, vars
<1>3. CASE Goto(c, [clients[c] EXCEPT !.step = "inserting"])
  <2> DEFINE call == [clients[c] EXCEPT !.step = "inserting"]
  <2>1. /\ call \in Call /\ call.step = "inserting" /\ call.uid = clients[c].uid
        /\ call.hand = hand
    BY <1>1 DEF Call, CallSteps
  <2>2. clients'[c] = call
    BY <1>3, ClientFacts DEF Goto
  <2> HIDE DEF call
  <2>3. CallOK(c)'
    BY <1>1, <1>2, <2>1, <2>2 DEF CallOK
  <2> QED
    BY <1>1, <1>2, <1>3, <2>1, <2>3, CallGoesOn DEF call
<1>4. ASSUME NEW t \in Tasks, tasks[t].activeKey = hand.key, Goto(c, Calling("moving", t, hand))
      PROVE  ClientInv'
  <2> DEFINE call == Calling("moving", t, hand)
  <2>1. call \in Call /\ call.step = "moving" /\ call.uid = t /\ call.hand = hand
    BY <1>1 DEF Calling, Call, CallSteps
  <2>2. clients'[c] = call
    BY <1>4, ClientFacts DEF Goto
  <2>3. tasks[t].status # "absent"
    BY <1>1, <1>4, ClientFacts, NullsAssumption DEF KeyFits, NewInHand, Unfinished
  <2> HIDE DEF call
  <2>4. CallOK(c)'
    BY <1>1, <1>2, <2>1, <2>2, <2>3 DEF CallOK
  <2> QED
    BY <1>2, <1>4, <2>1, <2>4, CallGoesOn DEF call
<1>5. \/ Goto(c, [clients[c] EXCEPT !.step = "inserting"])
      \/ \E t \in Tasks : tasks[t].activeKey = hand.key /\ Goto(c, Calling("moving", t, hand))
  <2>1. hand.activeKey = hand.key
    BY <1>1 DEF NewInHand
  <2> QED
    BY <2>1 DEF FindKey
<1> QED
  BY <1>3, <1>4, <1>5

\* A copy in hand that was read keeps what it was read with, but for its deadline.
LEMMA PreparedIs ==
  ASSUME NEW doc \in Document, NEW d \in Nat
  PROVE  LET hand == Prepared([doc EXCEPT !.deadline = d])
         IN  /\ hand \in Document /\ hand.deadline = d
             /\ hand.status = doc.status /\ hand.key = doc.key /\ hand.activeKey = doc.activeKey
             /\ hand.status = "pending" => hand.leaseUntil = d
<1> DEFINE edited == [doc EXCEPT !.deadline = d]
<1>1. /\ edited \in Document /\ edited.deadline = d /\ edited.status = doc.status
      /\ edited.key = doc.key /\ edited.activeKey = doc.activeKey
  BY DEF Document
<1> HIDE DEF edited
<1>2. /\ Prepared(edited) \in Document /\ Prepared(edited).deadline = d
      /\ Prepared(edited).status = edited.status
      /\ Prepared(edited).key = edited.key /\ Prepared(edited).activeKey = edited.activeKey
      /\ edited.status = "pending" => Prepared(edited).leaseUntil = d
  BY <1>1 DEF Prepared, Document
<1> QED
  BY <1>1, <1>2 DEF edited

LEMMA BeginUpdateKeeps ==
  ASSUME ClientInv, NEW c \in Clients, NEW t \in Tasks, NEW d \in Deadlines, BeginUpdate(c, t, d)
  PROVE  ClientInv'
<1> DEFINE hand == Prepared([tasks[t] EXCEPT !.deadline = d])
           call == Calling("updating", t, hand)
<1>1. hand \in Document
  BY ClientFacts, PreparedIs, TimesAssumption
<1> HIDE DEF hand
<1>2. call \in Call /\ call.step = "updating" /\ call.uid = t
  BY <1>1 DEF Calling, Call, CallSteps
<1>3. Goto(c, call) /\ UNCHANGED <<vars, asked>> /\ tasks[t].status # "absent"
  BY DEF BeginUpdate, Stored, hand
<1> HIDE DEF call
<1>4. clients'[c] = call /\ tasks' = tasks
  BY <1>3, ClientFacts DEF Goto, vars
<1>5. CallOK(c)'
  BY <1>2, <1>3, <1>4 DEF CallOK
<1> QED
  BY <1>2, <1>3, <1>5, CallGoesOn

LEMMA BeginSaveKeeps ==
  ASSUME ClientInv, NEW c \in Clients, NEW t \in Tasks, NEW f \in Names, NEW d \in Deadlines,
         BeginSave(c, t, f, d)
  PROVE  ClientInv'
<1> DEFINE hand == IF Stored(t) THEN Prepared([tasks[t] EXCEPT !.deadline = d])
                               ELSE NewTask(f, d, NoKey)
           call == Calling("saving", t, hand)
<1>1. hand \in Document /\ KeyFits(hand) /\ hand.status # "absent"
  <2>1. d \in Nat /\ tasks[t] \in Document /\ KeyFits(tasks[t])
    BY ClientFacts, TimesAssumption
  <2>2. CASE Stored(t)
    <3>1. hand = Prepared([tasks[t] EXCEPT !.deadline = d]) /\ tasks[t].status # "absent"
      BY <2>2 DEF Stored
    <3> HIDE DEF hand
    <3> QED
      BY <2>1, <3>1, PreparedIs DEF KeyFits
  <2>3. CASE ~Stored(t)
    <3>1. NewTask(f, d, NoKey) \in Document
      BY <2>1, DocumentTypes
    <3> QED
      BY <2>3, <3>1 DEF NewTask, Absent, KeyFits
  <2> QED
    BY <2>2, <2>3
<1>2. Goto(c, call) /\ UNCHANGED <<vars, asked>> /\ tasks[t].status # "absent"
  BY DEF BeginSave
<1> HIDE DEF hand
<1>3. call \in Call /\ call.step = "saving" /\ call.uid = t /\ call.hand = hand
  BY <1>1 DEF Calling, Call, CallSteps
<1> HIDE DEF call
<1>4. clients'[c] = call /\ tasks' = tasks
  BY <1>2, ClientFacts DEF Goto, vars
<1>5. CallOK(c)'
  BY <1>1, <1>2, <1>3, <1>4 DEF CallOK
<1> QED
  BY <1>2, <1>3, <1>5, CallGoesOn

-----------------------------------------------------------------------------
(* The writes                                                              *)

\* A call ends by storing `doc` as its task t, or by storing nothing.
LEMMA WriteKeeps ==
  ASSUME ClientInv, NEW c \in Clients, NEW t \in Tasks, NEW doc \in Document,
         EngineIdle, Goto(c, NoCall), tasks' = [tasks EXCEPT ![t] = doc],
         doc.status # "absent", tasks[t].status = "absent" => Inserting(c, t),
         KeyFits(doc),
         doc.activeKey = NoKey \/ \A u \in Tasks \ {t} : tasks[u].activeKey # doc.activeKey,
         asked' \in [Tasks -> Times], \A u \in Tasks \ {t} : asked'[u] = asked[u],
         doc.status = "pending" /\ asked'[t] # NoTime => doc.deadline <= asked'[t]
  PROVE  ClientInv'
<1>1. /\ tasks' \in [Tasks -> Document] /\ tasks'[t] = doc
      /\ \A u \in Tasks \ {t} : tasks'[u] = tasks[u]
  BY ClientFacts
<1>2. UNCHANGED <<now, workers, renewal, up, nextClaim, runs>>
  BY DEF EngineIdle
<1>3. Inv'
  BY <1>1, <1>2 DEF ClientInv, KeyInv, Inv, TypeOK, BusyHasTask
<1>4. OneTaskPerKey'
  <2>1. \A u \in Tasks : KeyFits(tasks'[u])
    BY <1>1, ClientFacts
  <2>2. \A u, v \in Tasks : tasks[u].activeKey = tasks[v].activeKey
                              => u = v \/ tasks[u].activeKey = NoKey
    BY DEF ClientInv, KeyInv, OneTaskPerKey
  <2>3. \A u, v \in Tasks : tasks'[u].activeKey = tasks'[v].activeKey
                              => u = v \/ tasks'[u].activeKey = NoKey
    BY <1>1, <2>2
  <2> QED
    BY <2>1, <2>3 DEF OneTaskPerKey, KeyFits
<1>5. SoonerWins'
  BY <1>1 DEF ClientInv, SoonerWins
<1>6. AskedOK'
  BY <1>1 DEF ClientInv, AskedOK
<1>7. OthersCalling(c)
  <2>1. \A e \in Clients \ {c} : clients'[e] = clients[e]
    BY ClientFacts DEF Goto
  <2> QED
    BY <1>1, <2>1 DEF OthersCalling
<1> QED
  BY <1>3, <1>4, <1>5, <1>6, <1>7, CallEnds DEF ClientInv, KeyInv

LEMMA NoWriteKeeps ==
  ASSUME ClientInv, NEW c \in Clients, EngineIdle, Goto(c, NoCall), tasks' = tasks,
         SoonerWins', AskedOK'
  PROVE  ClientInv'
<1>1. KeyInv'
  BY DEF ClientInv, KeyInv, EngineIdle, Inv, TypeOK, BusyHasTask, OneTaskPerKey
<1>2. OthersCalling(c)
  <2>1. \A e \in Clients \ {c} : clients'[e] = clients[e]
    BY ClientFacts DEF Goto
  <2> QED
    BY <2>1 DEF OthersCalling
<1> QED
  BY <1>1, <1>2, CallEnds DEF ClientInv

\* What asking does to what was asked.
LEMMA Asking ==
  ASSUME asked \in [Tasks -> Times], NEW t \in Tasks
  PROVE  /\ \A d \in Nat : Ask(t, d) =>
              /\ asked' \in [Tasks -> Times] /\ \A u \in Tasks \ {t} : asked'[u] = asked[u]
              /\ asked'[t] = IF asked[t] = NoTime \/ d < asked[t] THEN d ELSE asked[t]
         /\ Unask(t) => /\ asked' \in [Tasks -> Times]
                        /\ \A u \in Tasks \ {t} : asked'[u] = asked[u]
                        /\ asked'[t] = NoTime
<1>1. ASSUME NEW d \in Nat, Ask(t, d)
      PROVE  /\ asked' \in [Tasks -> Times] /\ \A u \in Tasks \ {t} : asked'[u] = asked[u]
             /\ asked'[t] = IF asked[t] = NoTime \/ d < asked[t] THEN d ELSE asked[t]
  BY <1>1 DEF Ask, Times
<1>2. ASSUME Unask(t)
      PROVE  /\ asked' \in [Tasks -> Times]
             /\ \A u \in Tasks \ {t} : asked'[u] = asked[u]
             /\ asked'[t] = NoTime
  BY <1>2 DEF Unask, Times
<1> QED
  BY <1>1, <1>2

LEMMA TryInsertKeeps ==
  ASSUME ClientInv, NEW c \in Clients, TryInsert(c)
  PROVE  ClientInv'
<1>0. PICK t \in Tasks : t = clients[c].uid
  BY ClientFacts DEF TryInsert, CallOK
<1>1. PICK doc \in Document : doc = clients[c].hand
  BY ClientFacts
<1>2. /\ NewInHand(doc) /\ Inserting(c, t) /\ tasks[t].status = "absent"
      /\ asked \in [Tasks -> Times] /\ asked[t] = NoTime
      /\ doc.deadline \in Nat /\ EngineIdle
  BY <1>0, <1>1, ClientFacts DEF TryInsert, CallOK, Inserting, ClientInv, AskedOK, Document
<1>3. CASE KeyFree(doc.key)
  <2>1. tasks' = [tasks EXCEPT ![t] = doc] /\ Goto(c, NoCall) /\ Ask(t, doc.deadline)
    BY <1>0, <1>1, <1>3 DEF TryInsert
  <2>2. /\ asked' \in [Tasks -> Times] /\ \A u \in Tasks \ {t} : asked'[u] = asked[u]
        /\ asked'[t] = doc.deadline
    BY <1>2, <2>1, Asking
  <2>3. doc.activeKey = NoKey \/ \A u \in Tasks \ {t} : tasks[u].activeKey # doc.activeKey
    BY <1>2, <1>3 DEF KeyFree, NewInHand
  <2>4. KeyFits(doc) /\ doc.status = "pending"
    BY <1>2 DEF NewInHand, KeyFits, Unfinished
  <2>5. doc.status # "absent" /\ doc.deadline <= asked'[t]
    BY <1>2, <2>2, <2>4
  <2> QED
    BY <1>2, <2>1, <2>2, <2>3, <2>4, <2>5, WriteKeeps
<1>4. CASE ~KeyFree(doc.key)
  <2> DEFINE call == [clients[c] EXCEPT !.step = "finding"]
  <2>1. /\ call \in Call /\ call.step = "finding" /\ call.uid = t /\ call.hand = doc
    BY <1>0, <1>1, ClientFacts DEF Call, CallSteps
  <2>2. Goto(c, call) /\ UNCHANGED <<tasks, asked>>
    BY <1>0, <1>1, <1>4 DEF TryInsert
  <2>3. clients'[c] = call
    BY <2>2, ClientFacts DEF Goto
  <2> HIDE DEF call
  <2>4. UNCHANGED <<vars, asked>>
    BY <1>2, <2>2 DEF EngineIdle, vars
  <2>5. CallOK(c)'
    BY <1>2, <2>1, <2>2, <2>3 DEF CallOK
  <2> QED
    BY <1>2, <2>1, <2>2, <2>4, <2>5, CallGoesOn
<1> QED
  BY <1>3, <1>4

\* Of two calls that ask for one task, the sooner wins: either the later one finds the
\* task no later than it asks, or it moves the task up.
LEMMA MoveKeeps ==
  ASSUME ClientInv, NEW c \in Clients, Move(c)
  PROVE  ClientInv'
<1>0. PICK t \in Tasks : t = clients[c].uid
  BY ClientFacts DEF Move, CallOK
<1>1. PICK d \in Nat : d = clients[c].hand.deadline
  BY ClientFacts DEF Document
<1>2. /\ tasks[t] \in Document /\ KeyFits(tasks[t]) /\ tasks[t].status # "absent"
      /\ asked \in [Tasks -> Times] /\ tasks[t].deadline \in Nat
      /\ EngineIdle /\ Goto(c, NoCall) /\ Ask(t, d)
      /\ tasks[t].status = "pending" /\ asked[t] # NoTime => tasks[t].deadline <= asked[t]
  BY <1>0, <1>1, ClientFacts DEF Move, CallOK, ClientInv, SoonerWins, Document
<1>3. /\ asked' \in [Tasks -> Times] /\ \A u \in Tasks \ {t} : asked'[u] = asked[u]
      /\ asked'[t] = IF asked[t] = NoTime \/ d < asked[t] THEN d ELSE asked[t]
  BY <1>2, Asking
<1>4. CASE Sooner(tasks[t], d)
  <2> DEFINE doc == MovedUp(tasks[t], d)
  <2>1. /\ doc \in Document /\ doc.status = "pending" /\ doc.deadline = d
        /\ KeyFits(doc) /\ doc.activeKey = tasks[t].activeKey
    BY <1>2, <1>4 DEF Sooner, MovedUp, Document, KeyFits
  <2>2. tasks' = [tasks EXCEPT ![t] = doc]
    BY <1>0, <1>1, <1>4 DEF Move
  <2> HIDE DEF doc
  <2>3. doc.activeKey = NoKey \/ \A u \in Tasks \ {t} : tasks[u].activeKey # doc.activeKey
    BY <2>1 DEF ClientInv, KeyInv, OneTaskPerKey
  <2>4. asked'[t] # NoTime => d <= asked'[t]
    BY <1>2, <1>3, <1>4 DEF Sooner, Times, NoTime
  <2> QED
    BY <1>2, <1>3, <2>1, <2>2, <2>3, <2>4, WriteKeeps
<1>5. CASE ~Sooner(tasks[t], d)
  <2>1. tasks' = tasks
    BY <1>0, <1>1, <1>5 DEF Move
  <2>2. tasks[t].status = "pending" /\ asked'[t] # NoTime => tasks[t].deadline <= asked'[t]
    BY <1>2, <1>3, <1>5 DEF Sooner, Times, NoTime
  <2>3. SoonerWins' /\ AskedOK'
    BY <1>2, <1>3, <2>1, <2>2 DEF ClientInv, SoonerWins, AskedOK
  <2> QED
    BY <1>2, <2>1, <2>3, NoWriteKeeps
<1> QED
  BY <1>4, <1>5

LEMMA UnaskedKeeps ==
  ASSUME ClientInv, NEW c \in Clients, NEW t \in Tasks, EngineIdle, Goto(c, NoCall),
         tasks' = tasks, Unask(t)
  PROVE  ClientInv'
<1>1. /\ asked' \in [Tasks -> Times]
      /\ \A u \in Tasks \ {t} : asked'[u] = asked[u]
      /\ asked'[t] = NoTime
  BY ClientFacts, Asking
<1>2. SoonerWins' /\ AskedOK'
  BY <1>1 DEF ClientInv, SoonerWins, AskedOK
<1> QED
  BY <1>2, NoWriteKeeps

LEMMA UpdatedIs ==
  ASSUME NEW doc \in Document, NEW hand \in Document
  PROVE  /\ Updated(doc, hand) \in Document
         /\ Updated(doc, hand).status = doc.status /\ Updated(doc, hand).claimId = doc.claimId
         /\ Updated(doc, hand).key = doc.key /\ Updated(doc, hand).activeKey = doc.activeKey
         /\ Updated(doc, hand).deadline = hand.deadline
         /\ hand.status = "pending" => Updated(doc, hand).leaseUntil = hand.leaseUntil
BY DEF Updated, Document

LEMMA FinishUpdateKeeps ==
  ASSUME ClientInv, NEW c \in Clients, FinishUpdate(c)
  PROVE  ClientInv'
<1>0. PICK t \in Tasks : t = clients[c].uid
  BY ClientFacts DEF FinishUpdate, CallOK
<1>1. PICK hand \in Document : hand = clients[c].hand
  BY ClientFacts
<1>2. /\ tasks[t] \in Document /\ KeyFits(tasks[t]) /\ tasks[t].status # "absent"
      /\ EngineIdle /\ Goto(c, NoCall) /\ Unask(t)
  BY <1>0, ClientFacts DEF FinishUpdate, CallOK
<1>3. CASE Stored(t)
  <2> DEFINE doc == Updated(tasks[t], hand)
  <2>1. /\ doc \in Document /\ doc.status = tasks[t].status
        /\ KeyFits(doc) /\ doc.activeKey = tasks[t].activeKey
    BY <1>2, UpdatedIs DEF KeyFits
  <2>2. tasks' = [tasks EXCEPT ![t] = doc]
    BY <1>0, <1>1, <1>3 DEF FinishUpdate
  <2> HIDE DEF doc
  <2>3. doc.activeKey = NoKey \/ \A u \in Tasks \ {t} : tasks[u].activeKey # doc.activeKey
    BY <2>1 DEF ClientInv, KeyInv, OneTaskPerKey
  <2>4. /\ asked' \in [Tasks -> Times]
        /\ \A u \in Tasks \ {t} : asked'[u] = asked[u]
        /\ asked'[t] = NoTime
    BY <1>2, ClientFacts, Asking
  <2> QED
    BY <1>2, <2>1, <2>2, <2>3, <2>4, WriteKeeps
<1>4. CASE ~Stored(t)
  <2>1. tasks' = tasks
    BY <1>0, <1>4 DEF FinishUpdate
  <2> QED
    BY <1>2, <2>1, UnaskedKeeps
<1> QED
  BY <1>3, <1>4

LEMMA FinishSaveKeeps ==
  ASSUME ClientInv, NEW c \in Clients, FinishSave(c)
  PROVE  ClientInv'
<1>0. PICK t \in Tasks : t = clients[c].uid
  BY ClientFacts DEF FinishSave, CallOK
<1>1. PICK hand \in Document : hand = clients[c].hand
  BY ClientFacts
<1>2. /\ tasks[t].status # "absent" /\ KeyFits(hand) /\ hand.status # "absent"
      /\ EngineIdle /\ Goto(c, NoCall) /\ Unask(t)
  BY <1>0, <1>1, ClientFacts DEF FinishSave, CallOK
<1>3. CASE tasks' = tasks
  BY <1>2, <1>3, UnaskedKeeps
<1>4. CASE /\ tasks' = [tasks EXCEPT ![t] = hand]
           /\ hand.activeKey = NoKey \/ \A u \in Tasks \ {t} : tasks[u].activeKey # hand.activeKey
  <2>1. /\ asked' \in [Tasks -> Times]
        /\ \A u \in Tasks \ {t} : asked'[u] = asked[u]
        /\ asked'[t] = NoTime
    BY <1>2, ClientFacts, Asking
  <2> QED
    BY <1>2, <1>4, <2>1, WriteKeeps
<1> QED
  BY <1>0, <1>1, <1>3, <1>4 DEF FinishSave

-----------------------------------------------------------------------------
(* The engine beside the clients                                           *)

\* What the engine, which schedules nothing itself here, makes of a document: none that was
\* not there, and none waiting that was not, or not due then.
EngineMakes(doc, new) ==
  /\ new.status = "absent" <=> doc.status = "absent"
  /\ new.status = "pending" => doc.status = "pending" /\ new.deadline = doc.deadline

LEMMA EngineWrites ==
  ASSUME NEW doc \in Document
  PROVE  /\ EngineMakes(doc, doc)
         /\ \A at \in Nat : EngineMakes(doc, Renewed(doc, at, LeaseTime))
         /\ doc.status \in Unfinished =>
              /\ \A id \in Nat, at \in Nat : EngineMakes(doc, ClaimedTask(doc, id, at))
              /\ \A status \in Final, at \in Nat : EngineMakes(doc, Finish(doc, status, at))
              /\ \A status \in Final, at \in Nat : EngineMakes(doc, LetGo(Finish(doc, status, at)))
              /\ EngineMakes(doc, CanceledTask(doc))
              /\ \A ws \in WorkerState : EngineMakes(doc, Recorded(doc, ws))
         /\ doc.status \in Final => EngineMakes(doc, Deleted)
<1>1. \A at \in Nat : EngineMakes(doc, Renewed(doc, at, LeaseTime))
  BY DEF EngineMakes, Renewed, Document
<1>2. ASSUME doc.status \in Unfinished
      PROVE  /\ \A id \in Nat, at \in Nat : EngineMakes(doc, ClaimedTask(doc, id, at))
             /\ \A status \in Final, at \in Nat : EngineMakes(doc, Finish(doc, status, at))
             /\ \A status \in Final, at \in Nat : EngineMakes(doc, LetGo(Finish(doc, status, at)))
             /\ EngineMakes(doc, CanceledTask(doc))
             /\ \A ws \in WorkerState : EngineMakes(doc, Recorded(doc, ws))
  <2>1. \A ws \in WorkerState : ws.outcome \in Final
    BY DEF WorkerState
  <2> QED
    BY <1>2, <2>1, WritesKeepTaken DEF EngineMakes, Final, Unfinished
<1>3. doc.status \in Final => EngineMakes(doc, Deleted)
  BY WritesKeepTaken DEF EngineMakes, Final
<1>4. EngineMakes(doc, doc)
  BY DEF EngineMakes
<1> QED
  BY <1>1, <1>2, <1>3, <1>4

LEMMA WorkMakes ==
  ASSUME Inv, NEW w \in Workers, Work(w) \/ WorkFails(w)
  PROVE  \A t \in Tasks : EngineMakes(tasks[t], tasks'[t])
<1>t. /\ tasks \in [Tasks -> Document] /\ workers[w] \in WorkerState
      /\ workers[w].at \in Nat /\ nextClaim \in Nat
      /\ \A t \in Tasks : EngineMakes(tasks[t], tasks[t])
  BY EngineWrites DEF Inv, TypeOK, WorkerState
<1>1. ASSUME NEW t \in Tasks, Claim(w, t) \/ ClaimUnheard(w, t)
      PROVE  \A u \in Tasks : EngineMakes(tasks[u], tasks'[u])
  <2> DEFINE doc == ClaimedTask(tasks[t], nextClaim, workers[w].at)
  <2>1. tasks[t].status \in Unfinished /\ tasks' = [tasks EXCEPT ![t] = doc]
    BY <1>1 DEF Claim, ClaimUnheard, NextDue, Claimable
  <2>2. EngineMakes(tasks[t], doc)
    BY <1>t, <2>1, EngineWrites
  <2> HIDE DEF doc
  <2> QED
    BY <1>t, <2>1, <2>2
<1>2. CASE Record(w)
  <2>0. PICK t \in Tasks : t = workers[w].uid
    BY <1>2 DEF Record, Inv, BusyHasTask, Busy
  <2>1. \/ tasks' = tasks
        \/ tasks[t].status = "running" /\ tasks' = [tasks EXCEPT ![t] = Recorded(tasks[t], workers[w])]
    BY <1>2, <2>0 DEF Record, MayRecord
  <2>2. tasks[t].status = "running" => EngineMakes(tasks[t], Recorded(tasks[t], workers[w]))
    BY <1>t, EngineWrites DEF Unfinished
  <2> QED
    BY <1>t, <2>1, <2>2
<1>3. \/ \E t \in Tasks : Claim(w, t) \/ ClaimUnheard(w, t)
      \/ Record(w)
      \/ tasks' = tasks
  BY DEF Work, WorkFails, ReadClock, FindNothing, Start, EndCall, LeaveUnrecorded
<1> QED
  BY <1>1, <1>2, <1>3, <1>t

LEMMA ManageMakes ==
  ASSUME Inv, Manage
  PROVE  \A t \in Tasks : EngineMakes(tasks[t], tasks'[t])
<1>t. (\A t \in Tasks : tasks[t] \in Document) /\ now \in Nat
      /\ "failed" \in Final /\ "incompatible" \in Final
  BY DEF Inv, TypeOK, Final
<1>1. ASSUME NEW t \in Tasks
      PROVE  \/ tasks'[t] = tasks[t]
             \/ tasks[t].status \in Final /\ tasks'[t] = Deleted
             \/ /\ tasks[t].status \in Unfinished
                /\ tasks'[t] \in {CanceledTask(tasks[t]), Finish(tasks[t], "incompatible", now),
                                  LetGo(Finish(tasks[t], "failed", now))}
  <2>1. ASSUME NEW picked \in SUBSET Tasks, Cancel(picked)
        PROVE  \/ tasks'[t] = tasks[t]
               \/ tasks[t].status \in Unfinished /\ tasks'[t] = CanceledTask(tasks[t])
    BY <2>1 DEF Cancel, NotStarted, Unfinished
  <2>2. ASSUME NEW request \in PurgeRequests, Purge(request[1], request[2])
        PROVE  \/ tasks'[t] = tasks[t]
               \/ tasks[t].status \in Final /\ tasks'[t] = Deleted
    BY <2>2 DEF Purge, EndedBefore
  <2>3. ASSUME NEW p \in Processes, FlagIncompatible(p)
        PROVE  \/ tasks'[t] = tasks[t]
               \/ tasks[t].status \in Unfinished /\ tasks'[t] = Finish(tasks[t], "incompatible", now)
    BY <2>3 DEF FlagIncompatible, Unfinished
  <2>4. ASSUME NEW p \in Processes, WriteOffStuck(p)
        PROVE  \/ tasks'[t] = tasks[t]
               \/ /\ tasks[t].status \in Unfinished
                  /\ tasks'[t] = LetGo(Finish(tasks[t], "failed", now))
    BY <2>4 DEF WriteOffStuck, Unfinished
  <2> QED
    BY <2>1, <2>2, <2>3, <2>4 DEF Manage
<1>2. ASSUME NEW t \in Tasks PROVE EngineMakes(tasks[t], tasks'[t])
  BY <1>t, <1>1, EngineWrites
<1> QED
  BY <1>2

LEMMA EngineStepMakes ==
  ASSUME Inv, EngineStep
  PROVE  \A t \in Tasks : EngineMakes(tasks[t], tasks'[t])
<1>t. /\ tasks \in [Tasks -> Document] /\ now \in Nat
      /\ renewal \in [Processes -> [claims : SUBSET Nat, at : Nat]]
  BY DEF Inv, TypeOK
<1>1. ASSUME NEW p \in Processes, WriteRenewal(p)
      PROVE  \A t \in Tasks : EngineMakes(tasks[t], tasks'[t])
  <2>1. PICK at \in renewal[p].at .. now :
          tasks' = RenewHeld(tasks, renewal[p].claims, at, LeaseTime)
    BY <1>1 DEF WriteRenewal
  <2>2. at \in Nat
    BY <1>t, <2>1
  <2>3. \A t \in Tasks : tasks'[t] = tasks[t] \/ tasks'[t] = Renewed(tasks[t], at, LeaseTime)
    BY <1>t, <2>1 DEF RenewHeld
  <2> QED
    BY <1>t, <2>2, <2>3, EngineWrites
<1>2. CASE tasks' = tasks
  BY <1>t, <1>2, EngineWrites
<1> QED
  BY <1>1, <1>2, WorkMakes, ManageMakes
     DEF EngineStep, Tick, Renew, BeginRenewal, FailRenewal, Crash, Restart

LEMMA EngineStepKeeps ==
  ASSUME ClientInv, EngineStep, UNCHANGED <<clients, asked>>
  PROVE  ClientInv'
<1>1. Next /\ KeyInv /\ Inv
  BY DEF EngineStep, Next, ClientInv, KeyInv
<1>2. KeyInv'
  BY <1>1, NextInv, NextKeys DEF KeyInv
<1>3. \A t \in Tasks : EngineMakes(tasks[t], tasks'[t])
  BY <1>1, EngineStepMakes
<1>4. (SoonerWins /\ AskedOK)'
  BY <1>3 DEF ClientInv, SoonerWins, AskedOK, EngineMakes
<1>5. ASSUME NEW c \in Clients PROVE CallOK(c)'
  BY <1>3 DEF ClientInv, CallOK, EngineMakes
<1>6. OneInserter' /\ (clients \in [Clients -> Call])'
  BY DEF ClientInv, OneInserter, Inserting
<1> QED
  BY <1>2, <1>4, <1>5, <1>6 DEF ClientInv

-----------------------------------------------------------------------------
LEMMA InitClients == ClientInit => ClientInv
<1> SUFFICES ASSUME ClientInit PROVE ClientInv
  OBVIOUS
<1>1. Init /\ clients = [c \in Clients |-> NoCall] /\ asked = [t \in Tasks |-> NoTime]
  BY DEF ClientInit
<1>2. KeyInv
  BY <1>1, InitInv DEF KeyInv, Init, OneTaskPerKey, Absent, Unfinished
<1>3. SoonerWins /\ AskedOK
  BY <1>1 DEF SoonerWins, AskedOK, Times
<1>4. clients \in [Clients -> Call] /\ (\A c \in Clients : CallOK(c)) /\ OneInserter
  BY <1>1, NoCallIs DEF CallOK, OneInserter, Inserting
<1> QED
  BY <1>2, <1>3, <1>4 DEF ClientInv

LEMMA NextClients == ClientInv /\ [ClientNext]_clientVars => ClientInv'
<1> SUFFICES ASSUME ClientInv, [ClientNext]_clientVars PROVE ClientInv'
  OBVIOUS
<1>1. ASSUME NEW c \in Clients, ClientStep(c) PROVE ClientInv'
  BY <1>1, BeginScheduleKeeps, TryInsertKeeps, FindKeyKeeps, MoveKeeps, BeginUpdateKeeps,
     FinishUpdateKeeps, BeginSaveKeeps, FinishSaveKeeps DEF ClientStep
<1>2. CASE UNCHANGED clientVars
  <2>1. UNCHANGED vars /\ UNCHANGED <<clients, asked>>
    BY <1>2 DEF clientVars
  <2>2. KeyInv'
    BY <2>1 DEF ClientInv, KeyInv, vars, Inv, TypeOK, BusyHasTask, OneTaskPerKey
  <2>3. (SoonerWins /\ AskedOK)'
    BY <2>1 DEF ClientInv, vars, SoonerWins, AskedOK
  <2>4. (\A c \in Clients : CallOK(c))' /\ OneInserter' /\ (clients \in [Clients -> Call])'
    BY <2>1 DEF ClientInv, vars, CallOK, OneInserter, Inserting
  <2> QED
    BY <2>2, <2>3, <2>4 DEF ClientInv
<1> QED
  BY <1>1, <1>2, EngineStepKeeps DEF ClientNext

LEMMA ClientInvariant == ClientSpec => []ClientInv
BY InitClients, NextClients, PTL DEF ClientSpec

\* Every variable of the engine keeps its type whatever clients schedule, edit and save
\* beside it, at whatever moment their writes land.
THEOREM ClientsTypeCorrect == ClientSpec => []TypeOK
<1>1. ClientInv => TypeOK
  BY DEF ClientInv, KeyInv, Inv
<1> QED
  BY <1>1, ClientInvariant, PTL

\* A key names one unfinished task at most, and is free as soon as its task ended, also
\* when several clients schedule under it at once, and when copies read before a claim or
\* an outcome are saved over it (schedule(key=), save()).
THEOREM ClientsKeysNameOneTask == ClientSpec => []OneTaskPerKey
<1>1. ClientInv => OneTaskPerKey
  BY DEF ClientInv, KeyInv
<1> QED
  BY <1>1, ClientInvariant, PTL

\* Sooner wins: in whatever order the calls of schedule(key=) find, insert and move one
\* task, and whatever edits land between their steps, a task still waiting is due no later
\* than the earliest deadline asked for since its last edit.
THEOREM SoonestWins == ClientSpec => []SoonerWins
<1>1. ClientInv => SoonerWins
  BY DEF ClientInv
<1> QED
  BY <1>1, ClientInvariant, PTL

-----------------------------------------------------------------------------
(* Without save(), which puts a whole document back, the clients leave      *)
(* every promise of the engine standing: schedule(key=) and                 *)
(* update(deadline=) write over a document only what the engine's claims    *)
(* and outcomes do not depend on.                                           *)

NoSaves == \A c \in Clients : "save" \notin Calls[c]

NoneSaving == \A c \in Clients : clients[c].step # "saving"

\* An edit moves the lease along with the deadline if it read a waiting task; if it did
\* not, the task waits no more, as none goes back to waiting.
UpdateOK(c) ==
  LET call == clients[c]
  IN  call.step = "updating" =>
        /\ call.hand.status = "pending" => call.hand.leaseUntil = call.hand.deadline
        /\ call.hand.status # "pending" => tasks[call.uid].status # "pending"

PlainInv ==
  /\ ClientInv /\ TruthInv /\ ClaimInv /\ ClocksBehind
  /\ NoneSaving /\ \A c \in Clients : UpdateOK(c)

\* What a client's step makes of a document: it stores a new one, or leaves status and
\* claim as they are.
ClientMakes(doc, new) ==
  \/ doc.status = "absent" /\ new.status = "pending"
  \/ new.status = doc.status /\ new.claimId = doc.claimId

\* The steps of a call before its write.
Beginning(c) ==
  \/ \E t \in Tasks, f \in Names, d \in Deadlines, k \in Keys : BeginSchedule(c, t, f, d, k)
  \/ FindKey(c)
  \/ \E t \in Tasks, d \in Deadlines : BeginUpdate(c, t, d)

Writing(c) == TryInsert(c) \/ Move(c) \/ FinishUpdate(c)

LEMMA PlainSteps ==
  ASSUME NoSaves, NoneSaving, NEW c \in Clients, ClientStep(c)
  PROVE  Beginning(c) \/ Writing(c)
BY DEF NoSaves, NoneSaving, ClientStep, BeginSave, FinishSave, Beginning, Writing

LEMMA WritingMakes ==
  ASSUME PlainInv, NEW c \in Clients, Writing(c)
  PROVE  \A t \in Tasks : ClientMakes(tasks[t], tasks'[t]) /\ Fits(tasks'[t])
<1>t. /\ \A t \in Tasks : tasks[t] \in Document /\ Fits(tasks[t])
      /\ tasks \in [Tasks -> Document] /\ clients[c].hand \in Document
  BY ClientFacts, StandingIsFitting DEF PlainInv, ClaimInv
<1>0. PICK t \in Tasks : t = clients[c].uid
  BY ClientFacts DEF PlainInv, Writing, TryInsert, Move, FinishUpdate, CallOK
<1>1. PICK hand \in Document : hand = clients[c].hand
  BY <1>t
<1>2. ASSUME NEW doc, tasks' = [tasks EXCEPT ![t] = doc], ClientMakes(tasks[t], doc), Fits(doc)
      PROVE  \A u \in Tasks : ClientMakes(tasks[u], tasks'[u]) /\ Fits(tasks'[u])
  BY <1>t, <1>2 DEF ClientMakes
<1>3. CASE tasks' = tasks
  BY <1>t, <1>3 DEF ClientMakes
<1>4. CASE TryInsert(c)
  <2>1. NewInHand(hand) /\ tasks[t].status = "absent"
    BY <1>0, <1>1, <1>4, ClientFacts DEF PlainInv, TryInsert, CallOK
  <2>2. ClientMakes(tasks[t], hand) /\ Fits(hand)
    BY <2>1 DEF NewInHand, ClientMakes, Fits
  <2>3. tasks' = tasks \/ tasks' = [tasks EXCEPT ![t] = hand]
    BY <1>0, <1>1, <1>4 DEF TryInsert
  <2> QED
    BY <1>2, <1>3, <2>2, <2>3
<1>5. CASE Move(c)
  <2>1. hand.deadline \in Nat
    BY DEF Document
  <2>2. Sooner(tasks[t], hand.deadline) =>
          /\ Fits(MovedUp(tasks[t], hand.deadline))
          /\ ClientMakes(tasks[t], MovedUp(tasks[t], hand.deadline))
    <3>1. Sooner(tasks[t], hand.deadline) => Fits(MovedUp(tasks[t], hand.deadline))
      BY <1>t, <2>1, WritesFit DEF Sooner
    <3>2. ClientMakes(tasks[t], MovedUp(tasks[t], hand.deadline))
      BY <1>t DEF ClientMakes, MovedUp, Document
    <3> QED
      BY <3>1, <3>2
  <2>3. \/ tasks' = tasks
        \/ /\ Sooner(tasks[t], hand.deadline)
           /\ tasks' = [tasks EXCEPT ![t] = MovedUp(tasks[t], hand.deadline)]
    BY <1>0, <1>1, <1>5 DEF Move
  <2> QED
    BY <1>2, <1>3, <2>2, <2>3
<1>6. CASE FinishUpdate(c)
  <2> DEFINE doc == Updated(tasks[t], hand)
  <2>1. /\ doc.status = tasks[t].status /\ doc.claimId = tasks[t].claimId
        /\ doc.deadline = hand.deadline
        /\ hand.status = "pending" => doc.leaseUntil = hand.leaseUntil
    BY <1>t, UpdatedIs
  <2>2. tasks' = tasks \/ tasks' = [tasks EXCEPT ![t] = doc]
    BY <1>0, <1>1, <1>6 DEF FinishUpdate
  <2> HIDE DEF doc
  <2>3. /\ hand.status = "pending" => hand.leaseUntil = hand.deadline
        /\ hand.status # "pending" => tasks[t].status # "pending"
    BY <1>0, <1>1, <1>6 DEF PlainInv, UpdateOK, FinishUpdate
  <2>4. Fits(doc) /\ ClientMakes(tasks[t], doc)
    BY <1>t, <2>1, <2>3 DEF Fits, ClientMakes
  <2> QED
    BY <1>2, <1>3, <2>2, <2>4
<1> QED
  BY <1>4, <1>5, <1>6 DEF Writing

LEMMA ClientStepMakes ==
  ASSUME NoSaves, PlainInv, NEW c \in Clients, ClientStep(c)
  PROVE  /\ UNCHANGED <<now, workers, renewal, up, nextClaim, runs>>
         /\ \A t \in Tasks : ClientMakes(tasks[t], tasks'[t]) /\ Fits(tasks'[t])
<1>1. CASE Beginning(c)
  <2>1. UNCHANGED vars
    BY <1>1 DEF Beginning, BeginSchedule, FindKey, BeginUpdate
  <2>2. \A t \in Tasks : Fits(tasks[t])
    BY StandingIsFitting DEF PlainInv, ClaimInv
  <2> QED
    BY <2>1, <2>2 DEF vars, ClientMakes
<1>2. CASE Writing(c)
  <2>1. EngineIdle
    BY <1>2 DEF Writing, TryInsert, Move, FinishUpdate
  <2> QED
    BY <1>2, <2>1, WritingMakes DEF EngineIdle
<1> QED
  BY <1>1, <1>2, PlainSteps DEF PlainInv

\* Calls of update() go on knowing what they read.
LEMMA UpdatesStayOK ==
  ASSUME NoSaves, PlainInv, NEW c \in Clients, ClientStep(c)
  PROVE  NoneSaving' /\ (\A e \in Clients : UpdateOK(e))'
<1>c. clients \in [Clients -> Call]
  BY DEF PlainInv, ClientInv
<1>m. \A t \in Tasks : ClientMakes(tasks[t], tasks'[t])
  BY ClientStepMakes
<1>1. ASSUME NEW call, Goto(c, call), call.step \notin {"updating", "saving"}
      PROVE  NoneSaving' /\ (\A e \in Clients : UpdateOK(e))'
  <2>1. clients'[c] = call /\ \A e \in Clients \ {c} : clients'[e] = clients[e]
    BY <1>c, <1>1 DEF Goto
  <2>2. NoneSaving'
    BY <1>1, <2>1 DEF PlainInv, NoneSaving
  <2>3. ASSUME NEW e \in Clients \ {c} PROVE UpdateOK(e)'
    BY <1>m, <2>1 DEF PlainInv, ClientInv, CallOK, UpdateOK, ClientMakes
  <2>4. UpdateOK(c)'
    BY <1>1, <2>1 DEF UpdateOK
  <2> QED
    BY <2>2, <2>3, <2>4
<1>2. ASSUME NEW t \in Tasks, NEW d \in Deadlines, BeginUpdate(c, t, d)
      PROVE  NoneSaving' /\ (\A e \in Clients : UpdateOK(e))'
  <2> DEFINE hand == Prepared([tasks[t] EXCEPT !.deadline = d])
             call == Calling("updating", t, hand)
  <2>1. /\ hand.deadline = d /\ hand.status = tasks[t].status
        /\ hand.status = "pending" => hand.leaseUntil = d
    BY ClientFacts, PreparedIs, TimesAssumption DEF PlainInv
  <2> HIDE DEF hand
  <2>2. call.step = "updating" /\ call.uid = t /\ call.hand = hand
    BY DEF Calling
  <2>3. Goto(c, call) /\ tasks' = tasks
    BY <1>2 DEF BeginUpdate, hand, vars
  <2> HIDE DEF call
  <2>4. clients'[c] = call /\ \A e \in Clients \ {c} : clients'[e] = clients[e]
    BY <1>c, <2>3 DEF Goto
  <2>5. UpdateOK(c)'
    BY <2>1, <2>2, <2>3, <2>4 DEF UpdateOK
  <2> QED
    BY <2>2, <2>3, <2>4, <2>5 DEF PlainInv, NoneSaving, UpdateOK
<1>3. CASE Goto(c, NoCall)
  BY <1>1, <1>3, NoCallIs
<1>4. CASE TryInsert(c) \/ FindKey(c)
  <2>1. \/ Goto(c, NoCall) \/ Goto(c, [clients[c] EXCEPT !.step = "finding"])
        \/ Goto(c, [clients[c] EXCEPT !.step = "inserting"])
        \/ \E t \in Tasks : Goto(c, Calling("moving", t, clients[c].hand))
    BY <1>4 DEF TryInsert, FindKey
  <2>2. /\ [clients[c] EXCEPT !.step = "finding"].step = "finding"
        /\ [clients[c] EXCEPT !.step = "inserting"].step = "inserting"
        /\ \A t \in Tasks : Calling("moving", t, clients[c].hand).step = "moving"
    BY <1>c DEF Call, Calling
  <2> QED
    BY <1>1, <1>3, <2>1, <2>2
<1>5. ASSUME NEW t \in Tasks, NEW f \in Names, NEW d \in Deadlines, NEW k \in Keys,
             BeginSchedule(c, t, f, d, k)
      PROVE  NoneSaving' /\ (\A e \in Clients : UpdateOK(e))'
  <2>1. Calling("inserting", t, NewTask(f, d, k)).step = "inserting"
    BY DEF Calling
  <2> QED
    BY <1>1, <1>5, <2>1 DEF BeginSchedule
<1> QED
  BY <1>2, <1>3, <1>4, <1>5, PlainSteps DEF PlainInv, Beginning, Writing, Move, FinishUpdate

-----------------------------------------------------------------------------
(* Without save(), the invariants of the engine stay inductive.            *)

LEMMA ClientStepKeepsPlain ==
  ASSUME NoSaves, PlainInv, NEW c \in Clients, ClientStep(c)
  PROVE  PlainInv'
<1>m. /\ UNCHANGED <<now, workers, renewal, up, nextClaim, runs>>
      /\ \A t \in Tasks : ClientMakes(tasks[t], tasks'[t]) /\ Fits(tasks'[t])
  BY ClientStepMakes
<1>1. ClientInv' /\ Inv'
  <2>1. ClientInv'
    BY NextClients DEF PlainInv, ClientNext
  <2> QED
    BY <2>1 DEF ClientInv, KeyInv
<1>2. \A t \in Tasks : Untaken(t)' => Untaken(t)
  BY <1>m DEF Untaken, ClientMakes
<1>3. \A w \in Workers, t \in Tasks : HasPermit(w, t)' => HasPermit(w, t)
  BY <1>m DEF HasPermit
<1>4. OnceInv'
  BY <1>m, <1>1, <1>2, <1>3, KeepsOnce DEF PlainInv, TruthInv, OnceInv
<1>5. Truth'
  <2>1. \A t \in Tasks : \/ tasks'[t].status = tasks[t].status
                         \/ tasks'[t].status \in NeverRun /\ tasks[t].status \in NeverRun
    BY <1>m DEF ClientMakes, NeverRun
  <2> QED
    BY <1>m, <1>2, <2>1, QuietTruth DEF PlainInv
<1>6. ClaimInv'
  <2>1. ClaimStandsWhileRunning'
    BY <1>m DEF ClaimStandsWhileRunning, Fits
  <2>2. ClaimsNamed'
    BY <1>m DEF PlainInv, ClaimInv, ClaimsNamed
  <2> QED
    BY <1>1, <2>1, <2>2 DEF ClaimInv
<1>7. ClocksBehind'
  BY <1>m DEF PlainInv, ClocksBehind
<1>8. NoneSaving' /\ (\A e \in Clients : UpdateOK(e))'
  BY UpdatesStayOK
<1> QED
  BY <1>1, <1>4, <1>5, <1>6, <1>7, <1>8 DEF PlainInv, TruthInv

\* A task the engine wrote to does not wait again.
LEMMA EngineStepKeepsPlain ==
  ASSUME PlainInv, EngineStep, UNCHANGED <<clients, asked>>
  PROVE  PlainInv'
<1>1. Next /\ Inv
  BY DEF EngineStep, Next, PlainInv, ClaimInv
<1>2. ClientInv'
  BY EngineStepKeeps DEF PlainInv
<1>3. OnceInv' /\ Truth'
  BY <1>1, NextOnce, NextTruth DEF PlainInv, TruthInv
<1>4. ClaimInv' /\ ClocksBehind'
  BY <1>1, NextClaims, NextClocks DEF PlainInv
<1>5. \A t \in Tasks : tasks'[t].status = "pending" => tasks[t].status \in {"absent", "pending"}
  BY <1>1, EngineStepMakes DEF EngineMakes
<1>6. ASSUME NEW c \in Clients PROVE UpdateOK(c)'
  <2>1. clients[c].step = "updating" =>
          clients[c].uid \in Tasks /\ tasks[clients[c].uid].status # "absent"
    BY DEF PlainInv, ClientInv, CallOK
  <2> QED
    BY <1>5, <2>1 DEF PlainInv, UpdateOK
<1>7. NoneSaving'
  BY DEF PlainInv, NoneSaving
<1> QED
  BY <1>2, <1>3, <1>4, <1>6, <1>7 DEF PlainInv, TruthInv

LEMMA InitPlain == ClientInit => PlainInv
<1> SUFFICES ASSUME ClientInit PROVE PlainInv
  OBVIOUS
<1>1. Init /\ clients = [c \in Clients |-> NoCall]
  BY DEF ClientInit
<1>2. ClientInv /\ OnceInv /\ ClaimInv
  BY <1>1, InitClients, InitOnce, InitClaims
<1>3. Truth /\ ClocksBehind
  BY <1>1 DEF Init, Truth, Truthful, TruthOf, HasPermit, Idle, Absent, Ran, ClocksBehind
<1>4. NoneSaving /\ \A c \in Clients : UpdateOK(c)
  BY <1>1, NoCallIs DEF NoneSaving, UpdateOK
<1> QED
  BY <1>2, <1>3, <1>4 DEF PlainInv, TruthInv

LEMMA NextPlain ==
  ASSUME NoSaves, PlainInv, [ClientNext]_clientVars
  PROVE  PlainInv'
<1>1. CASE UNCHANGED clientVars
  <2>1. UNCHANGED vars /\ UNCHANGED <<clients, asked, tasks>>
    BY <1>1 DEF clientVars, vars
  <2>2. ClientInv' /\ OnceInv' /\ Truth'
    BY <1>1, <2>1, NextClients, NextOnce, NextTruth DEF PlainInv, TruthInv
  <2>3. ClaimInv' /\ ClocksBehind'
    BY <2>1, NextClaims, NextClocks DEF PlainInv, ClaimInv
  <2>4. NoneSaving' /\ (\A c \in Clients : UpdateOK(c))'
    BY <2>1 DEF PlainInv, NoneSaving, UpdateOK
  <2> QED
    BY <2>2, <2>3, <2>4 DEF PlainInv, TruthInv
<1> QED
  BY <1>1, ClientStepKeepsPlain, EngineStepKeepsPlain DEF ClientNext

LEMMA PlainInvariant ==
  ASSUME NoSaves
  PROVE  ClientSpec => []PlainInv
<1>1. PlainInv /\ [ClientNext]_clientVars => PlainInv'
  BY NextPlain
<1> QED
  BY <1>1, InitPlain, PTL DEF ClientSpec

\* Where no client calls save(), a call starts at most once, however the steps of
\* schedule(key=) and update(deadline=) fall between those of the workers.
THEOREM OnceWithoutSaves == ASSUME NoSaves PROVE ClientSpec => []AtMostOnce
<1>1. PlainInv => AtMostOnce
  BY DEF PlainInv, TruthInv, OnceInv
<1> QED
  BY <1>1, PlainInvariant, PTL

\* Where no client calls save(), the recorded outcome says what became of the call.
THEOREM OutcomesAreTrueWithoutSaves == ASSUME NoSaves PROVE ClientSpec => []OutcomeFitsRuns
<1>1. PlainInv => OutcomeFitsRuns
  BY DEF PlainInv, TruthInv, Truth, TruthOf, Ran, NeverRun, OutcomeFitsRuns
<1> QED
  BY <1>1, PlainInvariant, PTL

\* Where no client calls save(), a claim stands exactly while its task is running, and a
\* waiting task is claimable exactly at its deadline: an edit that was decided before a
\* claim and lands after it moves the lease of that claim, but leaves the claim.
THEOREM ClaimsStandWithoutSaves == ASSUME NoSaves PROVE ClientSpec => []ClaimStandsWhileRunning
<1>1. PlainInv => ClaimStandsWhileRunning
  BY DEF PlainInv, ClaimInv
<1> QED
  BY <1>1, PlainInvariant, PTL

\* Where no client calls save(), a live claim is ended by the worker that made it alone.
THEOREM LiveClaimsAreSafeWithoutSaves == ASSUME NoSaves PROVE ClientSpec => LiveClaimIsSafe
<1>1. ASSUME PlainInv, [ClientNext]_clientVars PROVE [OnlyItsOwn]_vars
  <2>1. ASSUME NEW c \in Clients, ClientStep(c) PROVE OnlyItsOwn
    <3>1. \A t \in Tasks : ClientMakes(tasks[t], tasks'[t])
      BY <1>1, <2>1, ClientStepMakes
    <3> QED
      BY <3>1 DEF ClientMakes, OnlyItsOwn
  <2>2. CASE EngineStep
    <3>1. CASE tasks' = tasks
      BY <3>1 DEF OnlyItsOwn
    <3> QED
      BY <1>1, <2>2, <3>1, WorkOnlyItsOwn, OtherOnlyItsOwn
         DEF EngineStep, Tick, Crash, Restart, PlainInv, ClaimInv
  <2>3. CASE UNCHANGED clientVars
    BY <2>3 DEF clientVars
  <2> QED
    BY <1>1, <2>1, <2>2, <2>3 DEF ClientNext
<1> QED
  BY <1>1, PlainInvariant, PTL DEF ClientSpec, LiveClaimIsSafe, OnlyItsOwn

\* What a worker took off the queue is never waiting again, where no client calls save():
\* of the calls of a client, only save() can put work back.
THEOREM NothingIsPutBackWithoutSaves == ASSUME NoSaves PROVE ClientSpec => CopyPutsNothingBack
<1> DEFINE PutsNothingBack ==
             \A t \in Tasks : tasks[t].status \in {"running", "done", "failed", "timeout"} =>
                                tasks'[t].status # "pending"
<1>1. ASSUME PlainInv, [ClientNext]_clientVars PROVE [PutsNothingBack]_clientVars
  <2>1. ASSUME NEW c \in Clients, ClientStep(c) PROVE PutsNothingBack
    <3>1. \A t \in Tasks : ClientMakes(tasks[t], tasks'[t])
      BY <1>1, <2>1, ClientStepMakes
    <3> QED
      BY <3>1 DEF ClientMakes
  <2>2. CASE EngineStep
    <3>1. \A t \in Tasks : tasks'[t].status = "pending" => tasks[t].status \in {"absent", "pending"}
      BY <1>1, <2>2, EngineStepMakes DEF EngineMakes, PlainInv, ClaimInv
    <3> QED
      BY <3>1
  <2> QED
    BY <1>1, <2>1, <2>2 DEF ClientNext
<1> QED
  BY <1>1, PlainInvariant, PTL DEF ClientSpec, CopyPutsNothingBack

LEMMA ClientStepMaps ==
  ASSUME NoSaves, PlainInv, NEW c \in Clients, ClientStep(c)
  PROVE  Kept
<1>m. /\ workers' = workers /\ runs' = runs
      /\ \A t \in Tasks : ClientMakes(tasks[t], tasks'[t])
  BY ClientStepMakes
<1>p. \A t \in Tasks : SamePermit(t)
  BY <1>m, SamePermits DEF HasPermit
<1>1. CASE \A t \in Tasks : tasks'[t].status = tasks[t].status
  BY <1>m, <1>p, <1>1, SameStatusSameStage, Stutter DEF SameStage
<1>2. ASSUME NEW t \in Tasks, tasks'[t].status # tasks[t].status
      PROVE  Kept
  <2>1. tasks[t].status = "absent" /\ tasks'[t].status = "pending"
    BY <1>m, <1>2 DEF ClientMakes
  <2>2. StageOf(tasks[t]) = "none" /\ StageOf(tasks'[t]) = "waiting"
    BY <2>1, StageIs
  <2>3. ASSUME NEW u \in Tasks, u # t PROVE tasks'[u] = tasks[u]
    <3>1. tasks \in [Tasks -> Document]
      BY ClientFacts DEF PlainInv
    <3>2. \/ tasks' = tasks
          \/ \E doc : tasks' = [tasks EXCEPT ![clients[c].uid] = doc]
      <4>1. CASE Beginning(c)
        BY <4>1 DEF Beginning, BeginSchedule, FindKey, BeginUpdate, vars
      <4>2. CASE Writing(c)
        BY <4>2 DEF Writing, TryInsert, Move, FinishUpdate
      <4> QED
        BY <4>1, <4>2, PlainSteps DEF PlainInv
    <3> QED
      BY <1>2, <2>3, <3>1, <3>2
  <2> QED
    BY <1>m, <1>p, <2>2, <2>3, MapSchedule DEF SameStage
<1> QED
  BY <1>1, <1>2

\* Where no client calls save(), the engine implements WorkOnce beside the clients too:
\* whatever their calls find, move and edit, a task is taken off the queue once, and ends
\* once.
THEOREM ClientsImplementWorkOnce == ASSUME NoSaves PROVE ClientSpec => ImplementsWorkOnce
<1>1. ASSUME PlainInv, [ClientNext]_clientVars PROVE Kept
  <2>1. CASE EngineStep \/ UNCHANGED clientVars
    <3>1. OnceInv /\ [Next]_vars
      BY <1>1, <2>1 DEF PlainInv, TruthInv, EngineStep, Next, clientVars
    <3> QED
      BY <3>1, NextMaps
  <2> QED
    BY <1>1, <2>1, ClientStepMaps DEF ClientNext
<1>2. PlainInv /\ [ClientNext]_clientVars => [Promise!Next]_(Promise!vars)
  BY <1>1 DEF Kept
<1>3. ClientInit => Promise!Init
  BY InitMaps DEF ClientInit
<1> QED
  BY <1>2, <1>3, PlainInvariant, PTL DEF ClientSpec, ImplementsWorkOnce, Promise!Spec
=============================================================================
