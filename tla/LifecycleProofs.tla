--------------------------- MODULE LifecycleProofs ---------------------------
(***************************************************************************)
(* Theorems about Lifecycle, for any engines, worker threads and watchers. *)
(***************************************************************************)
EXTENDS Lifecycle, FiniteSetTheorems, TLAPS

(* Types                                                                   *)

LEMMA InitTypes == Init => TypeOK
<1> SUFFICES ASSUME Init
             PROVE  TypeOK
  OBVIOUS
<1>1. runs \in 0..MaxRuns /\ signals \in 0..MaxSignals
  BY BoundsAssumption DEF Init
<1> QED
  BY <1>1 DEF Init, TypeOK, MainSteps

\* Of the threads not started yet, one is taken.
LEMMA TakenIsUnborn ==
  /\ \A e \in Engines : Unborn(e) # {} => Any(Unborn(e)) \in Unborn(e)
  /\ Unwatching # {} => Any(Unwatching) \in Unwatching
BY DEF Any

\* A step of the main thread keeps every type ...
LEMMA StartTypes ==
  ASSUME TypeOK, Start \/ FailToStart
  PROVE  TypeOK'
<1>1. CASE Run
  BY <1>1, BoundsAssumption
  DEF Run, At, TypeOK, MainSteps, heartVars, threadVars, watchVars
<1>2. CASE Reset
  BY <1>2 DEF Reset, At, TypeOK, MainSteps, threadVars, watchVars, boundVars
<1>3. CASE Verify
  BY <1>3 DEF Verify, At, TypeOK, MainSteps, heartVars, threadVars, watchVars, boundVars
<1>4. CASE Register
  BY <1>4 DEF Register, At, TypeOK, MainSteps, threadVars, watchVars, boundVars
<1>5. CASE StartHeart
  BY <1>5 DEF StartHeart, At, TypeOK, MainSteps, threadVars, watchVars, boundVars
<1>6. CASE Report
  BY <1>6 DEF Report, At, Beaten, TypeOK, MainSteps, threadVars, watchVars, boundVars
<1>7. ASSUME NEW e \in Engines, StartEngine(e)
      PROVE  TypeOK'
  <2> DEFINE new == Any(Unborn(e))
  <2>1. new \in Workers /\ EngineOf[new] = e /\ workers[new] = "unborn"
    BY <1>7, TakenIsUnborn DEF StartEngine, Unborn
  <2>2. /\ workers' = [workers EXCEPT ![new] = "top"]
        /\ threads' = [threads EXCEPT ![e] = {x \in threads[e] : Alive(x)} \cup {new}]
    BY <1>7 DEF StartEngine, Known
  <2> HIDE DEF new
  <2>3. workers' \in [Workers -> {"unborn", "top", "busy", "ended"}]
    BY <2>2 DEF TypeOK
  <2>4. threads' \in [Engines -> SUBSET Workers]
    BY <2>1, <2>2 DEF TypeOK
  <2>5. \A f \in Engines : \A x \in threads'[f] : EngineOf[x] = f /\ workers'[x] # "unborn"
    BY <2>1, <2>2 DEF TypeOK
  <2> QED
    BY <1>7, <2>3, <2>4, <2>5 DEF StartEngine, At, TypeOK, MainSteps, heartVars, watchVars, boundVars
<1>8. ASSUME NEW e \in Engines, SkipEngine(e)
      PROVE  TypeOK'
  BY <1>8 DEF SkipEngine, At, TypeOK, MainSteps, heartVars, threadVars, watchVars, boundVars
<1>9. CASE FailToStart
  BY <1>9 DEF FailToStart, At, TypeOK, MainSteps, heartVars, threadVars, watchVars, boundVars
<1> QED
  BY <1>1, <1>2, <1>3, <1>4, <1>5, <1>6, <1>7, <1>8, <1>9 DEF Start

LEMMA StopTypes ==
  ASSUME TypeOK, Stop \/ Signal \/ SignalAgain
  PROVE  TypeOK'
<1>1. CASE Join
  BY <1>1 DEF Join, At, TypeOK, MainSteps, heartVars, threadVars, watchVars, boundVars
<1>2. CASE RequestStop
  BY <1>2 DEF RequestStop, AllStopped, At, TypeOK, MainSteps, heartVars, watchVars, boundVars
<1>3. CASE Quit
  BY <1>3 DEF Quit, At, TypeOK, MainSteps, threadVars, watchVars, boundVars
<1>4. CASE LeaveHeart
  BY <1>4 DEF LeaveHeart, At, TypeOK, MainSteps, heartVars, threadVars, watchVars, boundVars
<1>5. CASE OutlastWait
  BY <1>5 DEF OutlastWait, At, TypeOK, MainSteps, threadVars, watchVars, boundVars
<1>6. CASE Deregister
  BY <1>6 DEF Deregister, At, TypeOK, MainSteps, threadVars, watchVars, boundVars
<1>7. ASSUME NEW e \in Engines, Drain(e)
      PROVE  TypeOK'
  <2>1. threads' \in [Engines -> SUBSET Workers]
    BY <1>7 DEF Drain, TypeOK
  <2>2. \A f \in Engines : \A x \in threads'[f] : EngineOf[x] = f /\ workers'[x] # "unborn"
    BY <1>7 DEF Drain, TypeOK
  <2>3. drained' \in BOOLEAN
    BY <1>7, Zenon DEF Drain
  <2> QED
    BY <1>7, <2>1, <2>2, <2>3 DEF Drain, At, TypeOK, MainSteps, heartVars, watchVars, boundVars
<1>8. CASE Signal
  <2>1. told' \in BOOLEAN
    BY <1>8, Zenon DEF Signal
  <2> QED
    BY <1>8, <2>1, BoundsAssumption DEF Signal, AllStopped, Handled, TypeOK, MainSteps, heartVars, watchVars
<1>9. CASE SignalAgain
  BY <1>9, BoundsAssumption DEF SignalAgain, Handled, TypeOK, MainSteps, heartVars, threadVars, watchVars
<1> QED
  BY <1>1, <1>2, <1>3, <1>4, <1>5, <1>6, <1>7, <1>8, <1>9 DEF Stop

\* ... and so does one of the threads it starts.
LEMMA ThreadTypes ==
  ASSUME TypeOK,
         \/ Heartbeat
         \/ \E x \in Workers : Loop(x) \/ Worked(x) \/ TimeOut(x)
         \/ \E w \in Watchers : Watch(w) \/ CallReturns(w)
  PROVE  TypeOK'
<1>1. CASE Heartbeat
  BY <1>1 DEF Heartbeat, LeaveWait, Beat, SeeQuit, EndHeart, Beaten, TypeOK, stateVars, threadVars,
              watchVars, boundVars
<1>2. ASSUME NEW x \in Workers, Loop(x) \/ Worked(x)
      PROVE  TypeOK'
  <2>1. workers' \in [Workers -> {"unborn", "top", "busy", "ended"}]
    BY <1>2 DEF Loop, Work, EndWorker, Worked, TypeOK
  <2>2. \A y \in Workers : workers[y] # "unborn" => workers'[y] # "unborn"
    BY <1>2 DEF Loop, Work, EndWorker, Worked, TypeOK
  <2> QED
    BY <1>2, <2>1, <2>2 DEF Loop, Work, EndWorker, Worked, TypeOK, stateVars, heartVars, watchVars, boundVars
<1>3. ASSUME NEW x \in Workers, TimeOut(x)
      PROVE  TypeOK'
  <2> DEFINE new == Any(Unwatching)
  <2>1. new \in Watchers /\ watchers[new] = "unborn"
    BY <1>3, TakenIsUnborn DEF TimeOut, Unwatching
  <2>2. /\ workers' = [workers EXCEPT ![x] = "top"]
        /\ watchers' = [watchers EXCEPT ![new] = "waiting"]
    BY <1>3 DEF TimeOut
  <2> HIDE DEF new
  <2>3. /\ workers' \in [Workers -> {"unborn", "top", "busy", "ended"}]
        /\ \A y \in Workers : workers[y] # "unborn" => workers'[y] # "unborn"
    BY <2>2 DEF TypeOK
  <2>4. /\ watchers' \in [Watchers -> {"unborn", "waiting", "counting", "retiring", "done"}]
        /\ \A w \in Watchers : watchers[w] = "retiring" => watchers'[w] = "retiring"
    BY <2>1, <2>2 DEF TypeOK
  <2> QED
    BY <1>3, <2>3, <2>4 DEF TimeOut, TypeOK, stateVars, heartVars, boundVars
<1>4. ASSUME NEW w \in Watchers, CallStops(w) \/ Abandon(w) \/ StayOn(w) \/ Retire(w) \/ CallReturns(w)
      PROVE  TypeOK'
  <2>1. registered' \in BOOLEAN
    BY <1>4 DEF CallStops, Abandon, StayOn, Retire, CallReturns, Beaten, TypeOK, heartVars
  <2>2. /\ watchers' \in [Watchers -> {"unborn", "waiting", "counting", "retiring", "done"}]
        /\ flagging' \in [Watchers -> SUBSET Engines]
        /\ \A v \in Watchers : flagging'[v] = {} \/ watchers'[v] = "retiring"
    BY <1>4 DEF CallStops, Abandon, StayOn, Retire, CallReturns, TypeOK
  <2>3. abandoned' \subseteq Watchers /\ retired' \in BOOLEAN
    BY <1>4 DEF CallStops, Abandon, StayOn, Retire, CallReturns, TypeOK
  <2> QED
    BY <1>4, <2>1, <2>2, <2>3 DEF CallStops, Abandon, StayOn, Retire, CallReturns, TypeOK, stateVars,
              threadVars, heartVars, boundVars
<1>5. ASSUME NEW w \in Watchers, NEW e \in Engines, StopToRetire(w, e)
      PROVE  TypeOK'
  <2>1. told' \in BOOLEAN
    BY <1>5, Zenon DEF StopToRetire
  <2>2. /\ watchers' = [watchers EXCEPT ![w] = IF flagging[w] = {e} THEN "done" ELSE "retiring"]
        /\ flagging' = [flagging EXCEPT ![w] = flagging[w] \ {e}]
    BY <1>5 DEF StopToRetire, Flagged
  <2>3. /\ watchers' \in [Watchers -> {"unborn", "waiting", "counting", "retiring", "done"}]
        /\ flagging' \in [Watchers -> SUBSET Engines]
        /\ \A v \in Watchers : flagging'[v] = {} \/ watchers'[v] = "retiring"
    BY <2>2 DEF TypeOK
  <2>4. stop' \in [Engines -> BOOLEAN]
    BY <1>5 DEF StopToRetire, TypeOK
  <2> QED
    BY <1>5, <2>1, <2>3, <2>4 DEF StopToRetire, TypeOK, heartVars, boundVars
<1> QED
  BY <1>1, <1>2, <1>3, <1>4, <1>5 DEF Watch

LEMMA StepTypes == TypeOK /\ [Next]_vars => TypeOK'
<1> SUFFICES ASSUME TypeOK, [Next]_vars
             PROVE  TypeOK'
  OBVIOUS
<1>1. CASE Next
  BY <1>1, StartTypes, StopTypes, ThreadTypes DEF Next
<1>2. CASE UNCHANGED vars
  BY <1>2 DEF vars, stateVars, threadVars, heartVars, watchVars, boundVars, TypeOK
<1> QED
  BY <1>1, <1>2

\* Every variable keeps its type: in particular, whoever visits the engines one by
\* one, to start, stop or flag them, visits each of them, and leaves none behind.
THEOREM TypeCorrect == Spec => []TypeOK
<1> QED
  BY InitTypes, StepTypes, PTL DEF Spec

-----------------------------------------------------------------------------
(* Draining                                                                *)

\* Where no worker is at work, if the last stop said so.
Quiet == {"idle", "installed", "verifying", "registering", "monitoring",
          "quitting", "leaving", "deregistering"}

\* Whoever is alive is known to its WorkerLoop, and is not yet drained if the
\* engines visited so far all were.
AliveIsKnown ==
  \A x \in Workers : Alive(x) =>
    /\ x \in threads[EngineOf[x]]
    /\ main \in Quiet => ~drained
    /\ main = "draining" /\ drained => EngineOf[x] \in todo

DrainInv == TypeOK /\ AliveIsKnown

LEMMA InitDrain == Init => DrainInv
BY InitTypes DEF Init, DrainInv, AliveIsKnown, Alive

LEMMA StepDrain == DrainInv /\ [Next]_vars => DrainInv'
<1> SUFFICES ASSUME DrainInv, [Next]_vars
             PROVE  AliveIsKnown'
  BY StepTypes DEF DrainInv
<1> USE DEF DrainInv
<1>e. \A x \in Workers : EngineOf[x] \in Engines
  BY EnginesAssumption
<1>1. CASE Run \/ Reset \/ Verify \/ Register \/ StartHeart \/ Report \/ FailToStart
  BY <1>1 DEF Run, Reset, Verify, Register, StartHeart, Report, FailToStart, At, AliveIsKnown, Alive,
              Quiet, threadVars
<1>2. ASSUME NEW e \in Engines, StartEngine(e)
      PROVE  AliveIsKnown'
  <2> DEFINE new == Any(Unborn(e))
  <2>1. new \in Workers /\ EngineOf[new] = e
    BY <1>2, TakenIsUnborn DEF StartEngine, Unborn
  <2>2. /\ workers' = [workers EXCEPT ![new] = "top"]
        /\ threads' = [threads EXCEPT ![e] = {x \in threads[e] : Alive(x)} \cup {new}]
        /\ main = "starting" /\ main' \in {"starting", "reporting"}
    BY <1>2 DEF StartEngine, Known, At
  <2> HIDE DEF new
  <2>3. ASSUME NEW x \in Workers, Alive(x)'
        PROVE  x \in threads'[EngineOf[x]]
    <3>1. CASE x = new
      BY <2>1, <2>2, <3>1 DEF TypeOK
    <3>2. CASE x # new
      <4>1. Alive(x)
        BY <2>2, <2>3, <3>2 DEF Alive, TypeOK
      <4> QED
        BY <1>e, <2>2, <4>1 DEF AliveIsKnown, TypeOK
    <3> QED
      BY <3>1, <3>2
  <2> QED
    BY <2>2, <2>3 DEF AliveIsKnown, Quiet
<1>3. ASSUME NEW e \in Engines, SkipEngine(e)
      PROVE  AliveIsKnown'
  BY <1>3 DEF SkipEngine, At, AliveIsKnown, Alive, Quiet, threadVars
<1>4. CASE Join \/ RequestStop \/ Quit \/ LeaveHeart \/ OutlastWait \/ Deregister \/ Signal \/ SignalAgain
  BY <1>4, <1>e DEF Join, RequestStop, Quit, LeaveHeart, OutlastWait, Deregister, Signal, SignalAgain,
              Handled, At, AliveIsKnown, Alive, Quiet, threadVars
<1>5. ASSUME NEW e \in Engines, Drain(e)
      PROVE  AliveIsKnown'
  <2>1. /\ workers' = workers /\ main = "draining" /\ todo' = todo \ {e}
        /\ threads' = [threads EXCEPT ![e] = {x \in threads[e] : Alive(x)}]
        /\ drained' = (drained /\ threads'[e] = {})
        /\ main' = IF todo = {e} THEN "quitting" ELSE main
    BY <1>5 DEF Drain, At
  <2>2. ASSUME NEW x \in Workers, Alive(x)'
        PROVE  /\ x \in threads'[EngineOf[x]]
               /\ drained' => EngineOf[x] \in todo /\ EngineOf[x] # e
    <3>1. Alive(x) /\ x \in threads[EngineOf[x]]
      BY <2>1, <2>2 DEF Alive, AliveIsKnown
    <3>2. x \in threads'[EngineOf[x]]
      BY <1>e, <2>1, <3>1 DEF TypeOK
    <3>3. drained' => drained /\ threads'[e] = {}
      BY <2>1, Zenon
    <3> QED
      BY <2>1, <3>1, <3>2, <3>3 DEF AliveIsKnown
  <2>3. main' = "draining" \/ (main' = "quitting" /\ todo = {e})
    BY <2>1
  <2> QED
    BY <2>1, <2>2, <2>3 DEF AliveIsKnown, Quiet
<1>6. CASE Heartbeat
  BY <1>6 DEF Heartbeat, LeaveWait, Beat, SeeQuit, EndHeart, AliveIsKnown, Alive, stateVars, threadVars
<1>7. ASSUME NEW x \in Workers, Loop(x) \/ Worked(x) \/ TimeOut(x)
      PROVE  AliveIsKnown'
  <2>1. \A y \in Workers : Alive(y)' => Alive(y)
    BY <1>7 DEF Loop, Work, EndWorker, Worked, TimeOut, Alive, TypeOK
  <2> QED
    BY <1>7, <2>1 DEF Loop, Work, EndWorker, Worked, TimeOut, AliveIsKnown, stateVars
<1>8. ASSUME NEW w \in Watchers, Watch(w) \/ CallReturns(w)
      PROVE  AliveIsKnown'
  BY <1>8 DEF Watch, CallStops, Abandon, StayOn, Retire, CallReturns, StopToRetire, AliveIsKnown, Alive,
              stateVars, threadVars
<1>9. CASE UNCHANGED vars
  BY <1>9 DEF vars, stateVars, threadVars, AliveIsKnown, Alive
<1> QED
  BY <1>1, <1>2, <1>3, <1>4, <1>5, <1>6, <1>7, <1>8, <1>9 DEF Next, Start, Stop

\* stopWorkers() returns that the work drained only if no worker thread of this
\* run, or revived by it, is left.
THEOREM StopTellsTheTruth == Spec => []DrainedMeansDrained
<1>1. DrainInv => DrainedMeansDrained
  BY DEF DrainInv, AliveIsKnown, DrainedMeansDrained, Quiet
<1> QED
  BY <1>1, InitDrain, StepDrain, PTL DEF Spec

-----------------------------------------------------------------------------
(* Checking in                                                             *)

\* From register() to deregister() ...
CheckedIn == {"monitoring", "starting", "reporting", "joining", "stopping",
              "draining", "quitting", "leaving", "deregistering"}

\* ... in which the heartbeat runs from _monitor() to the end of the drain, on
\* a quit flag that is not set before; when it does not, there is none, unless
\* it once outlasted the wait for its end.
HeartGoes ==
  /\ main \in CheckedIn => registered
  /\ main \in CheckedIn \ {"leaving", "deregistering"} => ~quit
  /\ main \in {"verifying", "registering"} => ~quit
  /\ main \in CheckedIn \ {"monitoring", "leaving", "deregistering"} /\ ~outlasted =>
       heart \in {"waiting", "beating"}
  /\ main \in {"idle", "installed", "verifying", "registering", "monitoring", "deregistering"} /\ ~outlasted =>
       heart = "none"

HeartInv == DrainInv /\ HeartGoes

LEMMA InitHeart == Init => HeartInv
BY InitDrain DEF Init, HeartInv, HeartGoes, CheckedIn

LEMMA StepHeart == HeartInv /\ [Next]_vars => HeartInv'
<1> SUFFICES ASSUME HeartInv, [Next]_vars
             PROVE  HeartGoes'
  BY StepDrain DEF HeartInv
<1> USE DEF HeartInv, DrainInv
<1>1. CASE Run \/ Reset \/ Verify \/ Register \/ StartHeart \/ Report \/ FailToStart
  BY <1>1 DEF Run, Reset, Verify, Register, StartHeart, Report, FailToStart, At, HeartAlive, Beaten,
              HeartGoes, CheckedIn, heartVars, TypeOK
<1>2. ASSUME NEW e \in Engines, StartEngine(e) \/ SkipEngine(e) \/ Drain(e)
      PROVE  HeartGoes'
  BY <1>2 DEF StartEngine, SkipEngine, Drain, At, HeartGoes, CheckedIn, heartVars
<1>3. CASE Join \/ RequestStop \/ Quit \/ LeaveHeart \/ OutlastWait \/ Deregister
  <2>1. CASE Join \/ RequestStop
    BY <2>1 DEF Join, RequestStop, At, HeartGoes, CheckedIn, heartVars
  <2>2. CASE Quit
    BY <2>2 DEF Quit, At, HeartGoes, CheckedIn
  <2>3. CASE LeaveHeart
    BY <2>3 DEF LeaveHeart, At, Waited, HeartAlive, HeartGoes, CheckedIn, heartVars, TypeOK
  <2>4. CASE OutlastWait
    BY <2>4 DEF OutlastWait, At, HeartGoes, CheckedIn
  <2>5. CASE Deregister
    BY <2>5 DEF Deregister, At, HeartGoes, CheckedIn
  <2> QED
    BY <1>3, <2>1, <2>2, <2>3, <2>4, <2>5
<1>4. CASE Signal \/ SignalAgain
  BY <1>4 DEF Signal, SignalAgain, HeartGoes, CheckedIn, heartVars
<1>5. CASE Heartbeat
  BY <1>5 DEF Heartbeat, LeaveWait, Beat, SeeQuit, EndHeart, Beaten, HeartGoes, CheckedIn, stateVars
<1>6. ASSUME NEW x \in Workers, Loop(x) \/ Worked(x) \/ TimeOut(x)
      PROVE  HeartGoes'
  BY <1>6 DEF Loop, Work, EndWorker, Worked, TimeOut, HeartGoes, stateVars, heartVars
<1>7. ASSUME NEW w \in Watchers, Watch(w) \/ CallReturns(w)
      PROVE  HeartGoes'
  BY <1>7 DEF Watch, CallStops, Abandon, StayOn, Retire, CallReturns, StopToRetire, Beaten, HeartGoes,
              stateVars, heartVars
<1>8. CASE UNCHANGED vars
  BY <1>8 DEF vars, stateVars, heartVars, HeartGoes
<1> QED
  BY <1>1, <1>2, <1>3, <1>4, <1>5, <1>6, <1>7, <1>8 DEF Next, Start, Stop

\* A process with a worker at work has its record and its heartbeat.
THEOREM WorkingIsCheckedIn == Spec => []CheckedInWhileWorking
<1>1. HeartInv => CheckedInWhileWorking
  <2> SUFFICES ASSUME HeartInv, Running, drained, NEW x \in Workers, workers[x] = "busy"
               PROVE  registered /\ (heart \in {"waiting", "beating"} \/ outlasted)
    BY DEF CheckedInWhileWorking
  <2>1. main \notin Quiet /\ main # "over"
    BY DEF HeartInv, DrainInv, AliveIsKnown, Alive, Running
  <2> QED
    BY <2>1 DEF HeartInv, DrainInv, HeartGoes, CheckedIn, Quiet, TypeOK, MainSteps
<1> QED
  BY <1>1, InitHeart, StepHeart, PTL DEF Spec

\* No beat, however late, puts a process back that checked out.
THEOREM BeatsNeverRegister == Spec => OnlyRegisterRegisters
<1>1. TypeOK /\ [Next]_vars => [~registered /\ registered' => main = "registering"]_vars
  <2> SUFFICES ASSUME TypeOK, Next, ~registered, registered', main # "registering"
               PROVE  FALSE
    BY DEF vars
  <2>1. CASE Start
    BY <2>1 DEF Start, Run, Reset, Verify, Register, StartHeart, Report, StartEngine, SkipEngine, At,
                Beaten, heartVars
  <2>2. CASE Stop \/ FailToStart
    BY <2>2 DEF Stop, Join, RequestStop, Quit, LeaveHeart, OutlastWait, Deregister, Drain, FailToStart,
                heartVars
  <2>3. CASE Signal \/ SignalAgain
    BY <2>3 DEF Signal, SignalAgain, heartVars
  <2>4. CASE Heartbeat
    BY <2>4 DEF Heartbeat, LeaveWait, Beat, SeeQuit, EndHeart, Beaten
  <2>5. CASE \E x \in Workers : Loop(x) \/ Worked(x) \/ TimeOut(x)
    BY <2>5 DEF Loop, Work, EndWorker, Worked, TimeOut, heartVars
  <2>6. CASE \E w \in Watchers : Watch(w) \/ CallReturns(w)
    BY <2>6 DEF Watch, CallStops, Abandon, StayOn, Retire, CallReturns, StopToRetire, Beaten, heartVars
  <2> QED
    BY <2>1, <2>2, <2>3, <2>4, <2>5, <2>6 DEF Next
<1> QED
  BY <1>1, InitTypes, StepTypes, PTL DEF Spec, OnlyRegisterRegisters

-----------------------------------------------------------------------------
(* Retiring                                                                *)

\* The calls counted abandoned are as many as a number.
LEMMA AbandonedCount ==
  ASSUME TypeOK
  PROVE  /\ IsFiniteSet(abandoned)
         /\ Cardinality(abandoned) \in Nat
BY WatchersAssumption, FS_Subset, FS_CardinalityType DEF TypeOK

LEMMA StepLimit == TypeOK /\ LimitIsSeen /\ [Next]_vars => LimitIsSeen'
<1> SUFFICES ASSUME TypeOK, LimitIsSeen, [Next]_vars
             PROVE  LimitIsSeen'
  OBVIOUS
<1>r. RetireAfter \in Nat /\ Cardinality(abandoned) \in Nat
  BY LimitAssumption, AbandonedCount
<1>1. ASSUME UNCHANGED <<abandoned, retired, watchers>>
      PROVE  LimitIsSeen'
  BY <1>1 DEF LimitIsSeen
<1>2. ASSUME NEW x \in Workers, TimeOut(x)
      PROVE  LimitIsSeen'
  <2>1. /\ watchers' = [watchers EXCEPT ![Any(Unwatching)] = "waiting"]
        /\ Any(Unwatching) \in Watchers /\ watchers[Any(Unwatching)] = "unborn"
        /\ UNCHANGED <<abandoned, retired>>
    BY <1>2, TakenIsUnborn DEF TimeOut, Unwatching
  <2>2. \A w \in Watchers : watchers[w] = "counting" => watchers'[w] = "counting"
    BY <2>1 DEF TypeOK
  <2> QED
    BY <2>1, <2>2 DEF LimitIsSeen
<1>3. ASSUME NEW w \in Watchers, Abandon(w)
      PROVE  LimitIsSeen'
  BY <1>3 DEF Abandon, LimitIsSeen, TypeOK
<1>4. ASSUME NEW w \in Watchers, CallReturns(w)
      PROVE  LimitIsSeen'
  <2>1. Cardinality(abandoned') <= Cardinality(abandoned)
    BY <1>4, AbandonedCount, FS_Subset DEF CallReturns
  <2>2. Cardinality(abandoned') \in Nat
    BY <1>4, AbandonedCount, FS_Subset, FS_CardinalityType DEF CallReturns
  <2> QED
    BY <1>4, <1>r, <2>1, <2>2 DEF CallReturns, LimitIsSeen
<1>5. ASSUME NEW w \in Watchers, CallStops(w) \/ StayOn(w) \/ Retire(w)
      PROVE  LimitIsSeen'
  BY <1>5, <1>r DEF CallStops, StayOn, Retire, TooMany, LimitIsSeen, TypeOK
<1>6. ASSUME NEW w \in Watchers, NEW e \in Engines, StopToRetire(w, e)
      PROVE  LimitIsSeen'
  BY <1>6 DEF StopToRetire, LimitIsSeen, TypeOK
<1>7. CASE \/ Start \/ FailToStart \/ Stop \/ Signal \/ SignalAgain \/ Heartbeat
           \/ \E x \in Workers : Loop(x) \/ Worked(x)
           \/ UNCHANGED vars
  <2>1. UNCHANGED <<abandoned, retired, watchers>>
    BY <1>7 DEF Start, Run, Reset, Verify, Register, StartHeart, Report, StartEngine, SkipEngine,
      FailToStart, Stop, Join, RequestStop, Quit, LeaveHeart, OutlastWait, Deregister, Drain, Signal,
      SignalAgain, Heartbeat, LeaveWait, Beat, SeeQuit, EndHeart, Loop, Work, EndWorker, Worked,
      vars, watchVars
  <2> QED
    BY <1>1, <2>1
<1> QED
  BY <1>2, <1>3, <1>4, <1>5, <1>6, <1>7 DEF Next, Watch

\* However many calls are abandoned at once, the process does not miss that they
\* are too many.
THEOREM TooManyIsSeen == Spec => []LimitIsSeen
<1>1. Init => LimitIsSeen
  BY LimitAssumption, FS_EmptySet DEF Init, LimitIsSeen
<1> QED
  BY <1>1, InitTypes, StepTypes, StepLimit, PTL DEF Spec

=============================================================================
