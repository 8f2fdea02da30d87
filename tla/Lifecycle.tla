------------------------------ MODULE Lifecycle ------------------------------
(***************************************************************************)
(* src/src/pymonque/app.py: how one worker process starts, stops, retires  *)
(* and checks in, and claims.py, WorkerLoop: the worker threads it starts. *)
(*                                                                         *)
(* Five kinds of thread meet here.  The main thread calls run(), or a host *)
(* calls startWorkers() and stopWorkers() itself; a signal handler runs in *)
(* it between any two of its steps.  Worker threads look at the stop flag  *)
(* of their engine between pieces of work.  The heartbeat checks the       *)
(* process in.  A watcher waits for each call that outlived its timeout,   *)
(* counts it as abandoned if it does not stop, and retires the process if  *)
(* that makes too many.                                                    *)
(*                                                                         *)
(* Each action is what one thread does up to the next point where another  *)
(* may see it.  The main thread is                                         *)
(*   idle          not started yet, or stopped                             *)
(*   installed     run() has installed its signal handlers                 *)
(*   verifying     startWorkers() is in init()                             *)
(*   registering   no worker of another version was seen                   *)
(*   monitoring    the process is registered                               *)
(*   starting      starting the engines in `todo`                          *)
(*   reporting     about to beat for the first time                        *)
(*   joining       in joinWorkers(), or back in the host                   *)
(*   stopping      in stopWorkers(): about to request the stop             *)
(*   draining      waiting for the engines in `todo`                       *)
(*   quitting      about to end the heartbeat                              *)
(*   leaving       waiting for the heartbeat, up to a second               *)
(*   deregistering about to check out                                      *)
(*   over          the process is gone                                     *)
(***************************************************************************)
EXTENDS Integers, FiniteSets

CONSTANTS
  Engines,       \* the task and scheduler engines, each given one worker a run
  TaskEngines,   \* those whose work can time out
  Workers,       \* worker threads; each is started once
  EngineOf,      \* worker thread -> the engine whose work() it calls
  Watchers,      \* threads that watch a call stopped at its timeout
  RetireAfter,   \* this many abandoned calls, and the process retires
  MaxRuns,       \* bound: times a host starts workers
  MaxSignals     \* bound: signals sent

ASSUME EnginesAssumption == TaskEngines \subseteq Engines /\ EngineOf \in [Workers -> Engines]
ASSUME LimitAssumption == RetireAfter \in Nat \ {0}
ASSUME WatchersAssumption == IsFiniteSet(Watchers)
ASSUME BoundsAssumption == MaxRuns \in Nat \ {0} /\ MaxSignals \in Nat

VARIABLES
  main,          \* where the main thread is
  hosted,        \* whether a host calls startWorkers(), and not run()
  todo,          \* the engines the main thread has yet to start or stop
  stopping,      \* app.stopping
  quit,          \* whether _quit is set, which ends the heartbeat
  stop,          \* engine -> whether the stop flag of its workers is set
  threads,       \* engine -> the worker threads its WorkerLoop knows
  workers,       \* worker thread -> where it is
  heart,         \* where the heartbeat thread is
  registered,    \* whether the registry has a record of this process
  watchers,      \* watcher -> where it is
  abandoned,     \* the watched calls that are counted abandoned, and run on
  flagging,      \* watcher that retires -> the engines it has yet to stop
  retired,       \* app.retired
  drained,       \* what the last stopWorkers() returns; TRUE once checked in again
  outlasted,     \* the heartbeat outlasted the wait for it (a history variable)
  told,          \* a stop was asked for while workers ran (a history variable)
  runs,          \* times workers were started
  signals        \* signals sent

threadVars == <<stop, threads, workers>>
heartVars == <<quit, heart, registered, outlasted>>
watchVars == <<watchers, abandoned, flagging, retired>>
boundVars == <<runs, signals>>
stateVars == <<main, hosted, todo, stopping, drained, told>>
vars == <<stateVars, threadVars, heartVars, watchVars, boundVars>>

-----------------------------------------------------------------------------
MainSteps == {"idle", "installed", "verifying", "registering", "monitoring",
              "starting", "reporting", "joining", "stopping", "draining",
              "quitting", "leaving", "deregistering", "over"}

Alive(x) == workers[x] \in {"top", "busy"}

HeartAlive == heart \in {"waiting", "beating", "ending"}

Init ==
  /\ main = "idle" /\ hosted \in BOOLEAN /\ todo = {}
  /\ stopping = FALSE
  /\ quit = FALSE
  /\ stop = [e \in Engines |-> FALSE]
  /\ threads = [e \in Engines |-> {}]
  /\ workers = [x \in Workers |-> "unborn"]
  /\ heart = "none"
  /\ registered = FALSE
  /\ watchers = [w \in Watchers |-> "unborn"]
  /\ abandoned = {}
  /\ flagging = [w \in Watchers |-> {}]
  /\ retired = FALSE /\ drained = TRUE
  /\ outlasted = FALSE /\ told = FALSE
  /\ runs = 0 /\ signals = 0

-----------------------------------------------------------------------------
(* The main thread: starting                                               *)

At(step) == main = step

\* run() installs its handlers, and is what a program ends with; a host does not
\* have to install any.
Run ==
  /\ At("idle")
  /\ runs < IF hosted THEN MaxRuns ELSE 1
  /\ runs' = runs + 1
  /\ main' = "installed"
  /\ UNCHANGED <<hosted, todo, stopping, drained, told, signals>>
  /\ UNCHANGED <<threadVars, heartVars, watchVars>>

\* The first lines of startWorkers(), whatever was asked for before.
Reset ==
  /\ At("installed")
  /\ stopping' = FALSE
  /\ quit' = FALSE
  /\ main' = "verifying"
  /\ UNCHANGED <<hosted, todo, drained, told, heart, registered, outlasted>>
  /\ UNCHANGED <<threadVars, watchVars, boundVars>>

\* init() found no live worker of another version, and did its housekeeping.
Verify ==
  /\ At("verifying")
  /\ main' = "registering"
  /\ UNCHANGED <<hosted, todo, stopping, drained, told>>
  /\ UNCHANGED <<threadVars, heartVars, watchVars, boundVars>>

Register ==
  /\ At("registering")
  /\ registered' = TRUE
  /\ main' = "monitoring"
  /\ UNCHANGED <<hosted, todo, stopping, drained, told, quit, heart, outlasted>>
  /\ UNCHANGED <<threadVars, watchVars, boundVars>>

\* _monitor: a heartbeat that is alive is left alone.
StartHeart ==
  /\ At("monitoring")
  /\ heart' = IF HeartAlive THEN heart ELSE "waiting"
  /\ main' = "starting"
  /\ todo' = Engines
  /\ drained' = TRUE
  /\ UNCHANGED <<hosted, stopping, told, quit, registered, outlasted>>
  /\ UNCHANGED <<threadVars, watchVars, boundVars>>

\* Threads not started yet are all alike.
Unborn(e) == {x \in Workers : EngineOf[x] = e /\ workers[x] = "unborn"}

Any(S) == CHOOSE x \in S : TRUE

\* Mutant of Known: start() knows only the threads it starts.
KnownNew(e, new) == {new}

\* The threads of a WorkerLoop after it started one: those still alive, too.
Known(e, new) == {x \in threads[e] : Alive(x)} \cup {new}

\* WorkerLoop.start() clears the stop flag, whoever set it, and starts its
\* threads, next to those of an earlier run that are still at work.
StartEngine(e) ==
  /\ At("starting")
  /\ e \in todo
  /\ Unborn(e) # {}
  /\ workers' = [workers EXCEPT ![Any(Unborn(e))] = "top"]
  /\ threads' = [threads EXCEPT ![e] = Known(e, Any(Unborn(e)))]
  /\ stop' = [stop EXCEPT ![e] = FALSE]
  /\ todo' = todo \ {e}
  /\ main' = IF todo = {e} THEN "reporting" ELSE main
  /\ UNCHANGED <<hosted, stopping, drained, told>>
  /\ UNCHANGED <<heartVars, watchVars, boundVars>>

\* beat() updates the record of the process, if there is one.
Beaten == registered

\* An engine that is given no workers keeps its flag; run() starts one somewhere.
SkipEngine(e) ==
  /\ At("starting")
  /\ e \in todo
  /\ hosted \/ todo # {e} \/ \E f \in Engines : threads[f] # {}
  /\ todo' = todo \ {e}
  /\ main' = IF todo = {e} THEN "reporting" ELSE main
  /\ UNCHANGED <<hosted, stopping, drained, told>>
  /\ UNCHANGED <<threadVars, heartVars, watchVars, boundVars>>

\* The first beat, which tells the workers; then joinWorkers().
Report ==
  /\ At("reporting")
  /\ registered' = Beaten
  /\ main' = "joining"
  /\ UNCHANGED <<hosted, todo, stopping, drained, told, quit, heart, outlasted>>
  /\ UNCHANGED <<threadVars, watchVars, boundVars>>

\* A database call of startWorkers() raises: out of run(), before its try, which
\* ends the process with the threads it has started, or into the host.
FailToStart ==
  /\ main \in {"verifying", "registering", "reporting"}
  /\ main' = IF hosted THEN (IF At("reporting") THEN "joining" ELSE "idle") ELSE "over"
  /\ UNCHANGED <<hosted, todo, stopping, drained, told>>
  /\ UNCHANGED <<threadVars, heartVars, watchVars, boundVars>>

-----------------------------------------------------------------------------
(* The main thread: stopping                                               *)

\* joinWorkers() of run() returns when every worker thread has ended, and waits
\* for that without a limit; a host stops its workers when it likes.
Join ==
  /\ At("joining")
  /\ hosted \/ \A e \in Engines : \A x \in threads[e] : ~Alive(x)
  /\ main' = "stopping"
  /\ UNCHANGED <<hosted, todo, stopping, drained, told>>
  /\ UNCHANGED <<threadVars, heartVars, watchVars, boundVars>>

\* Mutant of AllStopped: engines with no work in flight are left alone.
BusyStopped ==
  [e \in Engines |-> stop[e] \/ \E x \in threads[e] : workers[x] = "busy"]

\* requestStop(): the flag of every engine is set.
AllStopped == [e \in Engines |-> TRUE]

\* The heartbeat goes on while work drains.
RequestStop ==
  /\ At("stopping")
  /\ stopping' = TRUE
  /\ stop' = AllStopped
  /\ todo' = Engines
  /\ main' = "draining"
  /\ UNCHANGED <<hosted, drained, told, threads, workers>>
  /\ UNCHANGED <<heartVars, watchVars, boundVars>>

\* WorkerLoop.stop(): its threads have ended, or the timeout ran out.
Drain(e) ==
  /\ At("draining")
  /\ e \in todo
  /\ threads' = [threads EXCEPT ![e] = {x \in @ : Alive(x)}]
  /\ drained' = (drained /\ threads'[e] = {})
  /\ todo' = todo \ {e}
  /\ main' = IF todo = {e} THEN "quitting" ELSE main
  /\ UNCHANGED <<hosted, stopping, told, stop, workers>>
  /\ UNCHANGED <<heartVars, watchVars, boundVars>>

Quit ==
  /\ At("quitting")
  /\ quit' = TRUE
  /\ main' = "leaving"
  /\ UNCHANGED <<hosted, todo, stopping, drained, told, heart, registered, outlasted>>
  /\ UNCHANGED <<threadVars, watchVars, boundVars>>

\* Mutant of Waited: the monitors are not waited for.
NotWaited == TRUE

\* thread.join(1): the heartbeat has ended ...
Waited == ~HeartAlive

LeaveHeart ==
  /\ At("leaving")
  /\ Waited
  /\ main' = "deregistering"
  /\ UNCHANGED <<hosted, todo, stopping, drained, told>>
  /\ UNCHANGED <<threadVars, heartVars, watchVars, boundVars>>

\* ... or is in a beat that takes longer than the second it is waited for.
OutlastWait ==
  /\ At("leaving")
  /\ heart = "beating"
  /\ outlasted' = TRUE
  /\ main' = "deregistering"
  /\ UNCHANGED <<hosted, todo, stopping, drained, told, quit, heart, registered>>
  /\ UNCHANGED <<threadVars, watchVars, boundVars>>

\* deregister(), which logs a failure, and the handlers are restored.
Deregister ==
  /\ At("deregistering")
  /\ registered' \in {FALSE, registered}
  /\ told' = FALSE
  /\ main' = "idle"
  /\ UNCHANGED <<hosted, todo, stopping, drained, quit, heart, outlasted>>
  /\ UNCHANGED <<threadVars, watchVars, boundVars>>

-----------------------------------------------------------------------------
(* Signals, handled while run() is under way                               *)

Handled == ~hosted /\ main \notin {"idle", "over"}

\* The first stops the workers ...
Signal ==
  /\ Handled
  /\ signals < MaxSignals
  /\ ~stopping
  /\ stopping' = TRUE
  /\ stop' = AllStopped
  /\ told' = (told \/ main = "joining")
  /\ signals' = signals + 1
  /\ UNCHANGED <<main, hosted, todo, drained, threads, workers, runs>>
  /\ UNCHANGED <<heartVars, watchVars>>

\* ... and one that finds the process stopping ends it: os._exit().
SignalAgain ==
  /\ Handled
  /\ signals < MaxSignals
  /\ stopping
  /\ main' = "over"
  /\ signals' = signals + 1
  /\ UNCHANGED <<hosted, todo, stopping, drained, told, runs>>
  /\ UNCHANGED <<threadVars, heartVars, watchVars>>

-----------------------------------------------------------------------------
(* Worker threads.  One that found nothing to do waits on the stop flag,   *)
(* which is to be at the top of its loop                                   *)

Running == main # "over"

Work(x) ==
  /\ Running
  /\ workers[x] = "top"
  /\ ~stop[EngineOf[x]]
  /\ workers' = [workers EXCEPT ![x] = "busy"]
  /\ UNCHANGED <<stop, threads>>
  /\ UNCHANGED <<stateVars, heartVars, watchVars, boundVars>>

EndWorker(x) ==
  /\ Running
  /\ workers[x] = "top"
  /\ stop[EngineOf[x]]
  /\ workers' = [workers EXCEPT ![x] = "ended"]
  /\ UNCHANGED <<stop, threads>>
  /\ UNCHANGED <<stateVars, heartVars, watchVars, boundVars>>

\* work() returned or raised; nothing of it ends the loop.
Worked(x) ==
  /\ Running
  /\ workers[x] = "busy"
  /\ workers' = [workers EXCEPT ![x] = "top"]
  /\ UNCHANGED <<stop, threads>>
  /\ UNCHANGED <<stateVars, heartVars, watchVars, boundVars>>

Unwatching == {w \in Watchers : watchers[w] = "unborn"}

\* The call a worker runs times out: the worker is free, and a watcher waits.
TimeOut(x) ==
  /\ Running
  /\ workers[x] = "busy" /\ EngineOf[x] \in TaskEngines
  /\ Unwatching # {}
  /\ workers' = [workers EXCEPT ![x] = "top"]
  /\ watchers' = [watchers EXCEPT ![Any(Unwatching)] = "waiting"]
  /\ UNCHANGED <<stop, threads, abandoned, flagging, retired>>
  /\ UNCHANGED <<stateVars, heartVars, boundVars>>

-----------------------------------------------------------------------------
(* The heartbeat                                                           *)

\* The interval is over and the clock synced; beat() follows ...
LeaveWait ==
  /\ Running
  /\ heart = "waiting" /\ ~quit
  /\ heart' = "beating"
  /\ UNCHANGED <<quit, registered, outlasted>>
  /\ UNCHANGED <<stateVars, threadVars, watchVars, boundVars>>

\* ... which fails at times, and is logged.
Beat ==
  /\ Running
  /\ heart = "beating"
  /\ heart' = "waiting"
  /\ registered' \in {registered, Beaten}
  /\ UNCHANGED <<quit, outlasted>>
  /\ UNCHANGED <<stateVars, threadVars, watchVars, boundVars>>

\* _quit is set: the loop is left, and then the thread ends.
SeeQuit ==
  /\ Running
  /\ heart = "waiting" /\ quit
  /\ heart' = "ending"
  /\ UNCHANGED <<quit, registered, outlasted>>
  /\ UNCHANGED <<stateVars, threadVars, watchVars, boundVars>>

EndHeart ==
  /\ Running
  /\ heart = "ending"
  /\ heart' = "none"
  /\ UNCHANGED <<quit, registered, outlasted>>
  /\ UNCHANGED <<stateVars, threadVars, watchVars, boundVars>>

-----------------------------------------------------------------------------
(* Calls a timeout could not stop                                          *)

\* The call stopped within the grace it is given ...
CallStops(w) ==
  /\ Running
  /\ watchers[w] = "waiting"
  /\ watchers' = [watchers EXCEPT ![w] = "done"]
  /\ UNCHANGED <<abandoned, flagging, retired>>
  /\ UNCHANGED <<stateVars, threadVars, heartVars, boundVars>>

\* ... or it is counted abandoned, which _onAbandoned publishes with a beat, a
\* failure of which is logged ...
Abandon(w) ==
  /\ Running
  /\ watchers[w] = "waiting"
  /\ watchers' = [watchers EXCEPT ![w] = "counting"]
  /\ abandoned' = abandoned \cup {w}
  /\ registered' \in {registered, Beaten}
  /\ UNCHANGED <<quit, heart, outlasted, flagging, retired>>
  /\ UNCHANGED <<stateVars, threadVars, boundVars>>

\* ... until it returns after all.
CallReturns(w) ==
  /\ Running
  /\ w \in abandoned
  /\ abandoned' = abandoned \ {w}
  /\ UNCHANGED <<watchers, flagging, retired>>
  /\ UNCHANGED <<stateVars, threadVars, heartVars, boundVars>>

\* Mutant of TooMany: a watcher does not count the call it watches.
TooManyOthers(w) == Cardinality(abandoned \ {w}) >= RetireAfter

TooMany(w) == Cardinality(abandoned) >= RetireAfter

StayOn(w) ==
  /\ Running
  /\ watchers[w] = "counting"
  /\ ~TooMany(w) \/ retired
  /\ watchers' = [watchers EXCEPT ![w] = "done"]
  /\ UNCHANGED <<abandoned, flagging, retired>>
  /\ UNCHANGED <<stateVars, threadVars, heartVars, boundVars>>

\* The first watcher to count too many retires the process, and stops it.
Retire(w) ==
  /\ Running
  /\ watchers[w] = "counting"
  /\ TooMany(w) /\ ~retired
  /\ retired' = TRUE
  /\ watchers' = [watchers EXCEPT ![w] = "retiring"]
  /\ flagging' = [flagging EXCEPT ![w] = Engines]
  /\ UNCHANGED abandoned
  /\ UNCHANGED <<stateVars, threadVars, heartVars, boundVars>>

\* Mutant of Flagged: it stops one engine.
FlaggedOne(w, e) == "done"

\* Where the watcher is when it has set the flag of `e`.
Flagged(w, e) == IF flagging[w] = {e} THEN "done" ELSE "retiring"

\* requestStop() in a watcher's thread: engine by engine, as the main thread
\* starts and stops them.
StopToRetire(w, e) ==
  /\ Running
  /\ watchers[w] = "retiring"
  /\ e \in flagging[w]
  /\ stopping' = TRUE
  /\ stop' = [stop EXCEPT ![e] = TRUE]
  /\ flagging' = [flagging EXCEPT ![w] = @ \ {e}]
  /\ watchers' = [watchers EXCEPT ![w] = Flagged(w, e)]
  /\ told' = (told \/ (main = "joining" /\ stop' = AllStopped))
  /\ UNCHANGED <<main, hosted, todo, drained, threads, workers, abandoned, retired>>
  /\ UNCHANGED <<heartVars, boundVars>>

-----------------------------------------------------------------------------
Start ==
  \/ Run \/ Reset \/ Verify \/ Register \/ StartHeart \/ Report
  \/ \E e \in Engines : StartEngine(e) \/ SkipEngine(e)

Stop ==
  \/ Join \/ RequestStop \/ Quit \/ LeaveHeart \/ OutlastWait \/ Deregister
  \/ \E e \in Engines : Drain(e)

\* The steps a worker thread takes outside the work itself.
Loop(x) == Work(x) \/ EndWorker(x)

Heartbeat == LeaveWait \/ Beat \/ SeeQuit \/ EndHeart

Watch(w) ==
  \/ CallStops(w) \/ Abandon(w) \/ StayOn(w) \/ Retire(w)
  \/ \E e \in Engines : StopToRetire(w, e)

Next ==
  \/ Start \/ FailToStart \/ Stop
  \/ Signal \/ SignalAgain
  \/ Heartbeat
  \/ \E x \in Workers : Loop(x) \/ Worked(x) \/ TimeOut(x)
  \/ \E w \in Watchers : Watch(w) \/ CallReturns(w)

Spec == Init /\ [][Next]_vars

(* Fairness.  Every thread runs, and every piece of work ends.  The main   *)
(* thread is in no hurry to start workers, and a host in none to stop      *)
(* them.  Work that never ends keeps run() for ever: its timeout counts    *)
(* from after joinWorkers().                                               *)
FairThreads ==
  /\ WF_vars(Stop /\ (hosted => main # "joining"))
  /\ WF_vars(Heartbeat)
  /\ \A x \in Workers : WF_vars(Loop(x)) /\ WF_vars(Worked(x))
  /\ \A w \in Watchers : WF_vars(Watch(w))

FairSpec == Spec /\ FairThreads

-----------------------------------------------------------------------------
(* Properties                                                              *)

\* Every variable has its type, and lists of engines to visit are kept only by
\* who visits them.
TypeOK ==
  /\ main \in MainSteps
  /\ hosted \in BOOLEAN /\ stopping \in BOOLEAN /\ quit \in BOOLEAN
  /\ registered \in BOOLEAN /\ retired \in BOOLEAN /\ drained \in BOOLEAN
  /\ outlasted \in BOOLEAN /\ told \in BOOLEAN
  /\ todo \subseteq Engines /\ (main \in {"starting", "draining"} \/ todo = {} \/ main = "over")
  /\ stop \in [Engines -> BOOLEAN]
  /\ workers \in [Workers -> {"unborn", "top", "busy", "ended"}]
  /\ threads \in [Engines -> SUBSET Workers]
  /\ \A e \in Engines : \A x \in threads[e] : EngineOf[x] = e /\ workers[x] # "unborn"
  /\ heart \in {"none", "waiting", "beating", "ending"}
  /\ watchers \in [Watchers -> {"unborn", "waiting", "counting", "retiring", "done"}]
  /\ abandoned \subseteq Watchers
  /\ flagging \in [Watchers -> SUBSET Engines]
  /\ \A w \in Watchers : flagging[w] = {} \/ watchers[w] = "retiring"
  /\ runs \in 0..MaxRuns /\ signals \in 0..MaxSignals

\* "Every process that starts workers ... keeps checking in until its work in
\* flight has drained" (Registry): while a worker is at work the process has its
\* record and a heartbeat, through starts, stops, retiring and starts again,
\* which do not trust "a heartbeat on its way out" (stopWorkers).  But for the
\* work a stopWorkers() did not wait for (reference.md:1081), and a heartbeat
\* that was in a beat for longer than it is waited for.
CheckedInWhileWorking ==
  Running /\ drained /\ (\E x \in Workers : workers[x] = "busy") =>
    registered /\ (heart \in {"waiting", "beating"} \/ outlasted)

\* stopWorkers() says the work drained only when no worker thread is left, of
\* this run or of an earlier one whose stop timed out and which the next start
\* set going again.
DrainedMeansDrained ==
  main = "idle" /\ drained => \A x \in Workers : ~Alive(x)

\* Once checked out, a process is back in the registry only by register(): the
\* late beat of a heartbeat or of a watcher leaves no record that nobody clears.
OnlyRegisterRegisters ==
  [][~registered /\ registered' => main = "registering"]_vars

\* "finish the work in flight, exit" (reference.md:182): a stop asked for once
\* the workers run, by a signal or by retiring, ends every worker, those idle,
\* at work and revived, and then the run.  A host has to call stopWorkers().
\* One asked for while they are started is undone by start().
StopEndsRun ==
  told ~> (main = "over" \/ ~told \/ (hosted /\ \A x \in Workers : ~Alive(x)))

\* However the watchers come to count the abandoned calls, one of them sees the
\* limit reached (_onAbandoned): as long as there are too many, the process is
\* retired or a watcher has yet to count.
LimitIsSeen ==
  Cardinality(abandoned) >= RetireAfter =>
    retired \/ \E w \in Watchers : watchers[w] = "counting"

=============================================================================
