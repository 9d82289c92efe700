------------------------------- MODULE Yengine -------------------------------
(***************************************************************************)
(* The execution engine (engine.hpp, engine.cpp): worker threads pop       *)
(* futures from the ThreadSafeQueue and run threado() on them, which       *)
(* resumes a generator, follows what it awaits, parks the awaiter in the   *)
(* map `notifications`, and climbs back up the await chain when a future   *)
(* yields.  Around it: the clients that submit generators with execute()   *)
(* and complete or cancel outside futures with notify(), and the thread    *)
(* that calls wle() to wait for the work to end.                           *)
(*                                                                         *)
(* Every critical section (of the queue's mutex, of notificationsLock) is  *)
(* one action.  FutureState is a plain field that threads read and write   *)
(* without a lock: each such access is an action of its own, and accesses  *)
(* interleave in any order (sequential consistency is assumed of the       *)
(* build).  The value a future carries is not modelled.                    *)
(***************************************************************************)
EXTENDS Naturals, Sequences, FiniteSets

CONSTANTS Workers,  (* the threads of the engine                            *)
          Gens,     (* generator futures (Genf)                             *)
          Outs,     (* outside futures (Notf)                               *)
          None,     (* no future                                            *)
          Awa,      (* the future a `>>` generator awaits; None: a source   *)
          Yields    (* how many values a source produces until it is done   *)

Futures == Gens \cup Outs

ASSUME EngineAssumption ==
  /\ IsFiniteSet(Workers) /\ Workers # {}
  /\ Gens \cap Outs = {}
  /\ None \notin Futures
  /\ Awa \in [Gens -> Futures \cup {None}]
  /\ Yields \in [Gens -> Nat \ {0}]

VARIABLES list, currentSize, popw, closed, popper,  (* ThreadSafeQueue work *)
          state,          (* FutureState of each future                     *)
          gen,            (* the state of each generator: I, A or Fi        *)
          left,           (* the values a source has still to produce       *)
          notifications,  (* awaited future -> its awaiter, or None         *)
          pc, task, seen, (* of each worker: where it is in threado(), its  *)
                          (* local `task`, whether it saw the awaited       *)
                          (* future suspended                               *)
          calls,          (* futures whose execute() or notify() has set    *)
                          (* the state and has still to push                *)
          wle             (* where the thread calling wle() is              *)

queueVars == <<list, currentSize, popw, closed, popper>>
futureVars == <<state, gen, left>>
workerVars == <<pc, task, seen>>
vars == <<queueVars, futureVars, notifications, workerVars, calls, wle>>

work == INSTANCE ThreadSafeQueue
          WITH Poppers <- Workers, Items <- Futures,
               ThresIdle <- Cardinality(Workers), MaxList <- 0

FutureState ==
  {"Suspended", "Queued", "Running", "Awaiting", "Completed", "Cancelled"}

(* The order of the enumeration up to Running, as threado() compares it. *)
UpToRunning == {"Suspended", "Queued", "Running"}

(* Yengine(); the state of the futures is the clients'. *)
EngineInit ==
  /\ work!QueueInit
  /\ gen = [g \in Gens |-> "I"]
  /\ left = Yields
  /\ notifications = [f \in Futures |-> None]
  /\ pc = [w \in Workers |-> "pop"]
  /\ task = [w \in Workers |-> None]
  /\ seen = [w \in Workers |-> FALSE]
  /\ calls = {}
  /\ wle = "before"

Init ==
  /\ EngineInit
  /\ state = [f \in Futures |-> IF f \in Gens THEN "Suspended" ELSE "Running"]

(* No future is awaited by two generators: the map `notifications` has     *)
(* room for one awaiter per future.                                        *)
SingleAwaiter ==
  \A a, b \in Gens : Awa[a] = Awa[b] /\ Awa[a] # None => a = b

------------------------------------------------------------------------------
(* The clients: any number of threads, each in the middle of one call.     *)

(* The generators at the end of a pipeline: nothing awaits them. *)
Roots == Gens \ {Awa[a] : a \in Gens}

(* How the source files use execute(): a client submits the end of a       *)
(* pipeline, and again only when it has yielded.                           *)
MayExecute(g) == g \in Roots /\ state[g] = "Suspended"

(* A client that also launches ahead what a pipeline will await, while     *)
(* neither it nor the generator that awaits it is in progress.             *)
MayLaunchAhead(g) ==
  /\ state[g] = "Suspended"
  /\ \A a \in Gens : Awa[a] = g => state[a] \in {"Suspended", "Completed"}

(* Faulty: execute() without setState. *)
ExecuteUnmarked(g) ==
  /\ g \notin calls
  /\ calls' = calls \cup {g}
  /\ UNCHANGED <<queueVars, futureVars, notifications, workerVars, wle>>

(* execute(): setState(Queued), then work.push, whatever wle() has done.   *)
Execute(g) ==
  /\ g \notin calls
  /\ state' = [state EXCEPT ![g] = "Queued"]
  /\ calls' = calls \cup {g}
  /\ UNCHANGED <<queueVars, gen, left, notifications, workerVars, wle>>

(* OutsideFuture::completed() or set(Cancelled), to be followed by notify(). *)
Resolve(o, st) ==
  /\ state[o] = "Running"
  /\ state' = [state EXCEPT ![o] = st]
  /\ calls' = calls \cup {o}
  /\ UNCHANGED <<queueVars, gen, left, notifications, workerVars, wle>>

Completed(o) == Resolve(o, "Completed")
Cancelled(o) == Resolve(o, "Cancelled")

PushCall(f) ==
  /\ f \in calls
  /\ work!Push(f)
  /\ calls' = calls \ {f}
  /\ UNCHANGED <<futureVars, notifications, workerVars, wle>>

------------------------------------------------------------------------------
(* notificationsLock is held across steps by the wle thread only: from its *)
(* test of the two conditions until condWLE.wait releases it.              *)
NotificationsFree == wle # "dozing"

(* condWLE.notify_all(): lost unless the wle thread sleeps on condWLE. *)
WleNotified == IF wle = "sleeping" THEN "woken" ELSE wle

NoNotifications(n) == \A f \in Futures : n[f] = None

(* Faulty: the arguments of notifiAdd swapped. *)
notifiAddSwapped(k, v) ==
  /\ NotificationsFree
  /\ notifications' = [notifications EXCEPT ![v] = k]
  /\ UNCHANGED wle

notifiAdd(k, v) ==
  /\ NotificationsFree
  /\ notifications' = [notifications EXCEPT ![k] = v]
  /\ UNCHANGED wle

(* Faulty: the entry is found but not erased. *)
notifiDropKept(k) == NotificationsFree /\ UNCHANGED <<notifications, wle>>

notifiDrop(k) ==
  /\ NotificationsFree
  /\ notifications' = [notifications EXCEPT ![k] = None]
  /\ wle' = IF notifications[k] # None /\ NoNotifications(notifications')
              THEN WleNotified ELSE wle

Goto(w, p) == pc' = [pc EXCEPT ![w] = p]

(* threado() returns to threadwork(). *)
Return(w) ==
  /\ Goto(w, "pop")
  /\ task' = [task EXCEPT ![w] = None]

(* threadwork(): the three ways a step of pop() can end. *)
WorkerWaits(w) ==
  /\ pc[w] = "pop"
  /\ work!PopWait(w)
  /\ wle' = IF work!SignalsIdle(w) THEN WleNotified ELSE wle
  /\ UNCHANGED <<futureVars, notifications, workerVars, calls>>

WorkerTakes(w) ==
  /\ pc[w] = "pop"
  /\ work!PopTake(w)
  /\ task' = [task EXCEPT ![w] = Head(list)]
  /\ Goto(w, "isCancelled")
  /\ UNCHANGED <<futureVars, notifications, seen, calls, wle>>

WorkerLeaves(w) ==
  /\ pc[w] = "pop"
  /\ work!PopClosed(w)
  /\ UNCHANGED <<futureVars, notifications, workerVars, calls, wle>>

WorkerSpurious(w) ==
  /\ work!SpuriousWakeup(w)
  /\ UNCHANGED <<futureVars, notifications, workerVars, calls, wle>>

(* threado(): the three tests of task.state(), each a read of its own. *)
IsCancelled(w) ==
  /\ pc[w] = "isCancelled"
  /\ Goto(w, IF state[task[w]] = "Cancelled" THEN "nuke" ELSE "isCompleted")
  /\ UNCHANGED <<queueVars, futureVars, notifications, task, seen, calls, wle>>

(* Faulty: a completed outside future counts as not resumeable. *)
IsCompletedIgnored(w) ==
  /\ pc[w] = "isCompleted"
  /\ Goto(w, "isResumeable")
  /\ UNCHANGED <<queueVars, futureVars, notifications, task, seen, calls, wle>>

IsCompleted(w) ==
  /\ pc[w] = "isCompleted"
  /\ Goto(w, IF state[task[w]] = "Completed" THEN "chain" ELSE "isResumeable")
  /\ UNCHANGED <<queueVars, futureVars, notifications, task, seen, calls, wle>>

(* Beyond the last test an outside future is a no-op. *)
IsResumeable(w) ==
  /\ pc[w] = "isResumeable"
  /\ IF state[task[w]] \in UpToRunning /\ task[w] \in Gens
       THEN Goto(w, "run") /\ UNCHANGED task
       ELSE Return(w)
  /\ UNCHANGED <<queueVars, futureVars, notifications, seen, calls, wle>>

(* notifiDrop(task) and go on with the awaiter, if there is one. *)
FollowAwaiter(w, next) ==
  LET awaiter == notifications[task[w]] IN
  /\ notifiDrop(task[w])
  /\ IF awaiter # None
       THEN /\ task' = [task EXCEPT ![w] = awaiter]
            /\ Goto(w, next)
       ELSE Return(w)
  /\ UNCHANGED <<queueVars, futureVars, seen, calls>>

Nuke(w) == pc[w] = "nuke" /\ FollowAwaiter(w, "nuke")

Chain(w) == pc[w] = "chain" /\ FollowAwaiter(w, "run")

(* The resume loop: setState(Running), then resume(). *)
Run(w) ==
  /\ pc[w] = "run"
  /\ state' = [state EXCEPT ![task[w]] = "Running"]
  /\ Goto(w, "resume")
  /\ UNCHANGED <<queueVars, gen, left, notifications, task, seen, calls, wle>>

(* A source (a generator that awaits nothing) produces its next value. *)
ResumeSource(w) ==
  LET g == task[w] IN
  /\ pc[w] = "resume" /\ Awa[g] = None
  /\ left' = [left EXCEPT ![g] = IF @ = 0 THEN 0 ELSE @ - 1]
  /\ gen' = [gen EXCEPT ![g] = IF left'[g] = 0 THEN "Fi" ELSE @]
  /\ Goto(w, "publish")
  /\ UNCHANGED <<queueVars, state, notifications, task, seen, calls, wle>>

(* Faulty: from A it does not go back to I. *)
ResumeOpStays(w) ==
  LET g == task[w] IN
  /\ pc[w] = "resume" /\ Awa[g] # None
  /\ IF gen[g] = "A"
       THEN /\ gen' = [gen EXCEPT ![g] =
                         IF state[Awa[g]] = "Completed" THEN "Fi" ELSE "A"]
            /\ Goto(w, "publish")
       ELSE /\ gen' = [gen EXCEPT ![g] = IF @ = "I" THEN "A" ELSE @]
            /\ Goto(w, "check")
  /\ UNCHANGED <<queueVars, state, left, notifications, task, seen, calls, wle>>

(* OpDirectGenerator0::resume: from I, return what it awaits; from A,      *)
(* produce, and be done if the awaited future is Completed; Fi returns     *)
(* what it awaited.                                                        *)
ResumeOp(w) ==
  LET g == task[w] IN
  /\ pc[w] = "resume" /\ Awa[g] # None
  /\ IF gen[g] = "A"
       THEN /\ gen' = [gen EXCEPT ![g] =
                         IF state[Awa[g]] = "Completed" THEN "Fi" ELSE "I"]
            /\ Goto(w, "publish")
       ELSE /\ gen' = [gen EXCEPT ![g] = IF @ = "I" THEN "A" ELSE @]
            /\ Goto(w, "check")
  /\ UNCHANGED <<queueVars, state, left, notifications, task, seen, calls, wle>>

(* switch(awa->state()): a future already settled is not awaited at all. *)
Check(w) ==
  LET st == state[Awa[task[w]]] IN
  /\ pc[w] = "check"
  /\ Goto(w, IF st \in {"Completed", "Cancelled"} THEN "run" ELSE "await")
  /\ seen' = [seen EXCEPT ![w] = st = "Suspended"]
  /\ UNCHANGED <<queueVars, futureVars, notifications, task, calls, wle>>

SetAwaiting(w) ==
  /\ pc[w] = "await"
  /\ state' = [state EXCEPT ![task[w]] = "Awaiting"]
  /\ Goto(w, "add")
  /\ UNCHANGED <<queueVars, gen, left, notifications, task, seen, calls, wle>>

(* notifiAdd(awa, task); a suspended generator is then run in place. *)
Add(w) ==
  LET awa == Awa[task[w]] IN
  /\ pc[w] = "add"
  /\ notifiAdd(awa, task[w])
  /\ IF seen[w] /\ awa \in Gens
       THEN /\ task' = [task EXCEPT ![w] = awa]
            /\ Goto(w, "run")
       ELSE Return(w)
  /\ seen' = [seen EXCEPT ![w] = FALSE]
  /\ UNCHANGED <<queueVars, futureVars, calls>>

(* A value was produced: setState(done ? Completed : Suspended) ... *)
Publish(w) ==
  /\ pc[w] = "publish"
  /\ state' = [state EXCEPT ![task[w]] =
                 IF gen[task[w]] = "Fi" THEN "Completed" ELSE "Suspended"]
  /\ Goto(w, "drop")
  /\ UNCHANGED <<queueVars, gen, left, notifications, task, seen, calls, wle>>

(* Faulty: the awaiter is only told once the future is done. *)
DropWhenDone(w) ==
  /\ pc[w] = "drop"
  /\ IF state[task[w]] = "Completed"
       THEN FollowAwaiter(w, "run")
       ELSE Return(w) /\ UNCHANGED <<queueVars, futureVars, notifications, seen,
                                      calls, wle>>

(* ... then notifiDrop(task), and on with its awaiter. *)
Drop(w) == pc[w] = "drop" /\ FollowAwaiter(w, "run")

Work(w) ==
  \/ WorkerWaits(w) \/ WorkerTakes(w) \/ WorkerLeaves(w)
  \/ IsCancelled(w) \/ IsCompleted(w) \/ IsResumeable(w)
  \/ Nuke(w) \/ Chain(w) \/ Run(w) \/ ResumeSource(w) \/ ResumeOp(w)
  \/ Check(w) \/ SetAwaiting(w) \/ Add(w) \/ Publish(w) \/ Drop(w)

------------------------------------------------------------------------------
(* wle(): wait until every worker is idle and nothing is awaited, then     *)
(* close the queue and join the workers.                                   *)
WleCall ==
  /\ wle = "before"
  /\ wle' = "woken"
  /\ UNCHANGED <<queueVars, futureVars, notifications, workerVars, calls>>

(* Takes notificationsLock, then the queue's mutex for currentIdle(). The  *)
(* map cannot change until the lock is released.                           *)
WleTest ==
  /\ wle = "woken"
  /\ wle' = IF \/ work!currentIdle < Cardinality(Workers)
               \/ ~NoNotifications(notifications)
              THEN "dozing" ELSE "closing"
  /\ UNCHANGED <<queueVars, futureVars, notifications, workerVars, calls>>

WleSleep ==
  /\ wle = "dozing"
  /\ wle' = "sleeping"
  /\ UNCHANGED <<queueVars, futureVars, notifications, workerVars, calls>>

WleSpurious ==
  /\ wle = "sleeping"
  /\ wle' = "woken"
  /\ UNCHANGED <<queueVars, futureVars, notifications, workerVars, calls>>

WleClose ==
  /\ wle = "closing"
  /\ work!Close
  /\ wle' = "joining"
  /\ UNCHANGED <<futureVars, notifications, workerVars, calls>>

WleJoin ==
  /\ wle = "joining"
  /\ \A w \in Workers : popper[w] = "left"
  /\ wle' = "done"
  /\ UNCHANGED <<queueVars, futureVars, notifications, workerVars, calls>>

Wle == WleTest \/ WleSleep \/ WleClose \/ WleJoin

------------------------------------------------------------------------------
EngineStep ==
  \/ \E w \in Workers : Work(w) \/ WorkerSpurious(w)
  \/ \E f \in Futures : PushCall(f)
  \/ WleCall \/ Wle \/ WleSpurious

Next ==
  \/ EngineStep
  \/ \E g \in Gens : MayExecute(g) /\ Execute(g)
  \/ \E o \in Outs : Completed(o) \/ Cancelled(o)

Spec == Init /\ [][Next]_vars

(* The same engine with clients that launch ahead. *)
AheadNext ==
  \/ EngineStep
  \/ \E g \in Gens : MayLaunchAhead(g) /\ Execute(g)
  \/ \E o \in Outs : Completed(o) \/ Cancelled(o)
AheadSpec == Init /\ [][AheadNext]_vars

(* The operating system schedules every thread, and a thread that wants    *)
(* notificationsLock gets it in the end however often wle() takes it       *)
(* (strong fairness); an outside future is resolved in the end.  Nobody    *)
(* promises spurious wakeups or further calls.                             *)
Fairness ==
  /\ \A w \in Workers : SF_vars(Work(w))
  /\ \A f \in Futures : WF_vars(PushCall(f))
  /\ \A o \in Outs : WF_vars(Completed(o) \/ Cancelled(o))
  /\ WF_vars(Wle)

FairSpec == Spec /\ Fairness
FairAheadSpec == AheadSpec /\ Fairness

------------------------------------------------------------------------------
WorkerPC ==
  {"pop", "isCancelled", "isCompleted", "isResumeable", "nuke", "chain",
   "run", "resume", "check", "await", "add", "publish", "drop"}

EngineTypeOK ==
  /\ state \in [Futures -> FutureState]
  /\ gen \in [Gens -> {"I", "A", "Fi"}]
  /\ left \in [Gens -> Nat]
  /\ notifications \in [Futures -> Gens \cup {None}]
  /\ pc \in [Workers -> WorkerPC]
  /\ task \in [Workers -> Futures \cup {None}]
  /\ seen \in [Workers -> BOOLEAN]
  /\ calls \in SUBSET Futures
  /\ wle \in {"before", "dozing", "sleeping", "woken", "closing", "joining",
              "done"}

TypeOK == work!QueueTypeOK /\ EngineTypeOK

(* Where a worker is still to run, or is running, its task. *)
Holds(w, f) ==
  /\ task[w] = f
  /\ pc[w] \in {"isCancelled", "isCompleted", "isResumeable", "run", "resume",
               "check", "await", "add", "publish"}

(* Everything that may one day resume generator g. *)
Owners(g) ==
       {<<"call", f>> : f \in calls \cap {g}}
  \cup {<<"queue", i>> : i \in {i \in 1..Len(list) : list[i] = g}}
  \cup {<<"worker", w>> : w \in {w \in Workers : Holds(w, g)}}
  \cup {<<"parked", f>> : f \in {f \in Futures : notifications[f] = g}}

(* Without a lock on the futures, a generator is never resumed by two      *)
(* threads at once: at any time at most one thing (a call to execute, a    *)
(* place in the queue, a worker, an entry of notifications) will resume it.*)
SingleOwner == \A g \in Gens : \A x, y \in Owners(g) : x = y

(* What is parked under a future is the generator that awaits it and is    *)
(* marked Awaiting, so that it can be found again when the future yields.  *)
ParkedAwaits ==
  \A f \in Futures : LET g == notifications[f] IN
     g # None => Awa[g] = f /\ state[g] = "Awaiting"

(* agen.hpp:17 a generator that is done is never resumed. *)
DoneIsFinal ==
  [][\A w \in Workers : pc[w] = "run" /\ pc'[w] = "resume"
                           => gen[task[w]] # "Fi"]_vars

(* agen.hpp:28 a generator that returned a future is invoked again once    *)
(* that future has yielded, not while it is still being computed.  (A      *)
(* cancelled future counts as settled: threado() resumes at once.)         *)
ResumedWhenReady ==
  [][\A w \in Workers :
       pc[w] = "resume" /\ gen[task[w]] = "A" /\ pc'[w] = "publish"
         => state[Awa[task[w]]] \in {"Suspended", "Completed", "Cancelled"}]_vars

(* A parked generator whose future has settled is about to be found: the   *)
(* future is on its way through the queue to a worker that will look.      *)
NoLostAwaiter ==
  \A f \in Futures :
    notifications[f] # None /\ state[f] \in {"Suspended", "Completed", "Cancelled"}
      => \/ f \in calls
         \/ \E i \in 1..Len(list) : list[i] = f
         \/ \E w \in Workers : task[w] = f

(* agen.hpp:28 seen from the client: what is submitted yields, unless an   *)
(* outside future is cancelled or the engine is shut down.                 *)
SubmittedYields ==
  \A g \in Gens :
    state[g] = "Queued" ~>
      \/ state[g] \in {"Suspended", "Completed"}
      \/ closed \/ \E o \in Outs : state[o] = "Cancelled"

(* threadsafequeue.hpp:99 "CLOSED is returned if the queue is empty and    *)
(* was closed": a worker that leaves leaves no work behind.                *)
LeavesEmptyQueue ==
  [][\A w \in Workers : popper'[w] = "left" /\ popper[w] # "left"
                           => list = <<>>]_vars

(* Once wle() has closed the queue it returns: it joins every worker. *)
WleReturns == wle = "joining" ~> wle = "done"
==============================================================================
