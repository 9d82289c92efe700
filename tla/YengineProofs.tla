---------------------------- MODULE YengineProofs ----------------------------
(***************************************************************************)
(* Safety of the engine for any number of workers and any pipelines in     *)
(* which no future has two awaiters (SingleAwaiter), with clients that     *)
(* submit only the ends of pipelines (Spec).                               *)
(*                                                                         *)
(* The futures carry no lock; what keeps two workers off one generator is  *)
(* where the generator is.  `Carries` says that a worker has it.  A        *)
(* generator that is submitted, queued, carried or parked is in one of     *)
(* these places only (Exclusive), and one that another generator awaits    *)
(* leaves its resting place only with that awaiter parked under it         *)
(* (ChainHeld): whoever wants to run it must hold the awaiter, and the     *)
(* awaiter is in the map.  The rest of the invariant says what `state` and *)
(* `gen` are in each place, which makes each unlocked read safe to act on. *)
(*                                                                         *)
(* The last section is about an engine with one worker: an invariant of    *)
(* its own (FoundInv), for any pipelines and for clients that launch ahead *)
(* too, shows that no awaiter is lost.                                     *)
(***************************************************************************)
EXTENDS Yengine, FiniteSetTheorems, TLAPS

queue == INSTANCE ThreadSafeQueueProofs
           WITH Poppers <- Workers, Items <- Futures,
                ThresIdle <- Cardinality(Workers), MaxList <- 0

------------------------------------------------------------------------------
Settled == {"Suspended", "Completed", "Cancelled"}

(* The generators in a call to execute(), and those in the queue. *)
Listed == {list[i] : i \in 1..Len(list)}

(* Worker w has f: it may still resume it, or follow its awaiter.  A root  *)
(* has no awaiter to follow.                                               *)
Fresh == {"isCancelled", "isCompleted", "isResumeable"}
Stepping == {"run", "resume", "check", "await", "add", "publish"}
Carries(w, f) ==
  /\ task[w] = f
  /\ \/ pc[w] \in Fresh \cup Stepping \cup {"nuke", "chain"}
     \/ pc[w] = "drop" /\ f \notin Roots

Parked(g) == \E f \in Futures : notifications[f] = g

(* What waits to be popped is the end of a pipeline, marked, and once. *)
SubmittedOnce ==
  /\ \A g \in calls \cap Gens : g \in Roots /\ state[g] = "Queued"
  /\ \A i \in 1..Len(list) : list[i] \in Gens =>
       /\ list[i] \in Roots /\ state[list[i]] = "Queued"
       /\ list[i] \notin calls
       /\ \A j \in 1..Len(list) : list[j] = list[i] => j = i

(* A worker's generator is nowhere else. *)
Exclusive ==
  \A w \in Workers : \A g \in Gens : Carries(w, g) =>
    /\ g \notin calls /\ g \notin Listed /\ ~Parked(g)
    /\ \A v \in Workers : Carries(v, g) => v = w

(* A generator that another one awaits moves only below its awaiter. *)
ChainHeld ==
  \A g \in Gens \ Roots :
    (Parked(g) \/ \E w \in Workers : Carries(w, g)) => notifications[g] # None

(* The mark on a worker's task, place by place. *)
WorkerMark(w) ==
  LET g == task[w] IN
  /\ pc[w] \in Fresh \cup {"nuke"} => g \in Futures
  /\ pc[w] \in Stepping \cup {"drop"} => g \in Gens
  /\ pc[w] = "chain" => g \in Outs /\ state[g] = "Completed"
  /\ pc[w] \in Fresh /\ g \in Gens => g \in Roots /\ state[g] = "Queued"
  /\ pc[w] = "nuke" /\ g \in Gens => state[g] = "Awaiting"
  /\ pc[w] = "run" => \/ state[g] \in {"Queued", "Running", "Awaiting"}
                      \/ state[g] = "Suspended" /\ g \notin Roots
  /\ pc[w] \in {"resume", "check", "await", "publish"} => state[g] = "Running"
  /\ pc[w] = "add" => state[g] = "Awaiting"
  /\ pc[w] \in {"check", "await", "add"} => Awa[g] # None
  /\ pc[w] = "drop" /\ g \notin Roots => state[g] \in {"Suspended", "Completed"}

WorkerMarks == \A w \in Workers : WorkerMark(w)

(* What was seen suspended still is when it is run in place. *)
SeenStays ==
  \A w \in Workers :
    seen[w] /\ pc[w] \in {"await", "add"} /\ Awa[task[w]] \in Gens
      => state[Awa[task[w]]] = "Suspended"

(* A done generator is marked so, or a worker is about to mark it. *)
DoneMarked ==
  \A g \in Gens : gen[g] = "Fi" =>
    state[g] = "Completed" \/ \E w \in Workers : pc[w] = "publish" /\ task[w] = g

(* A generator in the middle of an await is running or parked, and is      *)
(* brought back to its resume only with the awaited future settled.        *)
AwaitingMarked ==
  /\ \A g \in Gens : gen[g] = "A" =>
       /\ Awa[g] # None /\ state[g] \in {"Running", "Awaiting"}
       /\ \A w \in Workers : ~(pc[w] = "publish" /\ task[w] = g)
  /\ \A w \in Workers : pc[w] \in {"run", "resume"} /\ gen[task[w]] = "A"
       => state[Awa[task[w]]] \in Settled

IInv ==
  /\ TypeOK
  /\ queue!QueueInv
  /\ SubmittedOnce
  /\ ParkedAwaits
  /\ Exclusive
  /\ ChainHeld
  /\ WorkerMarks
  /\ SeenStays
  /\ DoneMarked
  /\ AwaitingMarked

(* The part of the invariant that the queue's own variables do not enter.  *)
CoreInv ==
  /\ SubmittedOnce /\ ParkedAwaits /\ Exclusive /\ ChainHeld
  /\ WorkerMarks /\ SeenStays /\ DoneMarked /\ AwaitingMarked

------------------------------------------------------------------------------
(* The queue of the engine is a ThreadSafeQueue whose poppers are the      *)
(* workers: what is proved of the queue holds of it.                       *)
LEMMA QueueAssumptions ==
  queue!IsFiniteSet(Workers) /\ Workers # {} /\ Cardinality(Workers) \in Nat
  <1>1. queue!IsFiniteSet(Workers)
    BY EngineAssumption DEF queue!IsFiniteSet, IsFiniteSet
  <1>2. Cardinality(Workers) \in Nat
    BY EngineAssumption, FS_CardinalityType
  <1> QED BY <1>1, <1>2, EngineAssumption

(* The queue's part of the type invariant follows from its invariant. *)
LEMMA QueueTypes == queue!QueueInv => work!QueueTypeOK
  <1> SUFFICES ASSUME queue!QueueTypeOK PROVE work!QueueTypeOK
    BY DEF queue!QueueInv
  <1> QED BY DEF queue!QueueTypeOK, work!QueueTypeOK, queue!PopperState, work!PopperState

(* A step of the engine that leaves the queue alone. *)
LEMMA QueueUntouched ==
  ASSUME queue!QueueInv, UNCHANGED queueVars
  PROVE  queue!QueueInv'
  BY DEF queueVars, queue!QueueInv, queue!QueueTypeOK, queue!CountersExact,
         queue!NoStrandedItem, queue!NoSleeperAfterClose, queue!LeftOnlyWhenClosed,
         queue!InPop, queue!Waiting

(* The steps of the engine inside the queue. *)
LEMMA QueuePush ==
  ASSUME queue!QueueInv, NEW f \in Futures, work!Push(f)
  PROVE  queue!QueueInv'
  <1>1. queue!Push(f)
    BY DEF work!Push, queue!Push, work!NotifyOnePopper, queue!NotifyOnePopper,
           work!Waiting, queue!Waiting
  <1> QED BY <1>1, QueueAssumptions, queue!PushInv

(* A worker that goes to sleep in pop() keeps the queue's invariant. *)
LEMMA QueuePopWait ==
  ASSUME queue!QueueInv, NEW w \in Workers, work!PopWait(w)
  PROVE  queue!QueueInv'
  <1>1. queue!PopWait(w)
    BY DEF work!PopWait, queue!PopWait, work!AtTest, queue!AtTest,
           work!popwInside, queue!popwInside
  <1> QED BY <1>1, QueueAssumptions, queue!PopWaitInv

(* A worker that takes an item keeps the queue's invariant. *)
LEMMA QueuePopTake ==
  ASSUME queue!QueueInv, NEW w \in Workers, work!PopTake(w)
  PROVE  queue!QueueInv'
  <1>1. queue!PopTake(w)
    BY DEF work!PopTake, queue!PopTake, work!AtTest, queue!AtTest,
           work!popwInside, queue!popwInside
  <1> QED BY <1>1, QueueAssumptions, queue!PopTakeInv

(* A worker that leaves a closed queue keeps the queue's invariant. *)
LEMMA QueuePopClosed ==
  ASSUME queue!QueueInv, NEW w \in Workers, work!PopClosed(w)
  PROVE  queue!QueueInv'
  <1>1. queue!PopClosed(w)
    BY DEF work!PopClosed, queue!PopClosed, work!AtTest, queue!AtTest,
           work!popwInside, queue!popwInside
  <1> QED BY <1>1, QueueAssumptions, queue!PopClosedInv

(* A worker that wakes for no reason keeps the queue's invariant. *)
LEMMA QueueSpurious ==
  ASSUME queue!QueueInv, NEW w \in Workers, work!SpuriousWakeup(w)
  PROVE  queue!QueueInv'
  <1>1. queue!SpuriousWakeup(w)
    BY DEF work!SpuriousWakeup, queue!SpuriousWakeup
  <1> QED BY <1>1, QueueAssumptions, queue!SpuriousInv

(* Closing the queue in wle() keeps the queue's invariant. *)
LEMMA QueueClose ==
  ASSUME queue!QueueInv, work!Close
  PROVE  queue!QueueInv'
  <1>1. queue!Close
    BY DEF work!Close, queue!Close
  <1> QED BY <1>1, QueueAssumptions, queue!CloseInv

------------------------------------------------------------------------------
(* The engine starts in the invariant. *)
LEMMA InitInv == Init => IInv
  <1> SUFFICES ASSUME Init PROVE IInv
    OBVIOUS
  <1>1. queue!QueueInv
    <2>1. queue!QueueInit
      BY DEF Init, EngineInit, work!QueueInit, queue!QueueInit
    <2> QED BY <2>1, QueueAssumptions, queue!QueueInitInv
  <1>2. EngineTypeOK
    BY EngineAssumption DEF Init, EngineInit, EngineTypeOK, FutureState, WorkerPC, Futures
  <1>3. list = <<>> /\ Len(list) = 0
    BY DEF Init, EngineInit, work!QueueInit
  <1>4. SubmittedOnce /\ ParkedAwaits /\ Exclusive /\ ChainHeld
    BY <1>3, EngineAssumption
    DEF Init, EngineInit, SubmittedOnce, ParkedAwaits, Exclusive, ChainHeld, Carries, Parked,
        Listed, Fresh, Stepping, Futures
  <1>5. WorkerMarks /\ SeenStays /\ DoneMarked /\ AwaitingMarked
    BY DEF Init, EngineInit, WorkerMarks, WorkerMark, SeenStays, DoneMarked, AwaitingMarked,
           Fresh, Stepping
  <1> QED BY <1>1, <1>2, <1>4, <1>5, QueueTypes DEF IInv, TypeOK

(* A step that changes neither the futures, the map, the calls, the list   *)
(* nor what the workers do.                                                *)
LEMMA CoreUntouched ==
  ASSUME CoreInv, UNCHANGED <<list, futureVars, notifications, workerVars, calls>>
  PROVE  CoreInv'
  BY DEF CoreInv, futureVars, workerVars, SubmittedOnce, ParkedAwaits, Exclusive,
         ChainHeld, WorkerMarks, WorkerMark, SeenStays, DoneMarked, AwaitingMarked,
         Carries, Parked, Listed

(* A generator awaited by one that a worker carries is at rest: it is not  *)
(* submitted, queued, carried or parked, so nobody else touches it.        *)
LEMMA AwaitedAtRest ==
  ASSUME CoreInv, EngineTypeOK, SingleAwaiter,
         NEW w \in Workers, NEW g \in Gens, Carries(w, g), Awa[g] \in Gens
  PROVE  /\ Awa[g] \notin Roots /\ Awa[g] # g
         /\ Awa[g] \notin calls /\ Awa[g] \notin Listed /\ ~Parked(Awa[g])
         /\ \A v \in Workers : ~Carries(v, Awa[g])
         /\ notifications[Awa[g]] = None
  <1> DEFINE h == Awa[g]
  <1>1. h \notin Roots
    BY DEF Roots
  <1>2. h \notin calls /\ h \notin Listed
    BY <1>1 DEF CoreInv, SubmittedOnce, Listed
  <1>3. notifications[h] = None
    <2> SUFFICES ASSUME notifications[h] # None PROVE FALSE
      OBVIOUS
    <2>1. notifications[h] \in Gens /\ Awa[notifications[h]] = h
      BY DEF CoreInv, ParkedAwaits, EngineTypeOK, Futures
    <2>2. notifications[h] = g
      BY <2>1, EngineAssumption DEF SingleAwaiter, Futures
    <2> QED BY <2>2 DEF CoreInv, Exclusive, Parked, Futures
  <1>4. ~Parked(h) /\ \A v \in Workers : ~Carries(v, h)
    BY <1>1, <1>3 DEF CoreInv, ChainHeld
  <1> QED BY <1>1, <1>2, <1>3, <1>4

------------------------------------------------------------------------------
(* Worker w, in the middle of its resume loop, moves to place p and keeps  *)
(* its task; only the mark and the generator of that task change.          *)
InPlace(w, p) ==
  /\ pc[w] \in Stepping /\ p \in Stepping \cup {"drop"}
  /\ pc' = [pc EXCEPT ![w] = p]
  /\ \A f \in Futures : f # task[w] => state'[f] = state[f]
  /\ \A f \in Gens : f # task[w] => gen'[f] = gen[f]
  /\ \A v \in Workers : v # w => seen'[v] = seen[v]
  /\ UNCHANGED <<list, notifications, task, calls>>

(* Such a move disturbs nothing but the claims about w and its task.       *)
LEMMA InPlaceStep ==
  ASSUME CoreInv, EngineTypeOK, EngineTypeOK', SingleAwaiter,
         NEW w \in Workers, NEW p, InPlace(w, p), WorkerMark(w)'
  PROVE  /\ SubmittedOnce' /\ ParkedAwaits' /\ Exclusive' /\ ChainHeld'
         /\ WorkerMarks'
         /\ (seen[w]' /\ p \in {"await", "add"} /\ Awa[task[w]] \in Gens
               => state[Awa[task[w]]] = "Suspended") => SeenStays'
         /\ (gen'[task[w]] = "Fi" => state'[task[w]] = "Completed" \/ p = "publish")
               => DoneMarked'
         /\ /\ gen'[task[w]] = "A" =>
                  /\ Awa[task[w]] # None /\ p # "publish"
                  /\ state'[task[w]] \in {"Running", "Awaiting"}
            /\ p \in {"run", "resume"} /\ gen'[task[w]] = "A"
                 => state[Awa[task[w]]] \in Settled
            => AwaitingMarked'
  <1> DEFINE g == task[w]
  <1> USE DEF InPlace
  <1>1. g \in Gens /\ g \in Futures /\ Carries(w, g)
    BY DEF CoreInv, WorkerMarks, WorkerMark, Carries, Stepping, Futures
  <1>2. /\ g \notin calls /\ g \notin Listed /\ ~Parked(g)
        /\ \A v \in Workers : Carries(v, g) => v = w
    BY <1>1 DEF CoreInv, Exclusive
  <1>3. /\ \A v \in Workers : v # w => pc'[v] = pc[v] /\ task'[v] = task[v]
        /\ pc'[w] = p /\ task'[w] = g /\ pc[w] # "drop" /\ pc[w] # "pop"
    BY DEF EngineTypeOK, Stepping
  <1>4. \A v \in Workers : v # w /\ task[v] = g =>
           \/ pc[v] = "drop" /\ g \in Roots
           \/ pc[v] = "pop"
    BY <1>1, <1>2 DEF Carries, EngineTypeOK, WorkerPC, Fresh, Stepping
  <1>5. /\ \A v \in Workers : \A f \in Gens : Carries(v, f)' => Carries(v, f)
        /\ Listed' = Listed
        /\ \A f \in Gens : Parked(f)' <=> Parked(f)
    <2>1. ASSUME NEW v \in Workers, NEW f \in Gens, Carries(v, f)' PROVE Carries(v, f)
      <3>1. CASE v = w
        BY <2>1, <3>1, <1>1, <1>3 DEF Carries
      <3>2. CASE v # w
        BY <2>1, <3>2, <1>3 DEF Carries
      <3> QED BY <3>1, <3>2
    <2> QED BY <2>1 DEF Listed, Parked
  <1>6. SubmittedOnce'
    <2>1. \A i \in 1..Len(list) : list[i] # g
      BY <1>2 DEF Listed
    <2> QED BY <2>1, <1>2 DEF CoreInv, SubmittedOnce, EngineTypeOK, Futures
  <1>7. ParkedAwaits'
    BY <1>2 DEF CoreInv, ParkedAwaits, Parked, EngineTypeOK, Futures
  <1>8. Exclusive'
    BY <1>5 DEF CoreInv, Exclusive
  <1>9. ChainHeld'
    BY <1>5 DEF CoreInv, ChainHeld
  <1>10. WorkerMarks'
    <2> SUFFICES ASSUME NEW v \in Workers, v # w PROVE WorkerMark(v)'
      BY DEF WorkerMarks
    <2>1. CASE task[v] = g
      BY <2>1, <1>1, <1>3, <1>4 DEF CoreInv, WorkerMarks, WorkerMark, Fresh, Stepping
    <2>2. CASE task[v] # g
      <3>1. task[v] \in Futures => state'[task[v]] = state[task[v]]
        BY <2>2
      <3>2. pc[v] \in WorkerPC
        BY DEF EngineTypeOK
      <3> QED BY <3>1, <3>2, <1>3 DEF CoreInv, WorkerMarks, WorkerMark, Fresh, Stepping,
      WorkerPC, Futures
    <2> QED BY <2>1, <2>2
  <1>11. \A v \in Workers : v # w /\ pc[v] \in Stepping => task[v] \in Gens /\ Carries(v, task[v])
    BY DEF CoreInv, WorkerMarks, WorkerMark, Carries
  <1>12. \A v \in Workers : v # w /\ pc[v] \in Stepping /\ Awa[task[v]] \in Gens => Awa[task[v]] # g
    BY <1>1, <1>11, AwaitedAtRest
  <1>13. ASSUME seen[w]' /\ p \in {"await", "add"} /\ Awa[task[w]] \in Gens
                  => state[Awa[task[w]]] = "Suspended"
         PROVE  SeenStays'
    <2> SUFFICES ASSUME NEW v \in Workers, seen'[v], pc'[v] \in {"await", "add"},
                        Awa[task'[v]] \in Gens
                 PROVE  state'[Awa[task'[v]]] = "Suspended"
      BY DEF SeenStays
    <2>1. CASE v = w
      <3>1. Awa[g] # g
        BY <2>1, <1>1, AwaitedAtRest
      <3> QED BY <2>1, <3>1, <1>3, <1>13 DEF Futures
    <2>2. CASE v # w
      <3>1. pc[v] \in Stepping
        BY <2>2, <1>3 DEF Stepping
      <3> QED BY <2>2, <3>1, <1>3, <1>12 DEF CoreInv, SeenStays, Futures
    <2> QED BY <2>1, <2>2
  <1>14. ASSUME gen'[g] = "Fi" => state'[g] = "Completed" \/ p = "publish"
         PROVE  DoneMarked'
    <2> SUFFICES ASSUME NEW f \in Gens, gen'[f] = "Fi"
                 PROVE  state'[f] = "Completed"
                          \/ \E v \in Workers : pc'[v] = "publish" /\ task'[v] = f
      BY DEF DoneMarked
    <2>1. CASE f = g
      BY <2>1, <1>3, <1>14
    <2>2. CASE f # g
      BY <2>2, <1>3 DEF CoreInv, DoneMarked, Futures
    <2> QED BY <2>1, <2>2
  <1>15. ASSUME gen'[g] = "A" => /\ Awa[g] # None /\ p # "publish"
                                 /\ state'[g] \in {"Running", "Awaiting"},
                p \in {"run", "resume"} /\ gen'[g] = "A" => state[Awa[g]] \in Settled
         PROVE  AwaitingMarked'
    <2>1. ASSUME NEW f \in Gens, gen'[f] = "A"
          PROVE  /\ Awa[f] # None /\ state'[f] \in {"Running", "Awaiting"}
                 /\ \A v \in Workers : ~(pc'[v] = "publish" /\ task'[v] = f)
      <3>1. CASE f = g
        BY <2>1, <3>1, <1>3, <1>4, <1>15
      <3>2. CASE f # g
        BY <2>1, <3>2, <1>3 DEF CoreInv, AwaitingMarked, Futures
      <3> QED BY <3>1, <3>2
    <2>2. ASSUME NEW v \in Workers, pc'[v] \in {"run", "resume"}, gen'[task'[v]] = "A"
          PROVE  state'[Awa[task'[v]]] \in Settled
      <3>1. CASE v = w
        <4>1. Awa[g] \in Futures
          BY <2>1, <2>2, <3>1, <1>1, <1>3, EngineAssumption
        <4>2. Awa[g] # g
          BY <1>1, AwaitedAtRest
        <4> QED BY <2>2, <3>1, <4>1, <4>2, <1>3, <1>15
      <3>2. CASE v # w
        <4>1. pc[v] \in Stepping /\ task[v] \in Gens
          BY <3>2, <2>2, <1>3, <1>11 DEF Stepping
        <4>2. task[v] # g
          BY <3>2, <4>1, <1>4 DEF Stepping
        <4>3. gen[task[v]] = "A" /\ state[Awa[task[v]]] \in Settled
          BY <2>2, <3>2, <4>1, <4>2, <1>3 DEF CoreInv, AwaitingMarked
        <4>4. Awa[task[v]] \in Futures /\ Awa[task[v]] # g
          BY <4>1, <4>3, <1>12, <3>2, <1>1, EngineAssumption DEF CoreInv, AwaitingMarked, Futures
        <4> QED BY <3>2, <4>3, <4>4, <1>3
      <3> QED BY <3>1, <3>2
    <2> QED BY <2>1, <2>2 DEF AwaitingMarked
  <1> QED BY <1>3, <1>6, <1>7, <1>8, <1>9, <1>10, <1>13, <1>14, <1>15

(* A generator in the resume loop short of publishing is not done. *)
LEMMA SteppingNotDone ==
  ASSUME CoreInv, EngineTypeOK, NEW w \in Workers, pc[w] \in Stepping, pc[w] # "publish"
  PROVE  task[w] \in Gens /\ task[w] \in Futures /\ gen[task[w]] # "Fi"
  <1>1. task[w] \in Gens /\ Carries(w, task[w]) /\ state[task[w]] # "Completed"
    BY DEF CoreInv, WorkerMarks, WorkerMark, Carries, Stepping
  <1>2. \A v \in Workers : pc[v] = "publish" /\ task[v] = task[w] => v = w
    BY <1>1 DEF CoreInv, Exclusive, Carries, Stepping
  <1> QED BY <1>1, <1>2 DEF CoreInv, DoneMarked, Futures

(* The steps of the resume loop, one lemma each. *)
LEMMA RunInv ==
  ASSUME CoreInv, EngineTypeOK, SingleAwaiter, NEW w \in Workers, Run(w)
  PROVE  EngineTypeOK' /\ CoreInv'
  <1> USE DEF Run, Goto, queueVars
  <1>1. task[w] \in Gens /\ task[w] \in Futures /\ gen[task[w]] # "Fi"
    BY SteppingNotDone DEF Stepping
  <1>2. EngineTypeOK'
    BY <1>1 DEF EngineTypeOK, FutureState, WorkerPC
  <1>3. InPlace(w, "resume")
    BY <1>1 DEF InPlace, Stepping, EngineTypeOK
  <1>4. WorkerMark(w)'
    BY <1>1 DEF WorkerMark, EngineTypeOK, Fresh, Stepping
  <1>5. state'[task[w]] = "Running" /\ pc[w] = "run" /\ gen' = gen
    BY <1>1 DEF EngineTypeOK
  <1>6. gen[task[w]] = "A" => Awa[task[w]] # None /\ state[Awa[task[w]]] \in Settled
    BY <1>1, <1>5 DEF CoreInv, AwaitingMarked
  <1> QED BY <1>1, <1>2, <1>3, <1>4, <1>5, <1>6, InPlaceStep DEF CoreInv

(* A source that produces a value stays with its worker. *)
LEMMA ResumeSourceInv ==
  ASSUME CoreInv, EngineTypeOK, SingleAwaiter, NEW w \in Workers, ResumeSource(w)
  PROVE  EngineTypeOK' /\ CoreInv'
  <1> USE DEF ResumeSource, Goto, queueVars
  <1>1. task[w] \in Gens /\ task[w] \in Futures /\ gen[task[w]] # "Fi"
    BY SteppingNotDone DEF Stepping
  <1>2. EngineTypeOK'
    BY <1>1 DEF EngineTypeOK, FutureState, WorkerPC
  <1>3. InPlace(w, "publish")
    BY <1>1 DEF InPlace, Stepping, EngineTypeOK
  <1>4. state[task[w]] = "Running"
    BY DEF CoreInv, WorkerMarks, WorkerMark
  <1>5. WorkerMark(w)'
    BY <1>1, <1>4 DEF WorkerMark, EngineTypeOK, Fresh, Stepping
  <1>6. gen'[task[w]] # "A"
    BY <1>1 DEF CoreInv, AwaitingMarked, EngineTypeOK
  <1> QED BY <1>1, <1>2, <1>3, <1>5, <1>6, InPlaceStep DEF CoreInv

(* An operator generator that is resumed stays with its worker. *)
LEMMA ResumeOpInv ==
  ASSUME CoreInv, EngineTypeOK, SingleAwaiter, NEW w \in Workers, ResumeOp(w)
  PROVE  EngineTypeOK' /\ CoreInv'
  <1> USE DEF ResumeOp, Goto, queueVars
  <1>1. task[w] \in Gens /\ task[w] \in Futures /\ gen[task[w]] # "Fi"
    BY SteppingNotDone DEF Stepping
  <1>2. EngineTypeOK'
    BY <1>1 DEF EngineTypeOK, FutureState, WorkerPC
  <1>3. state[task[w]] = "Running" /\ state' = state
    BY DEF CoreInv, WorkerMarks, WorkerMark
  <1>4. CASE gen[task[w]] = "A"
    <2>1. InPlace(w, "publish")
      BY <1>1, <1>4 DEF InPlace, Stepping, EngineTypeOK
    <2>2. WorkerMark(w)'
      BY <1>1, <1>3, <1>4 DEF WorkerMark, EngineTypeOK, Fresh, Stepping
    <2>3. gen'[task[w]] # "A"
      BY <1>1, <1>4 DEF EngineTypeOK
    <2> QED BY <1>1, <1>2, <2>1, <2>2, <2>3, InPlaceStep DEF CoreInv
  <1>5. CASE gen[task[w]] # "A"
    <2>1. InPlace(w, "check")
      BY <1>1, <1>5 DEF InPlace, Stepping, EngineTypeOK
    <2>2. WorkerMark(w)'
      BY <1>1, <1>3, <1>5 DEF WorkerMark, EngineTypeOK, Fresh, Stepping
    <2>3. gen'[task[w]] = "A"
      BY <1>1, <1>5 DEF EngineTypeOK
    <2> QED BY <1>1, <1>2, <1>3, <2>1, <2>2, <2>3, InPlaceStep DEF CoreInv
  <1> QED BY <1>4, <1>5

(* Looking at the state of what is awaited moves nothing. *)
LEMMA CheckInv ==
  ASSUME CoreInv, EngineTypeOK, SingleAwaiter, NEW w \in Workers, Check(w)
  PROVE  EngineTypeOK' /\ CoreInv'
  <1> USE DEF Check, Goto, queueVars
  <1>1. task[w] \in Gens /\ task[w] \in Futures /\ gen[task[w]] # "Fi"
    BY SteppingNotDone DEF Stepping
  <1>2. EngineTypeOK'
    BY <1>1 DEF EngineTypeOK, WorkerPC, futureVars
  <1>3. state[task[w]] = "Running" /\ Awa[task[w]] # None /\ state' = state /\ gen' = gen
    BY DEF CoreInv, WorkerMarks, WorkerMark, futureVars
  <1>4. CASE state[Awa[task[w]]] \in {"Completed", "Cancelled"}
    <2>1. InPlace(w, "run")
      BY <1>1, <1>4 DEF InPlace, Stepping, EngineTypeOK, futureVars
    <2>2. WorkerMark(w)'
      BY <1>1, <1>3, <1>4 DEF WorkerMark, EngineTypeOK, Fresh, Stepping
    <2> QED BY <1>1, <1>2, <1>3, <1>4, <2>1, <2>2, InPlaceStep DEF CoreInv, Settled
  <1>5. CASE state[Awa[task[w]]] \notin {"Completed", "Cancelled"}
    <2>1. InPlace(w, "await")
      BY <1>1, <1>5 DEF InPlace, Stepping, EngineTypeOK, futureVars
    <2>2. WorkerMark(w)'
      BY <1>1, <1>3, <1>5 DEF WorkerMark, EngineTypeOK, Fresh, Stepping
    <2>3. seen'[w] => state[Awa[task[w]]] = "Suspended"
      BY DEF EngineTypeOK
    <2> QED BY <1>1, <1>2, <1>3, <2>1, <2>2, <2>3, InPlaceStep DEF CoreInv
  <1> QED BY <1>4, <1>5

(* The worker marks its task Awaiting ahead of parking it. *)
LEMMA SetAwaitingInv ==
  ASSUME CoreInv, EngineTypeOK, SingleAwaiter, NEW w \in Workers, SetAwaiting(w)
  PROVE  EngineTypeOK' /\ CoreInv'
  <1> USE DEF SetAwaiting, Goto, queueVars
  <1>1. task[w] \in Gens /\ task[w] \in Futures /\ gen[task[w]] # "Fi"
    BY SteppingNotDone DEF Stepping
  <1>2. EngineTypeOK'
    BY <1>1 DEF EngineTypeOK, FutureState, WorkerPC
  <1>3. InPlace(w, "add")
    BY <1>1 DEF InPlace, Stepping, EngineTypeOK
  <1>4. Awa[task[w]] # None
    BY DEF CoreInv, WorkerMarks, WorkerMark
  <1>5. state'[task[w]] = "Awaiting" /\ gen' = gen /\ seen' = seen
    BY <1>1 DEF EngineTypeOK
  <1>6. WorkerMark(w)'
    BY <1>1, <1>4, <1>5 DEF WorkerMark, EngineTypeOK, Fresh, Stepping
  <1>7. seen[w] /\ Awa[task[w]] \in Gens => state[Awa[task[w]]] = "Suspended"
    BY DEF CoreInv, SeenStays
  <1> QED BY <1>1, <1>2, <1>3, <1>4, <1>5, <1>6, <1>7, InPlaceStep DEF CoreInv

(* The state a generator has yielded in is published by its worker. *)
LEMMA PublishInv ==
  ASSUME CoreInv, EngineTypeOK, SingleAwaiter, NEW w \in Workers, Publish(w)
  PROVE  EngineTypeOK' /\ CoreInv'
  <1> USE DEF Publish, Goto, queueVars
  <1>1. task[w] \in Gens /\ task[w] \in Futures
    BY DEF CoreInv, WorkerMarks, WorkerMark, Stepping, Futures
  <1>2. EngineTypeOK'
    BY <1>1 DEF EngineTypeOK, FutureState, WorkerPC
  <1>3. InPlace(w, "drop")
    BY <1>1 DEF InPlace, Stepping, EngineTypeOK
  <1>4. /\ state'[task[w]] \in {"Suspended", "Completed"} /\ gen' = gen
        /\ gen[task[w]] = "Fi" => state'[task[w]] = "Completed"
    BY <1>1 DEF EngineTypeOK
  <1>5. WorkerMark(w)'
    BY <1>1, <1>4 DEF WorkerMark, EngineTypeOK, Fresh, Stepping
  <1>6. gen[task[w]] # "A"
    BY <1>1 DEF CoreInv, AwaitingMarked
  <1> QED BY <1>1, <1>2, <1>3, <1>4, <1>5, <1>6, InPlaceStep DEF CoreInv

------------------------------------------------------------------------------
(* Submitting the end of a pipeline that is at rest: nobody carries it. *)
LEMMA ExecuteInv ==
  ASSUME CoreInv, EngineTypeOK, NEW g \in Gens, MayExecute(g), Execute(g)
  PROVE  EngineTypeOK' /\ CoreInv'
  <1> USE DEF Execute, MayExecute, queueVars, workerVars
  <1>1. g \in Futures /\ g \in Roots /\ state[g] = "Suspended" /\ state'[g] = "Queued"
    BY DEF EngineTypeOK, Futures
  <1>2. /\ \A f \in Futures : f # g => state'[f] = state[f]
        /\ calls' = calls \cup {g}
        /\ UNCHANGED <<list, gen, notifications, pc, task, seen>>
    BY DEF EngineTypeOK
  <1>3. EngineTypeOK'
    BY <1>1 DEF EngineTypeOK, FutureState
  <1>4. /\ \A w \in Workers : ~Carries(w, g)
        /\ ~Parked(g) /\ g \notin Listed
    <2>1. \A w \in Workers : ~Carries(w, g)
      BY <1>1 DEF CoreInv, WorkerMarks, WorkerMark, Carries, Fresh, Stepping, EngineAssumption,
         Futures
    <2>2. ~Parked(g)
      BY <1>1, EngineAssumption DEF CoreInv, ParkedAwaits, Parked, Futures
    <2>3. g \notin Listed
      BY <1>1 DEF CoreInv, SubmittedOnce, Listed
    <2> QED BY <2>1, <2>2, <2>3
  <1>5. /\ \A w \in Workers : \A f \in Gens : Carries(w, f)' <=> Carries(w, f)
        /\ \A f \in Gens : Parked(f)' <=> Parked(f)
        /\ Listed' = Listed
    BY <1>2 DEF Carries, Parked, Listed
  <1>6. SubmittedOnce'
    <2>1. \A i \in 1..Len(list) : list[i] # g
      BY <1>4 DEF Listed
    <2> QED BY <2>1, <1>1, <1>2 DEF CoreInv, SubmittedOnce, Futures
  <1>7. ParkedAwaits'
    BY <1>1, <1>2, <1>4, EngineAssumption DEF CoreInv, ParkedAwaits, Parked, EngineTypeOK, Futures
  <1>8. Exclusive'
    BY <1>2, <1>4, <1>5 DEF CoreInv, Exclusive
  <1>9. ChainHeld'
    BY <1>2, <1>5 DEF CoreInv, ChainHeld
  <1>10. WorkerMarks'
    <2> SUFFICES ASSUME NEW w \in Workers PROVE WorkerMark(w)'
      BY DEF WorkerMarks
    <2>1. CASE task[w] = g
      BY <2>1, <1>1, <1>2, <1>4, EngineAssumption
      DEF CoreInv, WorkerMarks, WorkerMark, Carries, Fresh, Stepping, Futures
    <2>2. CASE task[w] # g
      BY <2>2, <1>2 DEF CoreInv, WorkerMarks, WorkerMark, Fresh, Stepping, Futures
    <2> QED BY <2>1, <2>2
  <1>11. SeenStays'
    <2> SUFFICES ASSUME NEW w \in Workers, seen[w], pc[w] \in {"await", "add"},
                        Awa[task[w]] \in Gens
                 PROVE  state'[Awa[task[w]]] = "Suspended"
      BY <1>2 DEF SeenStays
    <2>1. task[w] \in Gens
      BY DEF CoreInv, WorkerMarks, WorkerMark, Stepping
    <2>2. Awa[task[w]] # g
      BY <2>1, <1>1 DEF Roots
    <2> QED BY <2>2, <1>2 DEF CoreInv, SeenStays, Futures
  <1>12. DoneMarked'
    BY <1>1, <1>2, <1>4 DEF CoreInv, DoneMarked, Futures, Carries, Stepping
  <1>13. AwaitingMarked'
    <2>1. gen[g] # "A"
      BY <1>1 DEF CoreInv, AwaitingMarked
    <2>2. \A f \in Gens : gen[f] = "A" => Awa[f] # g /\ Awa[f] \in Futures
      BY <1>1, EngineAssumption DEF Roots, CoreInv, AwaitingMarked
    <2>3. \A w \in Workers : pc[w] \in {"run", "resume"} => task[w] \in Gens
      BY DEF CoreInv, WorkerMarks, WorkerMark, Stepping
    <2> QED BY <2>1, <2>2, <2>3, <1>1, <1>2 DEF CoreInv, AwaitingMarked, Futures
  <1> QED BY <1>3, <1>6, <1>7, <1>8, <1>9, <1>10, <1>11, <1>12, <1>13 DEF CoreInv

(* Resolving an outside future touches no generator. *)
LEMMA ResolveInv ==
  ASSUME CoreInv, EngineTypeOK, NEW o \in Outs, NEW st \in {"Completed", "Cancelled"},
         Resolve(o, st)
  PROVE  EngineTypeOK' /\ CoreInv'
  <1> USE DEF Resolve, queueVars, workerVars
  <1>1. /\ o \in Futures /\ o \notin Gens /\ o # None
        /\ state[o] = "Running" /\ state'[o] = st
    BY EngineAssumption DEF EngineTypeOK, Futures
  <1>2. /\ \A f \in Futures : f # o => state'[f] = state[f]
        /\ \A f \in Gens : state'[f] = state[f] /\ f # o /\ f \in Futures
        /\ calls' = calls \cup {o}
        /\ UNCHANGED <<list, gen, notifications, pc, task, seen>>
    BY <1>1 DEF EngineTypeOK, Futures
  <1>3. EngineTypeOK'
    BY <1>1 DEF EngineTypeOK, FutureState
  <1>4. /\ \A w \in Workers : \A f \in Gens : Carries(w, f)' <=> Carries(w, f)
        /\ \A f \in Gens : Parked(f)' <=> Parked(f)
        /\ Listed' = Listed
    BY <1>2 DEF Carries, Parked, Listed
  <1>5. SubmittedOnce' /\ ParkedAwaits' /\ Exclusive' /\ ChainHeld'
    <2>1. SubmittedOnce'
      BY <1>1, <1>2 DEF CoreInv, SubmittedOnce
    <2>2. ParkedAwaits'
      BY <1>1, <1>2 DEF CoreInv, ParkedAwaits, EngineTypeOK
    <2>3. Exclusive' /\ ChainHeld'
      BY <1>1, <1>2, <1>4 DEF CoreInv, Exclusive, ChainHeld
    <2> QED BY <2>1, <2>2, <2>3
  <1>6. WorkerMarks'
    <2> SUFFICES ASSUME NEW w \in Workers PROVE WorkerMark(w)'
      BY DEF WorkerMarks
    <2>1. CASE task[w] = o
      BY <2>1, <1>1, <1>2 DEF CoreInv, WorkerMarks, WorkerMark, Fresh, Stepping, Roots
    <2>2. CASE task[w] # o
      BY <2>2, <1>2 DEF CoreInv, WorkerMarks, WorkerMark, Fresh, Stepping, Futures
    <2> QED BY <2>1, <2>2
  <1>7. SeenStays'
    BY <1>2 DEF CoreInv, SeenStays
  <1>8. DoneMarked'
    BY <1>2 DEF CoreInv, DoneMarked
  <1>9. AwaitingMarked'
    <2>1. \A f \in Gens : gen[f] = "A" => Awa[f] \in Futures
      BY EngineAssumption DEF CoreInv, AwaitingMarked
    <2>2. \A w \in Workers : pc[w] \in {"run", "resume"} => task[w] \in Gens
      BY DEF CoreInv, WorkerMarks, WorkerMark, Stepping
    <2> QED BY <2>1, <2>2, <1>1, <1>2 DEF CoreInv, AwaitingMarked, Settled
  <1> QED BY <1>3, <1>5, <1>6, <1>7, <1>8, <1>9 DEF CoreInv

(* A call that has marked its future puts it in the queue, once. *)
LEMMA PushCallInv ==
  ASSUME CoreInv, EngineTypeOK, list \in Seq(Futures), NEW f \in Futures, PushCall(f)
  PROVE  EngineTypeOK' /\ CoreInv'
  <1> USE DEF PushCall, futureVars, workerVars, work!Push
  <1>1. /\ list' = Append(list, f) /\ Len(list') = Len(list) + 1 /\ Len(list) \in Nat
        /\ \A i \in 1..Len(list) : list'[i] = list[i]
        /\ list'[Len(list) + 1] = f
    OBVIOUS
  <1>2. /\ f \in calls /\ calls' = calls \ {f} /\ Listed' = Listed \cup {f}
        /\ UNCHANGED <<state, gen, notifications, pc, task, seen>>
    <2>1. Listed' = Listed \cup {f}
      BY <1>1 DEF Listed
    <2> QED BY <2>1
  <1>3. EngineTypeOK'
    BY <1>2 DEF EngineTypeOK
  <1>4. f \in Gens => f \notin Listed
    BY <1>2 DEF CoreInv, SubmittedOnce, Listed
  <1>5. SubmittedOnce'
    <2>1. \A g \in calls' \cap Gens : g \in Roots /\ state'[g] = "Queued"
      BY <1>2 DEF CoreInv, SubmittedOnce
    <2>2. ASSUME NEW i \in 1..Len(list'), list'[i] \in Gens
          PROVE  /\ list'[i] \in Roots /\ state'[list'[i]] = "Queued"
                 /\ list'[i] \notin calls'
                 /\ \A j \in 1..Len(list') : list'[j] = list'[i] => j = i
      <3>1. CASE i = Len(list) + 1
        <4>1. \A j \in 1..Len(list) : list[j] # f
          BY <3>1, <2>2, <1>1, <1>4 DEF Listed
        <4> QED BY <3>1, <4>1, <2>2, <1>1, <1>2 DEF CoreInv, SubmittedOnce
      <3>2. CASE i \in 1..Len(list)
        <4>1. list'[i] = list[i] /\ list[i] # f
          BY <3>2, <2>2, <1>1, <1>4 DEF Listed
        <4> QED BY <3>2, <4>1, <2>2, <1>1, <1>2 DEF CoreInv, SubmittedOnce
      <3> QED BY <3>1, <3>2, <1>1
    <2> QED BY <2>1, <2>2 DEF SubmittedOnce
  <1>6. Exclusive'
    BY <1>2 DEF CoreInv, Exclusive, Carries, Parked
  <1>7. /\ ParkedAwaits' /\ ChainHeld' /\ WorkerMarks' /\ SeenStays'
        /\ DoneMarked' /\ AwaitingMarked'
    BY <1>2 DEF CoreInv, ParkedAwaits, ChainHeld, Carries, Parked, WorkerMarks,
                WorkerMark, SeenStays, DoneMarked, AwaitingMarked
  <1> QED BY <1>3, <1>5, <1>6, <1>7 DEF CoreInv

(* A worker that pops a generator becomes the only one to carry it. *)
LEMMA WorkerTakesInv ==
  ASSUME CoreInv, EngineTypeOK, list \in Seq(Futures), NEW w \in Workers, WorkerTakes(w)
  PROVE  EngineTypeOK' /\ CoreInv'
  <1> USE DEF WorkerTakes, Goto, futureVars, work!PopTake
  <1> DEFINE f == Head(list)
  <1>1. /\ list # <<>> /\ f \in Futures /\ f = list[1] /\ 1 \in 1..Len(list)
        /\ Len(list') = Len(list) - 1 /\ Len(list) \in Nat
        /\ \A i \in 1..Len(list') : list'[i] = list[i + 1] /\ i + 1 \in 1..Len(list)
    OBVIOUS
  <1>2. /\ pc[w] = "pop" /\ pc' = [pc EXCEPT ![w] = "isCancelled"]
        /\ task' = [task EXCEPT ![w] = f]
        /\ UNCHANGED <<state, gen, notifications, seen, calls>>
    OBVIOUS
  <1>3. EngineTypeOK'
    BY <1>1, <1>2 DEF EngineTypeOK, WorkerPC
  <1>4. /\ pc'[w] = "isCancelled" /\ task'[w] = f
        /\ \A v \in Workers : v # w => pc'[v] = pc[v] /\ task'[v] = task[v]
    BY <1>2 DEF EngineTypeOK
  <1>5. Listed' \subseteq Listed /\ f \in Listed
    BY <1>1 DEF Listed
  <1>6. f \in Gens => /\ f \in Roots /\ state[f] = "Queued" /\ f \notin calls
                      /\ f \notin Listed'
    BY <1>1 DEF CoreInv, SubmittedOnce, Listed
  <1>7. f \in Gens => ~Parked(f) /\ \A v \in Workers : ~Carries(v, f)
    <2>1. f \in Gens => ~Parked(f)
      BY <1>6, EngineAssumption DEF CoreInv, ParkedAwaits, Parked, Futures
    <2>2. f \in Gens => \A v \in Workers : ~Carries(v, f)
      BY <1>5 DEF CoreInv, Exclusive
    <2> QED BY <2>1, <2>2
  <1>8. /\ \A v \in Workers : \A g \in Gens : v # w => (Carries(v, g)' <=> Carries(v, g))
        /\ \A g \in Gens : Carries(w, g)' => g = f
        /\ \A g \in Gens : Parked(g)' <=> Parked(g)
    BY <1>2, <1>4 DEF Carries, Parked
  <1>9. SubmittedOnce'
    BY <1>1, <1>2 DEF CoreInv, SubmittedOnce
  <1>10. ParkedAwaits'
    BY <1>2 DEF CoreInv, ParkedAwaits
  <1>11. Exclusive'
    <2> SUFFICES ASSUME NEW v \in Workers, NEW g \in Gens, Carries(v, g)'
                 PROVE  /\ g \notin calls' /\ g \notin Listed' /\ ~Parked(g)'
                        /\ \A u \in Workers : Carries(u, g)' => u = v
      BY DEF Exclusive
    <2>1. CASE v = w
      BY <2>1, <1>2, <1>6, <1>7, <1>8
    <2>2. CASE v # w
      <3>1. Carries(v, g) /\ g # f
        BY <2>2, <1>7, <1>8
      <3> QED BY <3>1, <1>2, <1>5, <1>8 DEF CoreInv, Exclusive
    <2> QED BY <2>1, <2>2
  <1>12. ChainHeld'
    BY <1>2, <1>6, <1>8 DEF CoreInv, ChainHeld
  <1>13. WorkerMarks'
    <2> SUFFICES ASSUME NEW v \in Workers PROVE WorkerMark(v)'
      BY DEF WorkerMarks
    <2>1. CASE v = w
      BY <2>1, <1>1, <1>2, <1>4, <1>6 DEF WorkerMark, Fresh, Stepping
    <2>2. CASE v # w
      BY <2>2, <1>2, <1>4 DEF CoreInv, WorkerMarks, WorkerMark
    <2> QED BY <2>1, <2>2
  <1>14. SeenStays' /\ DoneMarked' /\ AwaitingMarked'
    <2>1. SeenStays'
      BY <1>2, <1>4 DEF CoreInv, SeenStays
    <2>2. DoneMarked'
      BY <1>2, <1>4 DEF CoreInv, DoneMarked
    <2>3. AwaitingMarked'
      BY <1>2, <1>4 DEF CoreInv, AwaitingMarked
    <2> QED BY <2>1, <2>2, <2>3
  <1> QED BY <1>3, <1>9, <1>10, <1>11, <1>12, <1>13, <1>14 DEF CoreInv

(* The three tests on a popped future: the worker moves on with it to p or *)
(* gives it up, and nothing else changes.                                  *)
LEMMA TestStep ==
  ASSUME CoreInv, EngineTypeOK, NEW w \in Workers, pc[w] \in Fresh,
         NEW p \in Fresh \cup {"nuke", "chain", "run", "pop"},
         pc' = [pc EXCEPT ![w] = p],
         task' = task \/ (p = "pop" /\ task' = [task EXCEPT ![w] = None]),
         UNCHANGED <<list, state, gen, notifications, seen, calls>>,
         WorkerMark(w)'
  PROVE  CoreInv'
  <1>1. /\ pc'[w] = p /\ (p # "pop" => task'[w] = task[w])
        /\ \A v \in Workers : v # w => pc'[v] = pc[v] /\ task'[v] = task[v]
    BY DEF EngineTypeOK
  <1>2. \A v \in Workers : \A f \in Gens : Carries(v, f)' => Carries(v, f)
    BY <1>1 DEF Carries, Fresh, Stepping
  <1>3. Listed' = Listed /\ \A f \in Gens : Parked(f)' <=> Parked(f)
    BY DEF Listed, Parked
  <1>4. SubmittedOnce' /\ ParkedAwaits'
    BY DEF CoreInv, SubmittedOnce, ParkedAwaits
  <1>5. Exclusive' /\ ChainHeld'
    BY <1>2, <1>3 DEF CoreInv, Exclusive, ChainHeld
  <1>6. WorkerMarks'
    BY <1>1 DEF CoreInv, WorkerMarks, WorkerMark
  <1>7. SeenStays'
    BY <1>1 DEF CoreInv, SeenStays, Fresh
  <1>8. DoneMarked'
    BY <1>1 DEF CoreInv, DoneMarked, Fresh
  <1>9. AwaitingMarked'
    <2>1. \A v \in Workers : pc'[v] = "publish" => pc[v] = "publish" /\ task'[v] = task[v]
      BY <1>1 DEF Fresh
    <2>2. p = "run" => gen[task[w]] # "A"
      <3> SUFFICES ASSUME p = "run" PROVE gen[task[w]] # "A"
        OBVIOUS
      <3>1. task[w] \in Gens /\ state[task[w]] = "Queued"
        BY <1>1 DEF CoreInv, WorkerMarks, WorkerMark, Stepping
      <3> QED BY <3>1 DEF CoreInv, AwaitingMarked
    <2> QED BY <2>1, <2>2, <1>1 DEF CoreInv, AwaitingMarked, Fresh
  <1> QED BY <1>4, <1>5, <1>6, <1>7, <1>8, <1>9 DEF CoreInv

(* The three tests of threado(). *)
LEMMA TestsInv ==
  ASSUME CoreInv, EngineTypeOK, NEW w \in Workers,
         IsCancelled(w) \/ IsCompleted(w) \/ IsResumeable(w)
  PROVE  EngineTypeOK' /\ CoreInv'
  <1> USE DEF Goto, Return, queueVars, futureVars
  <1>1. task[w] \in Futures /\ (task[w] \in Gens => task[w] \in Roots /\ state[task[w]] = "Queued")
    BY DEF IsCancelled, IsCompleted, IsResumeable, CoreInv, WorkerMarks, WorkerMark, Fresh
  <1>2. EngineTypeOK'
    BY DEF EngineTypeOK, WorkerPC, IsCancelled, IsCompleted, IsResumeable
  <1>3. pc[w] \in Fresh /\ UNCHANGED <<list, state, gen, notifications, seen, calls>>
    BY DEF IsCancelled, IsCompleted, IsResumeable, Fresh
  <1>4. CASE IsCancelled(w)
    <2> DEFINE p == IF state[task[w]] = "Cancelled" THEN "nuke" ELSE "isCompleted"
    <2>1. pc' = [pc EXCEPT ![w] = p] /\ task' = task /\ p \in Fresh \cup {"nuke"}
      BY <1>4 DEF IsCancelled, Fresh
    <2>2. WorkerMark(w)'
      BY <2>1, <1>1, <1>3 DEF WorkerMark, Fresh, Stepping, EngineTypeOK
    <2> QED BY <2>1, <2>2, <1>2, <1>3, TestStep
  <1>5. CASE IsCompleted(w)
    <2> DEFINE p == IF state[task[w]] = "Completed" THEN "chain" ELSE "isResumeable"
    <2>1. pc' = [pc EXCEPT ![w] = p] /\ task' = task /\ p \in Fresh \cup {"chain"}
      BY <1>5 DEF IsCompleted, Fresh
    <2>2. WorkerMark(w)'
      BY <2>1, <1>1, <1>3 DEF WorkerMark, Fresh, Stepping, EngineTypeOK, Futures
    <2> QED BY <2>1, <2>2, <1>2, <1>3, TestStep
  <1>6. CASE IsResumeable(w)
    <2>1. CASE state[task[w]] \in UpToRunning /\ task[w] \in Gens
      <3>1. pc' = [pc EXCEPT ![w] = "run"] /\ task' = task
        BY <1>6, <2>1 DEF IsResumeable
      <3>2. WorkerMark(w)'
        BY <3>1, <2>1, <1>1, <1>3 DEF WorkerMark, Fresh, Stepping, EngineTypeOK
      <3> QED BY <3>1, <3>2, <1>2, <1>3, TestStep
    <2>2. CASE ~(state[task[w]] \in UpToRunning /\ task[w] \in Gens)
      <3>1. pc' = [pc EXCEPT ![w] = "pop"] /\ task' = [task EXCEPT ![w] = None]
        BY <1>6, <2>2 DEF IsResumeable
      <3>2. WorkerMark(w)'
        BY <3>1, <1>3 DEF WorkerMark, Fresh, Stepping, EngineTypeOK
      <3> QED BY <3>1, <3>2, <1>2, <1>3, TestStep
    <2> QED BY <2>1, <2>2
  <1> QED BY <1>4, <1>5, <1>6

------------------------------------------------------------------------------
(* Following the awaiter of a task that is through: the awaiter passes     *)
(* from the map to the worker.                                             *)
LEMMA FollowAwaiterInv ==
  ASSUME CoreInv, EngineTypeOK, SingleAwaiter, NEW w \in Workers,
         NEW next \in {"nuke", "run"}, FollowAwaiter(w, next),
         pc[w] \in {"nuke", "chain", "drop"}, pc[w] = "nuke" <=> next = "nuke"
  PROVE  EngineTypeOK' /\ CoreInv'
  <1> DEFINE t == task[w]
             a == notifications[t]
  <1> USE DEF FollowAwaiter, notifiDrop, Goto, Return, queueVars, futureVars
  <1>1. /\ t \in Futures /\ a \in Gens \cup {None}
        /\ a # None => a \in Gens /\ a \in Futures /\ Awa[a] = t /\ state[a] = "Awaiting"
        /\ None \notin Gens
    BY EngineAssumption
    DEF CoreInv, WorkerMarks, WorkerMark, ParkedAwaits, EngineTypeOK, Stepping, Futures
  <1>2. EngineTypeOK'
    BY <1>1 DEF EngineTypeOK, WorkerPC, WleNotified
  <1>3. /\ notifications'[t] = None
        /\ \A f \in Futures : f # t => notifications'[f] = notifications[f]
        /\ \A v \in Workers : v # w => pc'[v] = pc[v] /\ task'[v] = task[v]
        /\ a # None => pc'[w] = next /\ task'[w] = a
        /\ a = None => pc'[w] = "pop"
        /\ UNCHANGED <<list, state, gen, seen, calls>>
    BY <1>1 DEF EngineTypeOK
  <1>4. t \in Gens => Carries(w, t) \/ a = None
    BY <1>1 DEF Carries, Roots
  <1>5. t \in Gens /\ a # None => ~Parked(t) /\ \A v \in Workers : Carries(v, t) => v = w
    BY <1>4 DEF CoreInv, Exclusive
  <1>6. a # None => a # t
    BY <1>1, <1>5 DEF Parked
  <1>7. a # None => /\ Parked(a) /\ a \notin calls /\ a \notin Listed
                    /\ \A v \in Workers : ~Carries(v, a)
    <2> SUFFICES ASSUME a # None
                 PROVE  /\ Parked(a) /\ a \notin calls /\ a \notin Listed
                        /\ \A v \in Workers : ~Carries(v, a)
      OBVIOUS
    <2>1. Parked(a) /\ state[a] # "Queued"
      BY <1>1 DEF Parked
    <2> QED BY <1>1, <2>1 DEF CoreInv, SubmittedOnce, Listed, Exclusive
  <1>8. \A f \in Gens : Parked(f)' <=> Parked(f) /\ f # a
    <2> SUFFICES ASSUME NEW f \in Gens PROVE Parked(f)' <=> Parked(f) /\ f # a
      OBVIOUS
    <2>1. f # None
      BY <1>1
    <2>2. ASSUME NEW k \in Futures, notifications'[k] = f PROVE Parked(f) /\ f # a
      <3>1. k # t /\ notifications[k] = f
        BY <2>1, <2>2, <1>3
      <3>2. Awa[f] = k
        BY <2>1, <3>1 DEF CoreInv, ParkedAwaits
      <3> QED BY <3>1, <3>2, <1>1, <2>1 DEF Parked
    <2>3. ASSUME NEW k \in Futures, notifications[k] = f, f # a PROVE Parked(f)'
      BY <2>3, <1>3 DEF Parked
    <2> QED BY <2>2, <2>3 DEF Parked
  <1>9. /\ \A v \in Workers : \A f \in Gens : v # w => (Carries(v, f)' <=> Carries(v, f))
        /\ \A f \in Gens : Carries(w, f)' => f = a
        /\ Listed' = Listed
    BY <1>1, <1>3 DEF Carries, Listed, Fresh, Stepping
  <1>10. SubmittedOnce'
    BY <1>3 DEF CoreInv, SubmittedOnce
  <1>11. ParkedAwaits'
    BY <1>3 DEF CoreInv, ParkedAwaits
  <1>12. Exclusive'
    <2> SUFFICES ASSUME NEW v \in Workers, NEW g \in Gens, Carries(v, g)'
                 PROVE  /\ g \notin calls' /\ g \notin Listed' /\ ~Parked(g)'
                        /\ \A u \in Workers : Carries(u, g)' => u = v
      BY DEF Exclusive
    <2>1. CASE v = w
      <3>1. g = a /\ a # None
        BY <2>1, <1>1, <1>9
      <3> QED BY <2>1, <3>1, <1>3, <1>7, <1>8, <1>9
    <2>2. CASE v # w
      <3>1. Carries(v, g)
        BY <2>2, <1>9
      <3>2. g # a
        BY <3>1, <1>1, <1>7
      <3> QED BY <2>2, <3>1, <3>2, <1>3, <1>8, <1>9 DEF CoreInv, Exclusive
    <2> QED BY <2>1, <2>2
  <1>13. ChainHeld'
    <2> SUFFICES ASSUME NEW g \in Gens \ Roots,
                        Parked(g)' \/ \E v \in Workers : Carries(v, g)'
                 PROVE  notifications'[g] # None
      BY DEF ChainHeld
    <2>1. Parked(g) \/ \E v \in Workers : v # w /\ Carries(v, g)
      <3>1. CASE Parked(g)'
        BY <3>1, <1>8
      <3>2. ASSUME NEW v \in Workers, Carries(v, g)'
            PROVE  Parked(g) \/ \E u \in Workers : u # w /\ Carries(u, g)
        BY <3>2, <1>1, <1>7, <1>9
      <3> QED BY <3>1, <3>2
    <2>2. notifications[g] # None
      BY <2>1 DEF CoreInv, ChainHeld
    <2>3. g # t
      BY <2>1, <2>2, <1>5
    <2> QED BY <2>2, <2>3, <1>3 DEF Futures
  <1>14. WorkerMarks'
    <2> SUFFICES ASSUME NEW v \in Workers PROVE WorkerMark(v)'
      BY DEF WorkerMarks
    <2>1. CASE v = w
      BY <2>1, <1>1, <1>3 DEF WorkerMark, Fresh, Stepping
    <2>2. CASE v # w
      BY <2>2, <1>3 DEF CoreInv, WorkerMarks, WorkerMark
    <2> QED BY <2>1, <2>2
  <1>15. SeenStays'
    BY <1>3 DEF CoreInv, SeenStays
  <1>16. DoneMarked'
    BY <1>3 DEF CoreInv, DoneMarked
  <1>17. AwaitingMarked'
    <2>1. \A v \in Workers : pc'[v] = "publish" => pc[v] = "publish" /\ task'[v] = task[v]
      BY <1>3
    <2>2. pc'[w] = "run" => state[Awa[task'[w]]] \in Settled
      <3> SUFFICES ASSUME pc'[w] = "run" PROVE state[Awa[task'[w]]] \in Settled
        OBVIOUS
      <3>1. a # None /\ Awa[task'[w]] = t /\ pc[w] \in {"chain", "drop"}
        BY <1>1, <1>3
      <3>2. CASE pc[w] = "chain"
        BY <3>1, <3>2 DEF CoreInv, WorkerMarks, WorkerMark, Settled
      <3>3. CASE pc[w] = "drop"
        <4>1. t \in Gens /\ t \notin Roots
          BY <3>1, <3>3, <1>1 DEF CoreInv, WorkerMarks, WorkerMark, Roots
        <4> QED BY <3>1, <3>3, <4>1 DEF CoreInv, WorkerMarks, WorkerMark, Settled
      <3> QED BY <3>1, <3>2, <3>3
    <2>3. pc'[w] # "resume"
      BY <1>3
    <2> QED BY <2>1, <2>2, <2>3, <1>3 DEF CoreInv, AwaitingMarked
  <1> QED BY <1>2, <1>10, <1>11, <1>12, <1>13, <1>14, <1>15, <1>16, <1>17 DEF CoreInv

(* Parking a task under the future it awaits, which is at rest; if it was  *)
(* seen suspended, it is carried on in place.                              *)
LEMMA AddInv ==
  ASSUME CoreInv, EngineTypeOK, SingleAwaiter, NEW w \in Workers, Add(w)
  PROVE  EngineTypeOK' /\ CoreInv'
  <1> DEFINE g == task[w]
             h == Awa[g]
  <1> USE DEF Add, notifiAdd, Goto, Return, queueVars, futureVars
  <1>1. /\ g \in Gens /\ g \in Futures /\ g # None /\ h \in Futures /\ h # None
        /\ state[g] = "Awaiting" /\ Carries(w, g) /\ pc[w] = "add"
        /\ None \notin Gens
    BY EngineAssumption
    DEF CoreInv, WorkerMarks, WorkerMark, Carries, Stepping, Futures
  <1>2. /\ g \notin calls /\ g \notin Listed /\ ~Parked(g)
        /\ \A v \in Workers : Carries(v, g) => v = w
    BY <1>1 DEF CoreInv, Exclusive
  <1>3. h \in Gens =>
          /\ h \notin Roots /\ h # g /\ h \notin calls /\ h \notin Listed /\ ~Parked(h)
          /\ \A v \in Workers : ~Carries(v, h)
    BY <1>1, AwaitedAtRest
  <1>4. EngineTypeOK'
    BY <1>1 DEF EngineTypeOK, WorkerPC
  <1>5. /\ notifications'[h] = g
        /\ \A f \in Futures : f # h => notifications'[f] = notifications[f]
        /\ \A v \in Workers : v # w =>
              pc'[v] = pc[v] /\ task'[v] = task[v] /\ seen'[v] = seen[v]
        /\ \/ pc'[w] = "run" /\ task'[w] = h /\ h \in Gens /\ state[h] = "Suspended"
           \/ pc'[w] = "pop"
        /\ UNCHANGED <<list, state, gen, calls>>
    <2>1. seen[w] /\ h \in Gens => state[h] = "Suspended"
      BY <1>1 DEF CoreInv, SeenStays
    <2> QED BY <2>1, <1>1 DEF EngineTypeOK
  <1>6. \A f \in Futures : notifications[f] # None => Awa[notifications[f]] = f
    BY DEF CoreInv, ParkedAwaits
  <1>7. notifications[h] = None
    <2> SUFFICES ASSUME notifications[h] # None PROVE FALSE
      OBVIOUS
    <2>1. notifications[h] \in Gens /\ Awa[notifications[h]] = h
      BY <1>1, <1>6 DEF EngineTypeOK
    <2>2. notifications[h] = g
      BY <2>1, <1>1 DEF SingleAwaiter
    <2> QED BY <2>2, <1>1, <1>2 DEF Parked
  <1>8. \A f \in Gens : Parked(f)' <=> Parked(f) \/ f = g
    BY <1>1, <1>5, <1>7 DEF Parked
  <1>9. /\ \A v \in Workers : \A f \in Gens : v # w => (Carries(v, f)' <=> Carries(v, f))
        /\ \A f \in Gens : Carries(w, f)' => f = h
        /\ Listed' = Listed
    BY <1>5 DEF Carries, Listed, Fresh, Stepping
  <1>10. SubmittedOnce'
    BY <1>5 DEF CoreInv, SubmittedOnce
  <1>11. ParkedAwaits'
    BY <1>1, <1>5 DEF CoreInv, ParkedAwaits
  <1>12. Exclusive'
    <2> SUFFICES ASSUME NEW v \in Workers, NEW f \in Gens, Carries(v, f)'
                 PROVE  /\ f \notin calls' /\ f \notin Listed' /\ ~Parked(f)'
                        /\ \A u \in Workers : Carries(u, f)' => u = v
      BY DEF Exclusive
    <2>1. CASE v = w
      <3>1. f = h
        BY <2>1, <1>9
      <3> QED BY <2>1, <3>1, <1>3, <1>5, <1>8, <1>9
    <2>2. CASE v # w
      <3>1. Carries(v, f)
        BY <2>2, <1>9
      <3>2. f # g /\ f # h
        BY <2>2, <3>1, <1>2, <1>3
      <3> QED BY <2>2, <3>1, <3>2, <1>5, <1>8, <1>9 DEF CoreInv, Exclusive
    <2> QED BY <2>1, <2>2
  <1>13. ChainHeld'
    <2> SUFFICES ASSUME NEW f \in Gens \ Roots,
                        Parked(f)' \/ \E v \in Workers : Carries(v, f)', f # h
                 PROVE  notifications'[f] # None
      BY <1>1, <1>5 DEF ChainHeld
    <2>1. Parked(f) \/ \E v \in Workers : Carries(v, f)
      BY <1>1, <1>8, <1>9
    <2> QED BY <2>1, <1>5 DEF CoreInv, ChainHeld, Futures
  <1>14. WorkerMarks'
    <2> SUFFICES ASSUME NEW v \in Workers PROVE WorkerMark(v)'
      BY DEF WorkerMarks
    <2>1. CASE v = w
      BY <2>1, <1>3, <1>5 DEF WorkerMark, Fresh, Stepping
    <2>2. CASE v # w
      BY <2>2, <1>5 DEF CoreInv, WorkerMarks, WorkerMark
    <2> QED BY <2>1, <2>2
  <1>15. SeenStays'
    BY <1>5 DEF CoreInv, SeenStays
  <1>16. DoneMarked'
    BY <1>1, <1>5 DEF CoreInv, DoneMarked
  <1>17. AwaitingMarked'
    <2>1. \A v \in Workers : pc'[v] = "publish" => pc[v] = "publish" /\ task'[v] = task[v]
      BY <1>5
    <2>2. pc'[w] = "run" => gen[task'[w]] # "A"
      BY <1>5 DEF CoreInv, AwaitingMarked
    <2>3. pc'[w] # "resume"
      BY <1>5
    <2> QED BY <2>1, <2>2, <2>3, <1>5 DEF CoreInv, AwaitingMarked
  <1> QED BY <1>4, <1>10, <1>11, <1>12, <1>13, <1>14, <1>15, <1>16, <1>17 DEF CoreInv

------------------------------------------------------------------------------
(* What the invariant says of the parts that the lemmas above ask for. *)
LEMMA Parts ==
  /\ IInv <=> EngineTypeOK /\ queue!QueueInv /\ CoreInv
  /\ IInv => list \in Seq(Futures)
  <1>1. queue!QueueInv => list \in Seq(Futures)
    BY DEF queue!QueueInv, queue!QueueTypeOK
  <1> QED BY <1>1, QueueTypes DEF IInv, TypeOK, CoreInv

(* The same of the next state. *)
LEMMA PartsNext == IInv' <=> EngineTypeOK' /\ queue!QueueInv' /\ CoreInv'
  BY Parts, PTL

(* The steps of a worker. *)
LEMMA WorkInv ==
  ASSUME IInv, SingleAwaiter, NEW w \in Workers, Work(w)
  PROVE  IInv'
  <1> USE Parts, PartsNext
  <1>1. CASE WorkerWaits(w) \/ WorkerLeaves(w)
    <2>1. EngineTypeOK'
      BY <1>1 DEF WorkerWaits, WorkerLeaves, EngineTypeOK, futureVars, workerVars, WleNotified
    <2>2. CoreInv'
      <3>1. UNCHANGED <<list, futureVars, notifications, workerVars, calls>>
        BY <1>1 DEF WorkerWaits, WorkerLeaves, work!PopWait, work!PopClosed
      <3> QED BY <3>1, CoreUntouched
    <2>3. queue!QueueInv'
      BY <1>1, QueuePopWait, QueuePopClosed DEF WorkerWaits, WorkerLeaves
    <2> QED BY <2>1, <2>2, <2>3
  <1>2. CASE WorkerTakes(w)
    <2>1. queue!QueueInv'
      BY <1>2, QueuePopTake DEF WorkerTakes
    <2> QED BY <1>2, <2>1, WorkerTakesInv
  <1>3. CASE IsCancelled(w) \/ IsCompleted(w) \/ IsResumeable(w)
    <2>1. queue!QueueInv'
      BY <1>3, QueueUntouched DEF IsCancelled, IsCompleted, IsResumeable
    <2> QED BY <1>3, <2>1, TestsInv
  <1>4. CASE Nuke(w) \/ Chain(w) \/ Drop(w)
    <2>1. queue!QueueInv'
      BY <1>4, QueueUntouched DEF Nuke, Chain, Drop, FollowAwaiter
    <2>2. CASE Nuke(w)
      BY <2>1, <2>2, FollowAwaiterInv DEF Nuke
    <2>3. CASE Chain(w) \/ Drop(w)
      BY <2>1, <2>3, FollowAwaiterInv DEF Chain, Drop
    <2> QED BY <1>4, <2>2, <2>3
  <1>5. CASE Run(w) \/ ResumeSource(w) \/ ResumeOp(w)
    <2>1. queue!QueueInv'
      BY <1>5, QueueUntouched DEF Run, ResumeSource, ResumeOp
    <2> QED BY <1>5, <2>1, RunInv, ResumeSourceInv, ResumeOpInv
  <1>6. CASE Check(w) \/ SetAwaiting(w) \/ Publish(w)
    <2>1. queue!QueueInv'
      BY <1>6, QueueUntouched DEF Check, SetAwaiting, Publish
    <2> QED BY <1>6, <2>1, CheckInv, SetAwaitingInv, PublishInv
  <1>7. CASE Add(w)
    <2>1. queue!QueueInv'
      BY <1>7, QueueUntouched DEF Add
    <2> QED BY <1>7, <2>1, AddInv
  <1> QED BY <1>1, <1>2, <1>3, <1>4, <1>5, <1>6, <1>7 DEF Work

(* The steps of wle(), and wakeups without notification. *)
LEMMA WleInv ==
  ASSUME IInv, \/ WleCall \/ Wle \/ WleSpurious
               \/ \E w \in Workers : WorkerSpurious(w)
  PROVE  IInv'
  <1> USE Parts, PartsNext
  <1>1. CASE WleCall \/ WleTest \/ WleSleep \/ WleSpurious \/ WleJoin
    <2>1. UNCHANGED <<queueVars, futureVars, notifications, workerVars, calls>>
      BY <1>1 DEF WleCall, WleTest, WleSleep, WleSpurious, WleJoin
    <2>2. EngineTypeOK'
      BY <1>1, <2>1 DEF WleCall, WleTest, WleSleep, WleSpurious, WleJoin, EngineTypeOK,
                        futureVars, workerVars
    <2>3. UNCHANGED <<list, futureVars, notifications, workerVars, calls>>
      BY <2>1 DEF queueVars
    <2> QED BY <2>1, <2>2, <2>3, CoreUntouched, QueueUntouched
  <1>2. CASE WleClose
    <2>1. UNCHANGED <<list, futureVars, notifications, workerVars, calls>>
      BY <1>2 DEF WleClose, work!Close
    <2>2. EngineTypeOK'
      BY <1>2 DEF WleClose, EngineTypeOK, futureVars, workerVars
    <2> QED BY <1>2, <2>1, <2>2, CoreUntouched, QueueClose DEF WleClose
  <1>3. ASSUME NEW w \in Workers, WorkerSpurious(w) PROVE IInv'
    <2>1. UNCHANGED <<list, futureVars, notifications, workerVars, calls>>
      BY <1>3 DEF WorkerSpurious, work!SpuriousWakeup
    <2>2. EngineTypeOK'
      BY <1>3 DEF WorkerSpurious, EngineTypeOK, futureVars, workerVars
    <2> QED BY <1>3, <2>1, <2>2, CoreUntouched, QueueSpurious DEF WorkerSpurious
  <1> QED BY <1>1, <1>2, <1>3 DEF Wle

(* Every step of the engine and its clients preserves the invariant. *)
LEMMA StepInv == SingleAwaiter /\ IInv /\ [Next]_vars => IInv'
  <1> SUFFICES ASSUME SingleAwaiter, IInv, [Next]_vars PROVE IInv'
    OBVIOUS
  <1> USE Parts, PartsNext
  <1>1. ASSUME NEW w \in Workers, Work(w) PROVE IInv'
    BY <1>1, WorkInv
  <1>2. CASE \/ WleCall \/ Wle \/ WleSpurious
             \/ \E w \in Workers : WorkerSpurious(w)
    BY <1>2, WleInv
  <1>3. ASSUME NEW f \in Futures, PushCall(f) PROVE IInv'
    BY <1>3, PushCallInv, QueuePush DEF PushCall
  <1>4. ASSUME NEW g \in Gens, MayExecute(g), Execute(g) PROVE IInv'
    <2>1. UNCHANGED queueVars
      BY <1>4 DEF Execute
    <2> QED BY <1>4, <2>1, ExecuteInv, QueueUntouched
  <1>5. ASSUME NEW o \in Outs, Completed(o) \/ Cancelled(o) PROVE IInv'
    <2>1. UNCHANGED queueVars
      BY <1>5 DEF Completed, Cancelled, Resolve
    <2> QED BY <1>5, <2>1, ResolveInv, QueueUntouched DEF Completed, Cancelled
  <1>6. CASE UNCHANGED vars
    <2>1. EngineTypeOK'
      BY <1>6 DEF vars, EngineTypeOK, futureVars, workerVars
    <2>2. UNCHANGED <<list, futureVars, notifications, workerVars, calls>> /\ UNCHANGED queueVars
      BY <1>6 DEF vars, queueVars
    <2> QED BY <2>1, <2>2, CoreUntouched, QueueUntouched
  <1> QED BY <1>1, <1>2, <1>3, <1>4, <1>5, <1>6 DEF Next, EngineStep

(* The inductive invariant holds in every behaviour of the engine. *)
THEOREM EngineInvariance == SingleAwaiter /\ Spec => []IInv
  <1>1. SingleAwaiter /\ Spec => []SingleAwaiter
    <2>1. SingleAwaiter => SingleAwaiter'
      BY DEF SingleAwaiter
    <2> QED BY <2>1, PTL
  <1> QED BY InitInv, StepInv, <1>1, PTL DEF Spec

(* Every variable of the engine keeps its type. *)
THEOREM EngineTypeCorrect == SingleAwaiter /\ Spec => []TypeOK
  <1>1. IInv => TypeOK
    BY DEF IInv
  <1> QED BY <1>1, EngineInvariance, PTL

(* At most one thing at a time will resume a generator, so no generator is *)
(* ever resumed by two workers at once.                                    *)
LEMMA OneOwner == IInv => SingleOwner
  <1> SUFFICES ASSUME IInv, NEW g \in Gens, NEW x \in Owners(g), NEW y \in Owners(g)
               PROVE  x = y
    BY DEF SingleOwner
  <1> USE Parts
  <1>1. \A w \in Workers : Holds(w, g) => Carries(w, g)
    BY DEF Holds, Carries, Fresh, Stepping
  <1>2. (\E w \in Workers : Holds(w, g)) => /\ g \notin calls
                                            /\ \A i \in 1..Len(list) : list[i] # g
                                            /\ \A f \in Futures : notifications[f] # g
    BY <1>1 DEF CoreInv, Exclusive, Listed, Parked
  <1>3. g \in calls => /\ \A i \in 1..Len(list) : list[i] # g
                       /\ \A f \in Futures : notifications[f] # g
    BY EngineAssumption DEF CoreInv, SubmittedOnce, ParkedAwaits, Futures
  <1>4. (\E i \in 1..Len(list) : list[i] = g) => \A f \in Futures : notifications[f] # g
    BY EngineAssumption DEF CoreInv, SubmittedOnce, ParkedAwaits, Futures
  <1>5. \A v, w \in Workers : Holds(v, g) /\ Holds(w, g) => v = w
    BY <1>1 DEF CoreInv, Exclusive
  <1>6. \A i, j \in 1..Len(list) : list[i] = g /\ list[j] = g => i = j
    BY DEF CoreInv, SubmittedOnce
  <1>7. \A e, f \in Futures : notifications[e] = g /\ notifications[f] = g => e = f
    BY EngineAssumption DEF CoreInv, ParkedAwaits, Futures
  <1> DEFINE IsOwner(z) ==
        \/ z = <<"call", g>> /\ g \in calls
        \/ \E i \in 1..Len(list) : z = <<"queue", i>> /\ list[i] = g
        \/ \E w \in Workers : z = <<"worker", w>> /\ Holds(w, g)
        \/ \E f \in Futures : z = <<"parked", f>> /\ notifications[f] = g
  <1>8. IsOwner(x) /\ IsOwner(y)
    BY DEF Owners
  <1> QED BY <1>2, <1>3, <1>4, <1>5, <1>6, <1>7, <1>8

(* No generator is ever due to be resumed by two things: a call, a place   *)
(* in the queue, a worker or an entry of notifications.                    *)
THEOREM OneResumer == SingleAwaiter /\ Spec => []SingleOwner
  <1> QED BY OneOwner, EngineInvariance, PTL

(* Whatever is parked under a future is the generator that awaits it. *)
THEOREM ParkedIsAwaiter == SingleAwaiter /\ Spec => []ParkedAwaits
  <1>1. IInv => ParkedAwaits
    BY DEF IInv
  <1> QED BY <1>1, EngineInvariance, PTL

(* agen.hpp:17: no generator is resumed after it is done. *)
THEOREM DoneNotResumed == SingleAwaiter /\ Spec => DoneIsFinal
  <1>1. IInv => \A w \in Workers : pc[w] = "run" => gen[task[w]] # "Fi"
    BY Parts, SteppingNotDone DEF Stepping
  <1>2. IInv /\ [Next]_vars =>
          [\A w \in Workers : pc[w] = "run" /\ pc'[w] = "resume"
                                 => gen[task[w]] # "Fi"]_vars
    BY <1>1
  <1> QED BY <1>2, EngineInvariance, PTL DEF Spec, DoneIsFinal

(* agen.hpp:28: a generator that awaits a future is resumed with that      *)
(* future settled, never while it is being computed.                       *)
THEOREM ReadyWhenResumed == SingleAwaiter /\ Spec => ResumedWhenReady
  <1>1. IInv => \A w \in Workers : pc[w] = "resume" /\ gen[task[w]] = "A"
                   => state[Awa[task[w]]] \in {"Suspended", "Completed", "Cancelled"}
    BY DEF IInv, AwaitingMarked, Settled
  <1>2. IInv /\ [Next]_vars =>
          [\A w \in Workers :
             pc[w] = "resume" /\ gen[task[w]] = "A" /\ pc'[w] = "publish"
               => state[Awa[task[w]]] \in {"Suspended", "Completed", "Cancelled"}]_vars
    BY <1>1
  <1> QED BY <1>2, EngineInvariance, PTL DEF Spec, ResumedWhenReady

------------------------------------------------------------------------------
(* With one worker no awaiter is lost, whatever clients launch ahead and   *)
(* however futures are shared: between the worker's look at the awaited    *)
(* future and notifiAdd() only a client may settle that future, and what a *)
(* client settles is on its way through the queue to this same worker.     *)

(* What is in a call or in the queue will be looked at by a worker.        *)
Coming == calls \cup Listed

(* An outside future comes to a worker only once it is resolved.           *)
ComesResolved ==
  \A o \in Outs :
    /\ state[o] \in {"Running", "Completed", "Cancelled"}
    /\ state[o] = "Running" => o \notin Coming /\ \A w \in Workers : task[w] # o

(* What the only worker knows of its task, place by place.                 *)
WorkerKnows(w) ==
  LET f == task[w] IN
  /\ pc[w] = "pop" <=> f = None
  /\ pc[w] \in Stepping \cup {"drop"} => f \in Gens
  /\ pc[w] = "isCompleted" => state[f] # "Cancelled"
  /\ pc[w] = "isResumeable" => state[f] \notin {"Completed", "Cancelled"}
  /\ pc[w] \in {"resume", "check", "await"} => state[f] = "Running"
  /\ pc[w] = "add" => state[f] = "Awaiting"
  /\ pc[w] \in {"check", "await", "add"} => Awa[f] # None
  /\ pc[w] \in {"await", "add"} /\ state[Awa[f]] \in Settled =>
       Awa[f] \in Coming \/ (seen[w] /\ Awa[f] \in Gens)

FoundInv ==
  /\ EngineTypeOK /\ list \in Seq(Futures)
  /\ ComesResolved
  /\ \A g \in Gens : state[g] # "Cancelled"
  /\ \A w \in Workers : WorkerKnows(w)
  /\ \A f \in Futures : notifications[f] # None /\ state[f] \in Settled =>
       f \in Coming \/ \E w \in Workers : task[w] = f

(* It holds at first: nothing is awaited yet.                              *)
LEMMA InitFound == Init => FoundInv
  <1> SUFFICES ASSUME Init PROVE FoundInv
    OBVIOUS
  <1>1. EngineTypeOK
    BY InitInv, Parts
  <1>2. list = <<>> /\ Len(list) = 0 /\ list \in Seq(Futures)
    BY DEF Init, EngineInit, work!QueueInit
  <1>3. Coming = {}
    BY <1>2 DEF Coming, Listed, Init, EngineInit
  <1> QED
    BY <1>1, <1>2, <1>3, EngineAssumption
    DEF Init, EngineInit, FoundInv, ComesResolved, WorkerKnows, Stepping, Futures

(* A step of a client, by which futures may come and be settled, and of    *)
(* the threads that touch neither the futures nor the worker's place.      *)
Arrival ==
  /\ Coming \subseteq Coming'
  /\ \A f \in Futures :
       \/ state'[f] = state[f] /\ (f \in Coming' => f \in Coming \/ f \in Gens)
       \/ f \in Gens /\ state[f] = "Suspended" /\ state'[f] = "Queued"
       \/ /\ f \in Outs /\ state[f] = "Running"
          /\ state'[f] \in {"Completed", "Cancelled"} /\ f \in Coming'
  /\ UNCHANGED <<notifications, workerVars>>

(* It keeps the invariant.                                                 *)
LEMMA ArrivalFound ==
  ASSUME FoundInv, EngineTypeOK', list' \in Seq(Futures), Arrival
  PROVE  FoundInv'
  <1> USE DEF Arrival, workerVars
  <1>1. \A f \in Futures : state'[f] \in Settled => f \in Coming' \/ state'[f] = state[f]
    BY DEF Settled
  <1>2. ComesResolved'
    BY EngineAssumption DEF FoundInv, ComesResolved, Futures
  <1>3. \A g \in Gens : state'[g] # "Cancelled"
    BY EngineAssumption DEF FoundInv, Futures
  <1>4. ASSUME NEW w \in Workers PROVE WorkerKnows(w)'
    <2>1. pc[w] # "pop" => task[w] \in Futures
      BY DEF FoundInv, WorkerKnows, EngineTypeOK
    <2>2. pc[w] \in {"check", "await", "add"} => Awa[task[w]] \in Futures
      BY EngineAssumption DEF FoundInv, WorkerKnows, Stepping
    <2>3. task[w] \in Futures =>
            \/ state'[task[w]] = state[task[w]]
            \/ task[w] \in Gens /\ state[task[w]] = "Suspended" /\ state'[task[w]] = "Queued"
      BY DEF FoundInv, ComesResolved
    <2> QED
      BY <1>1, <2>1, <2>2, <2>3 DEF FoundInv, WorkerKnows
  <1>5. \A f \in Futures : notifications'[f] # None /\ state'[f] \in Settled =>
          f \in Coming' \/ \E w \in Workers : task'[w] = f
    BY <1>1 DEF FoundInv
  <1> QED
    BY <1>2, <1>3, <1>4, <1>5 DEF FoundInv

(* execute(), the resolution of an outside future, and the pushes of both. *)
LEMMA ClientFound ==
  ASSUME FoundInv,
         \/ \E g \in Gens : MayLaunchAhead(g) /\ Execute(g)
         \/ \E o \in Outs : Completed(o) \/ Cancelled(o)
         \/ \E f \in Futures : PushCall(f)
  PROVE  FoundInv'
  <1>1. /\ state \in [Futures -> FutureState] /\ list \in Seq(Futures)
        /\ Gens \subseteq Futures /\ Outs \subseteq Futures
    BY DEF FoundInv, EngineTypeOK, Futures
  <1>2. ASSUME NEW g \in Gens, MayLaunchAhead(g), Execute(g) PROVE FoundInv'
    <2>1. /\ calls' = calls \cup {g} /\ state' = [state EXCEPT ![g] = "Queued"]
          /\ state[g] = "Suspended"
          /\ UNCHANGED <<list, gen, left, notifications, workerVars, wle>>
      BY <1>2 DEF Execute, MayLaunchAhead, queueVars
    <2>2. EngineTypeOK' /\ list' \in Seq(Futures)
      BY <1>1, <2>1 DEF FoundInv, EngineTypeOK, FutureState, workerVars
    <2>3. Coming' = Coming \cup {g}
      BY <2>1 DEF Coming, Listed
    <2> QED
      BY <1>1, <2>1, <2>2, <2>3, ArrivalFound DEF Arrival
  <1>3. ASSUME NEW o \in Outs, Completed(o) \/ Cancelled(o) PROVE FoundInv'
    <2>1. PICK st \in {"Completed", "Cancelled"} :
            /\ calls' = calls \cup {o} /\ state' = [state EXCEPT ![o] = st]
            /\ state[o] = "Running"
            /\ UNCHANGED <<list, gen, left, notifications, workerVars, wle>>
      BY <1>3 DEF Completed, Cancelled, Resolve, queueVars
    <2>2. EngineTypeOK' /\ list' \in Seq(Futures)
      BY <1>1, <2>1 DEF FoundInv, EngineTypeOK, FutureState, workerVars
    <2>3. Coming' = Coming \cup {o}
      BY <2>1 DEF Coming, Listed
    <2> QED
      BY <1>1, <2>1, <2>2, <2>3, ArrivalFound DEF Arrival
  <1>4. ASSUME NEW f \in Futures, PushCall(f) PROVE FoundInv'
    <2>1. /\ f \in calls /\ calls' = calls \ {f} /\ list' = Append(list, f)
          /\ UNCHANGED <<futureVars, notifications, workerVars, wle>>
      BY <1>4 DEF PushCall, work!Push
    <2>2. EngineTypeOK' /\ list' \in Seq(Futures)
      BY <1>1, <2>1 DEF FoundInv, EngineTypeOK, futureVars, workerVars
    <2>3. Coming' = Coming
      <3>1. Listed' = Listed \cup {f}
        BY <1>1, <2>1 DEF Listed
      <3> QED
        BY <2>1, <3>1 DEF Coming
    <2> QED
      BY <2>1, <2>2, <2>3, ArrivalFound DEF Arrival, futureVars
  <1> QED
    BY <1>2, <1>3, <1>4

(* The steps that touch neither the futures nor the worker's place.        *)
LEMMA UntouchedFound ==
  ASSUME FoundInv, EngineTypeOK',
         UNCHANGED <<list, futureVars, notifications, workerVars, calls>>
  PROVE  FoundInv'
  <1>1. Coming' = Coming
    BY DEF Coming, Listed
  <1> QED
    BY <1>1 DEF FoundInv, futureVars, workerVars, ComesResolved, WorkerKnows

(* The worker takes from the queue what may have an awaiter to find.       *)
LEMMA TakesFound ==
  ASSUME FoundInv, NEW w, Workers = {w}, WorkerTakes(w)
  PROVE  FoundInv'
  <1> USE DEF WorkerTakes, Goto, futureVars, work!PopTake
  <1> DEFINE f == Head(list)
  <1>1. /\ list \in Seq(Futures) /\ list # <<>> /\ f \in Futures /\ f = list[1]
        /\ 1 \in 1..Len(list) /\ list' \in Seq(Futures)
        /\ Len(list') = Len(list) - 1 /\ Len(list) \in Nat
        /\ \A i \in 1..Len(list') : list'[i] = list[i + 1] /\ i + 1 \in 1..Len(list)
    BY DEF FoundInv
  <1>2. EngineTypeOK'
    BY <1>1 DEF FoundInv, EngineTypeOK, WorkerPC
  <1>3. /\ task[w] = None /\ pc'[w] = "isCancelled" /\ task'[w] = f /\ f # None
        /\ UNCHANGED <<state, notifications, calls, seen>>
    BY <1>1, EngineAssumption DEF FoundInv, EngineTypeOK, WorkerKnows, Futures
  <1>4. /\ Coming' \subseteq Coming /\ f \in Coming
        /\ \A g \in Coming : g \in Coming' \/ g = f
    <2>1. ASSUME NEW i \in 1..Len(list), i # 1 PROVE list[i] \in Listed'
      <3>1. i - 1 \in 1..Len(list') /\ list'[i - 1] = list[i]
        BY <1>1, <2>1
      <3> QED
        BY <3>1 DEF Listed
    <2>2. \A g \in Listed : g \in Listed' \/ g = f
      BY <1>1, <2>1 DEF Listed
    <2>3. Listed' \subseteq Listed /\ f \in Listed
      BY <1>1 DEF Listed
    <2> QED
      BY <1>3, <2>2, <2>3 DEF Coming
  <1>5. ComesResolved'
    BY <1>3, <1>4, EngineAssumption DEF FoundInv, ComesResolved, Futures
  <1>6. WorkerKnows(w)'
    BY <1>3 DEF WorkerKnows, Stepping
  <1>7. \A g \in Futures : notifications'[g] # None /\ state'[g] \in Settled =>
          g \in Coming' \/ \E v \in Workers : task'[v] = g
    BY <1>3, <1>4, EngineAssumption DEF FoundInv, Futures
  <1> QED
    BY <1>1, <1>2, <1>3, <1>5, <1>6, <1>7 DEF FoundInv

(* The worker moves on with the task it has, and no awaiter is parked.     *)
Moves(w, p) ==
  /\ pc' = [pc EXCEPT ![w] = p] /\ p # "pop"
  /\ UNCHANGED <<list, notifications, task, calls>>

(* Such a step keeps the invariant if the worker knows what it should. *)
LEMMA MovesFound ==
  ASSUME FoundInv, EngineTypeOK', NEW w, Workers = {w}, pc[w] # "pop", NEW p, Moves(w, p),
         WorkerKnows(w)', \A f \in Futures : state'[f] = state[f] \/ (f = task[w] /\ f \in Gens),
         state'[task[w]] # "Cancelled" \/ UNCHANGED state
  PROVE  FoundInv'
  <1>1. Coming' = Coming /\ UNCHANGED <<list, notifications, task, calls>>
    BY DEF Coming, Listed, Moves
  <1>2. ComesResolved'
    BY <1>1, EngineAssumption DEF FoundInv, ComesResolved, Futures
  <1>3. \A g \in Gens : state'[g] # "Cancelled"
    BY EngineAssumption DEF FoundInv, Futures
  <1>4. \A f \in Futures : notifications'[f] # None /\ state'[f] \in Settled =>
          f \in Coming' \/ \E v \in Workers : task'[v] = f
    BY <1>1 DEF FoundInv
  <1> QED
    BY <1>1, <1>2, <1>3, <1>4 DEF FoundInv

(* The tests of task.state(), and the steps of the resume loop.            *)
LEMMA LoopFound ==
  ASSUME FoundInv, NEW w, Workers = {w},
         \/ IsCancelled(w) \/ IsCompleted(w) \/ Run(w) \/ ResumeSource(w) \/ ResumeOp(w)
         \/ Check(w) \/ SetAwaiting(w) \/ Publish(w)
         \/ (IsResumeable(w) /\ pc'[w] = "run")
  PROVE  FoundInv'
  <1> DEFINE f == task[w]
  <1>1. /\ pc \in [Workers -> WorkerPC] /\ task \in [Workers -> Futures \cup {None}]
        /\ state \in [Futures -> FutureState] /\ gen \in [Gens -> {"I", "A", "Fi"}]
        /\ left \in [Gens -> Nat] /\ seen \in [Workers -> BOOLEAN] /\ Gens \subseteq Futures
        /\ w \in Workers
    BY DEF FoundInv, EngineTypeOK, Futures
  <1>2. WorkerKnows(w) /\ (pc[w] # "pop" => f \in Futures /\ f # None)
    BY <1>1, EngineAssumption DEF FoundInv, WorkerKnows, Futures
  <1>3. f \in Gens /\ Awa[f] # None => Awa[f] \in Futures
    BY EngineAssumption
  <1>4. f \in Gens => state[f] # "Cancelled"
    BY DEF FoundInv
  <1>5. f \in Outs => state[f] \in {"Completed", "Cancelled"}
    BY <1>1 DEF FoundInv, ComesResolved, Futures
  <1>6. CASE IsCancelled(w) \/ IsCompleted(w) \/ (IsResumeable(w) /\ pc'[w] = "run")
    <2> USE DEF IsCancelled, IsCompleted, IsResumeable, Goto, futureVars, queueVars
    <2>1. PICK p \in WorkerPC :
            /\ Moves(w, p) /\ UNCHANGED <<state, gen, left, notifications, task, seen, calls, wle>>
            /\ \/ pc[w] = "isCancelled" /\ p = "nuke"
               \/ pc[w] = "isCancelled" /\ p = "isCompleted" /\ state[f] # "Cancelled"
               \/ pc[w] = "isCompleted" /\ p = "chain"
               \/ pc[w] = "isCompleted" /\ p = "isResumeable" /\ state[f] # "Completed"
               \/ pc[w] = "isResumeable" /\ p = "run" /\ f \in Gens
      BY <1>1, <1>6 DEF Moves, WorkerPC, Return
    <2>2. pc'[w] = p /\ pc' \in [Workers -> WorkerPC]
      BY <1>1, <2>1 DEF Moves
    <2>3. EngineTypeOK'
      BY <2>1, <2>2 DEF FoundInv, EngineTypeOK
    <2>4. WorkerKnows(w)'
      BY <1>2, <2>1, <2>2 DEF WorkerKnows, Stepping
    <2> QED
      BY <1>2, <2>1, <2>3, <2>4, MovesFound DEF WorkerKnows
  <1>7. CASE Run(w) \/ SetAwaiting(w) \/ Publish(w)
    <2> USE DEF Run, SetAwaiting, Publish, Goto, queueVars
    <2>1. PICK p \in WorkerPC, st \in FutureState :
            /\ Moves(w, p) /\ state' = [state EXCEPT ![f] = st]
            /\ UNCHANGED <<gen, left, notifications, task, seen, calls, wle>>
            /\ \/ pc[w] = "run" /\ p = "resume" /\ st = "Running"
               \/ pc[w] = "await" /\ p = "add" /\ st = "Awaiting"
               \/ pc[w] = "publish" /\ p = "drop" /\ st \in {"Completed", "Suspended"}
      BY <1>1, <1>7 DEF Moves, WorkerPC, FutureState
    <2>2. pc'[w] = p /\ pc' \in [Workers -> WorkerPC] /\ state' \in [Futures -> FutureState]
          /\ f \in Gens /\ state'[f] = st /\ \A g \in Futures : g # f => state'[g] = state[g]
      BY <1>1, <1>2, <2>1 DEF Moves, WorkerKnows, Stepping
    <2>3. EngineTypeOK'
      BY <2>1, <2>2 DEF FoundInv, EngineTypeOK
    <2>4. WorkerKnows(w)'
      <3>1. CASE p # "add"
        BY <1>2, <2>1, <2>2, <3>1 DEF WorkerKnows, Stepping
      <3>2. CASE p = "add"
        <4>1. Awa[f] # None /\ Awa[f] \in Futures
          BY <1>2, <1>3, <2>1, <2>2, <3>2 DEF WorkerKnows
        <4>2. Coming' = Coming
          BY <2>1 DEF Coming, Listed, Moves
        <4>3. state'[Awa[f]] \in Settled => state[Awa[f]] \in Settled
          BY <2>1, <2>2, <3>2, <4>1 DEF Settled
        <4> QED
          BY <1>2, <2>1, <2>2, <3>2, <4>1, <4>2, <4>3 DEF WorkerKnows, Stepping
      <3> QED
        BY <3>1, <3>2
    <2> QED
      BY <1>2, <2>1, <2>2, <2>3, <2>4, MovesFound DEF WorkerKnows
  <1>8. CASE ResumeSource(w) \/ ResumeOp(w)
    <2> USE DEF ResumeSource, ResumeOp, Goto, queueVars
    <2>1. PICK p \in {"publish", "check"} :
            /\ Moves(w, p) /\ UNCHANGED <<state, notifications, task, seen, calls, wle>>
            /\ pc[w] = "resume" /\ (p = "check" => Awa[f] # None)
            /\ gen' \in [Gens -> {"I", "A", "Fi"}] /\ left' \in [Gens -> Nat]
      BY <1>1, <1>8 DEF Moves
    <2>2. pc'[w] = p /\ pc' \in [Workers -> WorkerPC]
      BY <1>1, <2>1 DEF Moves, WorkerPC
    <2>3. EngineTypeOK'
      BY <2>1, <2>2 DEF FoundInv, EngineTypeOK
    <2>4. WorkerKnows(w)'
      BY <1>2, <2>1, <2>2 DEF WorkerKnows, Stepping
    <2> QED
      BY <1>2, <2>1, <2>3, <2>4, MovesFound DEF WorkerKnows
  <1>9. CASE Check(w)
    <2>1. PICK p \in {"run", "await"} :
            /\ Moves(w, p) /\ UNCHANGED <<state, gen, left, notifications, task, calls, wle>>
            /\ pc[w] = "check"
            /\ p = "await" => state[Awa[f]] \notin {"Completed", "Cancelled"}
            /\ seen' = [seen EXCEPT ![w] = (state[Awa[f]] = "Suspended")]
      BY <1>9 DEF Check, Moves, Goto, queueVars, futureVars
    <2>2. pc'[w] = p /\ pc' \in [Workers -> WorkerPC] /\ seen' \in [Workers -> BOOLEAN]
          /\ seen'[w] = (state[Awa[f]] = "Suspended")
      BY <1>1, <2>1 DEF Moves, WorkerPC
    <2>3. EngineTypeOK'
      BY <2>1, <2>2 DEF FoundInv, EngineTypeOK
    <2>4. f \in Gens /\ Awa[f] \in Futures
      BY <1>2, <1>3, <2>1 DEF WorkerKnows, Stepping
    <2>5. Awa[f] \in Outs => state[Awa[f]] # "Suspended"
      BY DEF FoundInv, ComesResolved
    <2>6. WorkerKnows(w)'
      BY <1>2, <2>1, <2>2, <2>4, <2>5 DEF WorkerKnows, Stepping, Settled, Futures
    <2> QED
      BY <1>2, <2>1, <2>3, <2>6, MovesFound DEF WorkerKnows
  <1> QED
    BY <1>6, <1>7, <1>8, <1>9

(* notifiDrop(): the awaiter of the task is found and becomes the task.    *)
LEMMA FollowFound ==
  ASSUME FoundInv, NEW w, Workers = {w}, Nuke(w) \/ Chain(w) \/ Drop(w)
  PROVE  FoundInv'
  <1> DEFINE f == task[w]
  <1> DEFINE a == notifications[f]
  <1>1. /\ pc \in [Workers -> WorkerPC] /\ task \in [Workers -> Futures \cup {None}]
        /\ notifications \in [Futures -> Gens \cup {None}] /\ w \in Workers
        /\ list \in Seq(Futures) /\ Gens \subseteq Futures /\ None \notin Futures
    BY EngineAssumption DEF FoundInv, EngineTypeOK, Futures
  <1>2. pc[w] # "pop" /\ f \in Futures
    BY <1>1 DEF Nuke, Chain, Drop, FoundInv, WorkerKnows
  <1>3. /\ notifications' = [notifications EXCEPT ![f] = None]
        /\ wle' \in {wle, "woken"}
        /\ \/ /\ a # None /\ task' = [task EXCEPT ![w] = a]
              /\ \E p \in {"nuke", "run"} : pc' = [pc EXCEPT ![w] = p]
           \/ a = None /\ task' = [task EXCEPT ![w] = None] /\ pc' = [pc EXCEPT ![w] = "pop"]
        /\ UNCHANGED <<list, state, gen, left, seen, calls>>
    BY DEF Nuke, Chain, Drop, FollowAwaiter, notifiDrop, WleNotified, Return, Goto, queueVars,
       futureVars
  <1>4. EngineTypeOK'
    <2>1. task' \in [Workers -> Futures \cup {None}] /\ pc' \in [Workers -> WorkerPC]
      BY <1>1, <1>2, <1>3 DEF WorkerPC
    <2>2. notifications' \in [Futures -> Gens \cup {None}]
      BY <1>1, <1>3
    <2> QED
      BY <1>3, <2>1, <2>2 DEF FoundInv, EngineTypeOK
  <1>5. Coming' = Coming
    BY <1>3 DEF Coming, Listed
  <1>6. WorkerKnows(w)' /\ task'[w] \in Gens \cup {None}
    BY <1>1, <1>2, <1>3 DEF WorkerKnows, Stepping
  <1>7. ComesResolved'
    BY <1>1, <1>3, <1>5, <1>6, EngineAssumption DEF FoundInv, ComesResolved, Futures
  <1>8. \A g \in Futures : notifications'[g] # None => g # f /\ notifications[g] # None
    BY <1>1, <1>3
  <1>9. \A g \in Futures : notifications'[g] # None /\ state'[g] \in Settled =>
          g \in Coming' \/ \E v \in Workers : task'[v] = g
    BY <1>3, <1>5, <1>8 DEF FoundInv
  <1> QED
    BY <1>1, <1>3, <1>4, <1>6, <1>7, <1>9 DEF FoundInv

(* notifiAdd(): the awaiter is parked, and if the awaited future was seen  *)
(* at rest the worker goes on with that.                                   *)
LEMMA AddFound ==
  ASSUME FoundInv, NEW w, Workers = {w}, Add(w)
  PROVE  FoundInv'
  <1> DEFINE f == task[w] awa == Awa[f]
  <1>1. /\ pc \in [Workers -> WorkerPC] /\ task \in [Workers -> Futures \cup {None}]
        /\ notifications \in [Futures -> Gens \cup {None}] /\ w \in Workers
        /\ seen \in [Workers -> BOOLEAN]
        /\ list \in Seq(Futures) /\ Gens \subseteq Futures /\ None \notin Futures
    BY EngineAssumption DEF FoundInv, EngineTypeOK, Futures
  <1>2. /\ pc[w] = "add" /\ f \in Gens /\ awa \in Futures /\ state[f] = "Awaiting"
        /\ state[awa] \in Settled => awa \in Coming \/ (seen[w] /\ awa \in Gens)
    BY <1>1, EngineAssumption DEF Add, FoundInv, WorkerKnows, Stepping
  <1>3. /\ notifications' = [notifications EXCEPT ![awa] = f]
        /\ seen' = [seen EXCEPT ![w] = FALSE]
        /\ \/ /\ seen[w] /\ awa \in Gens
              /\ task' = [task EXCEPT ![w] = awa] /\ pc' = [pc EXCEPT ![w] = "run"]
           \/ /\ ~(seen[w] /\ awa \in Gens)
              /\ task' = [task EXCEPT ![w] = None] /\ pc' = [pc EXCEPT ![w] = "pop"]
        /\ UNCHANGED <<list, state, gen, left, wle, calls>>
    BY DEF Add, notifiAdd, Return, Goto, queueVars, futureVars
  <1>4. EngineTypeOK'
    <2>1. task' \in [Workers -> Futures \cup {None}] /\ pc' \in [Workers -> WorkerPC]
      BY <1>1, <1>2, <1>3 DEF WorkerPC
    <2>2. notifications' \in [Futures -> Gens \cup {None}] /\ seen' \in [Workers -> BOOLEAN]
      BY <1>1, <1>2, <1>3
    <2> QED
      BY <1>3, <2>1, <2>2 DEF FoundInv, EngineTypeOK
  <1>5. Coming' = Coming
    BY <1>3 DEF Coming, Listed
  <1>6. WorkerKnows(w)' /\ task'[w] \in Gens \cup {None}
    BY <1>1, <1>2, <1>3 DEF WorkerKnows, Stepping
  <1>7. ComesResolved'
    BY <1>1, <1>3, <1>5, <1>6, EngineAssumption DEF FoundInv, ComesResolved, Futures
  <1>8. ASSUME NEW g \in Futures, notifications'[g] # None, state'[g] \in Settled
        PROVE  g \in Coming' \/ \E v \in Workers : task'[v] = g
    <2>1. CASE g = awa
      BY <1>1, <1>2, <1>3, <1>5, <1>8, <2>1
    <2>2. CASE g # awa
      <3>1. notifications[g] # None /\ g # f
        BY <1>1, <1>2, <1>3, <1>8, <2>2 DEF Settled
      <3> QED
        BY <1>3, <1>5, <1>8, <3>1 DEF FoundInv
    <2> QED
      BY <2>1, <2>2
  <1> QED
    BY <1>1, <1>3, <1>4, <1>6, <1>7, <1>8 DEF FoundInv

(* A generator that awaits is not resumed, and is not settled either.      *)
LEMMA GivesUpFound ==
  ASSUME FoundInv, NEW w, Workers = {w}, IsResumeable(w), pc'[w] # "run"
  PROVE  FoundInv'
  <1> DEFINE f == task[w]
  <1>1. /\ pc \in [Workers -> WorkerPC] /\ task \in [Workers -> Futures \cup {None}]
        /\ state \in [Futures -> FutureState] /\ w \in Workers /\ Gens \subseteq Futures
        /\ list \in Seq(Futures)
    BY DEF FoundInv, EngineTypeOK, Futures
  <1>2. /\ pc[w] = "isResumeable" /\ f \in Futures
        /\ state[f] # "Completed" /\ state[f] # "Cancelled"
    BY <1>1 DEF IsResumeable, FoundInv, WorkerKnows
  <1>3. f \in Gens
    BY <1>1, <1>2 DEF FoundInv, ComesResolved, Futures
  <1>4. state[f] = "Awaiting"
    BY <1>1, <1>2, <1>3 DEF IsResumeable, Goto, UpToRunning, FutureState
  <1>5. /\ task' = [task EXCEPT ![w] = None] /\ pc' = [pc EXCEPT ![w] = "pop"]
        /\ UNCHANGED <<list, state, gen, left, notifications, seen, calls, wle>>
    BY <1>1, <1>4 DEF IsResumeable, Return, Goto, UpToRunning, queueVars, futureVars
  <1>6. EngineTypeOK'
    BY <1>1, <1>5 DEF FoundInv, EngineTypeOK, WorkerPC
  <1>7. Coming' = Coming
    BY <1>5 DEF Coming, Listed
  <1>8. WorkerKnows(w)' /\ task'[w] = None
    BY <1>1, <1>5 DEF WorkerKnows, Stepping
  <1>9. ComesResolved'
    BY <1>5, <1>7, <1>8, EngineAssumption DEF FoundInv, ComesResolved, Futures
  <1>10. ASSUME NEW g \in Futures, notifications'[g] # None, state'[g] \in Settled
         PROVE  g \in Coming' \/ \E v \in Workers : task'[v] = g
    <2>1. g # f
      BY <1>4, <1>5, <1>10 DEF Settled
    <2> QED
      BY <1>5, <1>7, <1>10, <2>1 DEF FoundInv
  <1> QED
    BY <1>1, <1>5, <1>6, <1>8, <1>9, <1>10 DEF FoundInv

(* Every step of an engine with one worker keeps the invariant.            *)
LEMMA FoundStep ==
  ASSUME FoundInv, NEW w, Workers = {w}, [AheadNext]_vars
  PROVE  FoundInv'
  <1>1. CASE Work(w)
    <2>1. CASE WorkerWaits(w) \/ WorkerLeaves(w)
      <3>1. EngineTypeOK'
        BY <2>1 DEF WorkerWaits, WorkerLeaves, FoundInv, EngineTypeOK, futureVars, workerVars,
           WleNotified
      <3>2. UNCHANGED <<list, futureVars, notifications, workerVars, calls>>
        BY <2>1 DEF WorkerWaits, WorkerLeaves, work!PopWait, work!PopClosed
      <3> QED
        BY <3>1, <3>2, UntouchedFound
    <2>2. CASE IsResumeable(w) /\ pc'[w] # "run"
      BY <2>2, GivesUpFound
    <2> QED
      BY <1>1, <2>1, <2>2, TakesFound, LoopFound, FollowFound, AddFound DEF Work
  <1>2. CASE WleCall \/ Wle \/ WleSpurious \/ WorkerSpurious(w) \/ UNCHANGED vars
    <2>1. UNCHANGED <<list, futureVars, notifications, workerVars, calls>>
      BY <1>2 DEF WleCall, Wle, WleTest, WleSleep, WleSpurious, WleClose, WleJoin,
         WorkerSpurious, vars,
        queueVars, work!Close, work!SpuriousWakeup
    <2>2. EngineTypeOK'
      BY <1>2, <2>1 DEF WleCall, Wle, WleTest, WleSleep, WleSpurious, WleClose, WleJoin,
         WorkerSpurious, vars,
        FoundInv, EngineTypeOK, futureVars, workerVars
    <2> QED
      BY <2>1, <2>2, UntouchedFound
  <1> QED
    BY <1>1, <1>2, ClientFound DEF AheadNext, EngineStep

(* A client that submits only ends launches nothing ahead that is awaited. *)
LEMMA NextIsAhead == [Next]_vars => [AheadNext]_vars
  <1>1. \A g \in Gens : MayExecute(g) => MayLaunchAhead(g)
    BY DEF MayExecute, MayLaunchAhead, Roots
  <1> QED
    BY <1>1 DEF Next, AheadNext

(* engine.cpp:64-66: with one worker a parked awaiter whose future has     *)
(* settled is always found, although notifiAdd() comes after the look at   *)
(* the state of the future; clients may launch ahead, and futures may be   *)
(* shared.                                                                 *)
THEOREM AwaiterIsFound == Cardinality(Workers) = 1 /\ AheadSpec => []NoLostAwaiter
  <1> SUFFICES ASSUME Cardinality(Workers) = 1 PROVE AheadSpec => []NoLostAwaiter
    OBVIOUS
  <1>1. PICK w : Workers = {w}
    BY EngineAssumption, FS_Singleton
  <1>2. FoundInv /\ [AheadNext]_vars => FoundInv'
    BY <1>1, FoundStep
  <1>3. FoundInv => NoLostAwaiter
    BY DEF FoundInv, NoLostAwaiter, Settled, Coming, Listed
  <1> QED
    BY <1>2, <1>3, InitFound, PTL DEF AheadSpec

(* The same of clients that submit only the ends of pipelines.             *)
THEOREM AwaiterIsFoundInOrder == Cardinality(Workers) = 1 /\ Spec => []NoLostAwaiter
  <1>1. Spec => AheadSpec
    BY NextIsAhead, PTL DEF Spec, AheadSpec
  <1> QED
    BY <1>1, AwaiterIsFound, PTL
==============================================================================
