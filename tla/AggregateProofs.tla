--------------------------- MODULE AggregateProofs ---------------------------
(***************************************************************************)
(* Module Aggregate, for every set of members and every pipeline under     *)
(* them, on an engine with one worker: the balance counts what was added   *)
(* and is not counted out, and blawait() returns no sooner than all is.    *)
(*                                                                         *)
(* The generator of blawait() awaits the aggregate.  As long as a member   *)
(* it waits for is not counted out, the aggregate is Running, so a worker  *)
(* that finds it in the queue does not chain, and the generator, which is  *)
(* in one place, is resumed once, from I.  With two workers this fails     *)
(* (MCAggregate_early.cfg).                                                *)
(***************************************************************************)
EXTENDS Aggregate, YengineProofs

(* Where the only worker is, and what it may have there. *)
Place(w) ==
  /\ pc[w] = "pop" <=> task[w] = None
  /\ pc[w] \in Stepping \cup {"drop"} => task[w] \in Gens
  /\ pc[w] \in {"check", "await", "add"} => Awa[task[w]] # None

(* The state of the engine is well typed, and its workers are in place.    *)
EngineParts == EngineTypeOK /\ list \in Seq(Futures) /\ \A w \in Workers : Place(w)

(* A generator that no call, no place of the queue, no worker and no entry *)
(* of the map has.                                                         *)
Nowhere(g) == g \notin Coming /\ ~Parked(g) /\ \A w \in Workers : task[w] # g

(* The balance counts the members that were added and not counted out yet, *)
(* the aggregate is only marked when there is none, and what is about is a *)
(* member that was added.                                                  *)
BalanceInv ==
  /\ added \subseteq Members /\ counted \subseteq added
  /\ bal = Cardinality(added \ counted)
  /\ state[agg] \in {"Running", "Completed"}
  /\ state[agg] = "Completed" => added = counted
  /\ \A m \in Members \ added : Nowhere(m)

(* Every member that the call of blawait() has seen is counted out. *)
Met == blocker # "before" /\ before \subseteq counted

(* A generator is in one call or one place of the queue. *)
ComesOnce(g) ==
  /\ g \in calls => g \notin Listed
  /\ \A i, j \in 1..Len(list) : list[i] = g /\ list[j] = g => i = j

(* Until then the generator of blawait() is in one place, where it is not  *)
(* resumed from A.                                                         *)
NotTold ==
  /\ ~told /\ gen[blocked] \in {"I", "A"}
  /\ ComesOnce(blocked)
  /\ \A w \in Workers :
       /\ task[w] = blocked =>
            /\ blocked \notin Coming
            /\ gen[blocked] = "I" => pc[w] \notin {"check", "await", "add", "publish"}
            /\ gen[blocked] = "A" => pc[w] \in {"check", "await", "add", "nuke"}
       /\ pc[w] = "chain" /\ task[w] = agg => notifications[agg] # blocked
  /\ gen[blocked] = "I" => ~Parked(blocked)
  /\ gen[blocked] = "A" => blocked \notin Coming

(* The generator is parked under the aggregate only, nobody has it before  *)
(* the call, it is not told before all are met, and the thread does not    *)
(* return before it is.                                                    *)
BlawaitInv ==
  /\ before \subseteq added
  /\ \A f \in Futures : notifications[f] = blocked => f = agg
  /\ blocker = "before" => Nowhere(blocked) /\ gen[blocked] = "I" /\ ~told
  /\ blocker # "before" /\ ~Met => NotTold
  /\ told => Met
  /\ blocker = "returned" => told

(* The inductive invariant of an aggregate on an engine with one worker.   *)
AggregateInv == EngineParts /\ BalanceInv /\ BlawaitInv

(* What the step of a worker is, as far as places are concerned: it sleeps *)
(* or leaves, ...                                                          *)
Idles == UNCHANGED <<list, gen, notifications, pc, task, calls>>

(* ... takes what is first in the queue, ...                               *)
Takes(w) ==
  /\ pc[w] = "pop" /\ list # <<>> /\ list' = Tail(list)
  /\ pc' = [pc EXCEPT ![w] = "isCancelled"] /\ task' = [task EXCEPT ![w] = Head(list)]
  /\ UNCHANGED <<gen, notifications, calls>>

(* ... goes on with its task, ...                                          *)
Turn(w, p) ==
  LET f == task[w] IN
  \/ pc[w] = "isCancelled" /\ p \in {"nuke", "isCompleted"} /\ UNCHANGED gen
  \/ pc[w] = "isCompleted" /\ p = "chain" /\ state[f] = "Completed" /\ UNCHANGED gen
  \/ pc[w] = "isCompleted" /\ p = "isResumeable" /\ UNCHANGED gen
  \/ pc[w] = "isResumeable" /\ p = "run" /\ f \in Gens /\ UNCHANGED gen
  \/ pc[w] = "run" /\ p = "resume" /\ UNCHANGED gen
  \/ pc[w] = "resume" /\ p = "publish" /\ (Awa[f] # None => gen[f] = "A")
  \/ /\ pc[w] = "resume" /\ p = "check" /\ Awa[f] # None
     /\ gen[f] # "A" /\ (gen[f] = "I" => gen'[f] = "A")
  \/ pc[w] = "check" /\ p = "run" /\ state[Awa[f]] \in {"Completed", "Cancelled"} /\ UNCHANGED gen
  \/ pc[w] = "check" /\ p = "await" /\ UNCHANGED gen
  \/ pc[w] = "await" /\ p = "add" /\ UNCHANGED gen
  \/ pc[w] = "publish" /\ p = "drop" /\ UNCHANGED gen

(* (a step that leaves the other generators alone)                         *)
GoesOn(w, p) ==
  /\ Turn(w, p) /\ pc' = [pc EXCEPT ![w] = p] /\ p \in WorkerPC
  /\ \A g \in Gens : g # task[w] => gen'[g] = gen[g]
  /\ UNCHANGED <<list, notifications, task, calls>>

(* ... gives it up, ...                                                    *)
GivesUp(w) ==
  /\ pc' = [pc EXCEPT ![w] = "pop"] /\ task' = [task EXCEPT ![w] = None]
  /\ UNCHANGED <<list, gen, notifications, calls>>

(* ... follows its awaiter, ...                                            *)
Follows(w) ==
  LET a == notifications[task[w]] IN
  /\ pc[w] \in {"nuke", "chain", "drop"}
  /\ notifications' = [notifications EXCEPT ![task[w]] = None]
  /\ task' = [task EXCEPT ![w] = a]
  /\ pc' = [pc EXCEPT ![w] = IF a = None THEN "pop" ELSE IF @ = "nuke" THEN "nuke" ELSE "run"]
  /\ UNCHANGED <<list, gen, calls>>

(* ... or parks it, and may go on with what it awaits.                     *)
Parks(w) ==
  LET awa == Awa[task[w]] IN
  /\ pc[w] = "add"
  /\ notifications' = [notifications EXCEPT ![awa] = task[w]]
  /\ \/ awa \in Gens /\ task' = [task EXCEPT ![w] = awa] /\ pc' = [pc EXCEPT ![w] = "run"]
     \/ task' = [task EXCEPT ![w] = None] /\ pc' = [pc EXCEPT ![w] = "pop"]
  /\ UNCHANGED <<list, gen, calls>>

(* The step of a worker is one of these.                                   *)
WorkStep(w) ==
  \/ Idles \/ Takes(w) \/ GivesUp(w) \/ Follows(w) \/ Parks(w)
  \/ \E p \in WorkerPC : GoesOn(w, p)

(* The step of a worker is one of these, keeps the types and does not      *)
(* touch an outside future.                                                *)
LEMMA WorkIs ==
  ASSUME EngineParts, NEW w \in Workers, Work(w)
  PROVE  /\ WorkStep(w) /\ EngineTypeOK' /\ list' \in Seq(Futures)
         /\ \A o \in Outs : state'[o] = state[o]
  <1> DEFINE f == task[w]
  <1>1. /\ pc \in [Workers -> WorkerPC] /\ task \in [Workers -> Futures \cup {None}]
        /\ state \in [Futures -> FutureState] /\ gen \in [Gens -> {"I", "A", "Fi"}]
        /\ left \in [Gens -> Nat] /\ seen \in [Workers -> BOOLEAN]
        /\ notifications \in [Futures -> Gens \cup {None}]
        /\ list \in Seq(Futures) /\ Place(w)
        /\ Gens \subseteq Futures /\ Outs \subseteq Futures /\ Gens \cap Outs = {}
        /\ None \notin Futures
        /\ Awa \in [Gens -> Futures \cup {None}]
    BY EngineAssumption DEF EngineParts, EngineTypeOK, Futures
  <1>2. f \in Gens => f \in Futures /\ f \notin Outs
    BY <1>1
  <1>3. CASE WorkerWaits(w) \/ WorkerLeaves(w)
    <2>1. Idles /\ UNCHANGED <<state, left, seen>> /\ wle' \in {wle, "woken"}
      BY <1>3 DEF WorkerWaits, WorkerLeaves, work!PopWait, work!PopClosed, Idles, futureVars,
        workerVars, WleNotified
    <2>2. EngineTypeOK'
      BY <2>1 DEF EngineParts, EngineTypeOK, Idles
    <2> QED
      BY <1>1, <2>1, <2>2 DEF WorkStep, Idles
  <1>4. CASE WorkerTakes(w)
    <2>1. Takes(w) /\ UNCHANGED <<state, left, seen, wle>>
      BY <1>4 DEF WorkerTakes, work!PopTake, Takes, Goto, futureVars
    <2>2. Head(list) \in Futures /\ Tail(list) \in Seq(Futures)
      BY <1>1, <2>1 DEF Takes
    <2>3. EngineTypeOK' /\ list' \in Seq(Futures)
      BY <1>1, <2>1, <2>2 DEF EngineParts, EngineTypeOK, Takes, WorkerPC
    <2> QED
      BY <2>1, <2>3 DEF WorkStep
  <1>5. CASE IsCancelled(w) \/ IsCompleted(w) \/ IsResumeable(w) \/ Check(w)
    <2>1. /\ GivesUp(w) \/ \E p \in WorkerPC : GoesOn(w, p)
          /\ UNCHANGED <<list, state, gen, left, notifications, calls, wle>>
      <3>1. CASE IsCancelled(w)
        <4>1. PICK p \in {"nuke", "isCompleted"} : pc' = [pc EXCEPT ![w] = p]
          BY <3>1 DEF IsCancelled, Goto
        <4> QED
          BY <3>1, <4>1 DEF IsCancelled, GoesOn, Turn, WorkerPC, queueVars, futureVars
      <3>2. CASE IsCompleted(w)
        <4>1. PICK p \in {"chain", "isResumeable"} :
                pc' = [pc EXCEPT ![w] = p] /\ (p = "chain" => state[f] = "Completed")
          BY <3>2 DEF IsCompleted, Goto
        <4> QED
          BY <3>2, <4>1 DEF IsCompleted, GoesOn, Turn, WorkerPC, queueVars, futureVars
      <3>3. CASE IsResumeable(w)
        BY <3>3 DEF IsResumeable, GoesOn, GivesUp, Turn, Goto, Return, WorkerPC, queueVars,
           futureVars
      <3>4. CASE Check(w)
        <4>1. PICK p \in {"run", "await"} :
                /\ pc' = [pc EXCEPT ![w] = p]
                /\ p = "run" => state[Awa[f]] \in {"Completed", "Cancelled"}
          BY <3>4 DEF Check, Goto
        <4> QED
          BY <3>4, <4>1 DEF Check, GoesOn, Turn, WorkerPC, queueVars, futureVars
      <3> QED
        BY <1>5, <3>1, <3>2, <3>3, <3>4
    <2>2. task' \in [Workers -> Futures \cup {None}] /\ pc' \in [Workers -> WorkerPC]
      <3>1. CASE GivesUp(w)
        BY <1>1, <3>1 DEF GivesUp, WorkerPC
      <3>2. ASSUME NEW p \in WorkerPC, GoesOn(w, p)
            PROVE  task' \in [Workers -> Futures \cup {None}] /\ pc' \in [Workers -> WorkerPC]
        BY <1>1, <3>2 DEF GoesOn
      <3> QED
        BY <2>1, <3>1, <3>2
    <2>3. seen' \in [Workers -> BOOLEAN]
      BY <1>1, <1>5 DEF IsCancelled, IsCompleted, IsResumeable, Check
    <2>4. EngineTypeOK'
      BY <2>1, <2>2, <2>3 DEF EngineParts, EngineTypeOK
    <2> QED
      BY <1>1, <2>1, <2>4 DEF WorkStep
  <1>6. CASE Nuke(w) \/ Chain(w) \/ Drop(w)
    <2>1. f \in Futures
      BY <1>1, <1>6 DEF Nuke, Chain, Drop, Place
    <2>2. Follows(w)
      <3>1. CASE Nuke(w)
        BY <3>1 DEF Nuke, FollowAwaiter, notifiDrop, Follows, Return, Goto, queueVars, futureVars
      <3>2. CASE Chain(w) \/ Drop(w)
        BY <3>2 DEF Chain, Drop, FollowAwaiter, notifiDrop, Follows, Return, Goto, queueVars,
           futureVars
      <3> QED
        BY <1>6, <3>1, <3>2
    <2>3. UNCHANGED <<state, left, seen>> /\ wle' \in {wle, "woken"}
      BY <1>6 DEF Nuke, Chain, Drop, FollowAwaiter, notifiDrop, WleNotified, queueVars, futureVars
    <2>4. task' \in [Workers -> Futures \cup {None}] /\ pc' \in [Workers -> WorkerPC]
          /\ notifications' \in [Futures -> Gens \cup {None}]
      BY <1>1, <2>1, <2>2 DEF Follows, WorkerPC
    <2>5. EngineTypeOK' /\ list' \in Seq(Futures)
      BY <1>1, <2>2, <2>3, <2>4 DEF EngineParts, EngineTypeOK, Follows
    <2> QED
      BY <1>1, <2>2, <2>3, <2>5 DEF WorkStep, WorkerPC
  <1>7. CASE Run(w) \/ SetAwaiting(w) \/ Publish(w)
    <2>1. f \in Gens
      BY <1>1, <1>7 DEF Run, SetAwaiting, Publish, Place, Stepping
    <2>2. PICK p \in WorkerPC, st \in FutureState :
            /\ GoesOn(w, p) /\ state' = [state EXCEPT ![f] = st]
            /\ UNCHANGED <<gen, left, seen, wle>>
      BY <1>7 DEF Run, SetAwaiting, Publish, GoesOn, Turn, Goto, WorkerPC, FutureState, queueVars
    <2>3. state' \in [Futures -> FutureState] /\ pc' \in [Workers -> WorkerPC]
      BY <1>1, <1>2, <2>1, <2>2 DEF GoesOn
    <2>4. EngineTypeOK' /\ list' \in Seq(Futures)
      BY <1>1, <2>2, <2>3 DEF EngineParts, EngineTypeOK, GoesOn
    <2> QED
      BY <1>1, <1>2, <2>1, <2>2, <2>4 DEF WorkStep
  <1>8. CASE ResumeSource(w) \/ ResumeOp(w)
    <2>1. f \in Gens
      BY <1>1, <1>8 DEF ResumeSource, ResumeOp, Place, Stepping
    <2>2. PICK p \in {"publish", "check"} :
            /\ GoesOn(w, p) /\ UNCHANGED <<state, seen, wle>>
            /\ gen' \in [Gens -> {"I", "A", "Fi"}] /\ left' \in [Gens -> Nat]
      <3>1. CASE ResumeSource(w)
        BY <1>1, <2>1, <3>1 DEF ResumeSource, GoesOn, Turn, Goto, WorkerPC, queueVars
      <3>2. CASE ResumeOp(w)
        BY <1>1, <2>1, <3>2 DEF ResumeOp, GoesOn, Turn, Goto, WorkerPC, queueVars
      <3> QED
        BY <1>8, <3>1, <3>2
    <2>3. EngineTypeOK' /\ list' \in Seq(Futures)
      BY <1>1, <2>2 DEF EngineParts, EngineTypeOK, GoesOn, WorkerPC
    <2> QED
      BY <1>1, <2>2, <2>3 DEF WorkStep, WorkerPC
  <1>9. CASE Add(w)
    <2>1. f \in Gens /\ Awa[f] \in Futures
      BY <1>1, <1>9 DEF Add, Place, Stepping
    <2>2. Parks(w) /\ UNCHANGED <<state, left, wle>> /\ seen' = [seen EXCEPT ![w] = FALSE]
      BY <1>9 DEF Add, notifiAdd, Parks, Return, Goto, queueVars, futureVars
    <2>3. task' \in [Workers -> Futures \cup {None}] /\ pc' \in [Workers -> WorkerPC]
          /\ notifications' \in [Futures -> Gens \cup {None}] /\ seen' \in [Workers -> BOOLEAN]
      BY <1>1, <2>1, <2>2 DEF Parks, WorkerPC
    <2>4. EngineTypeOK' /\ list' \in Seq(Futures)
      BY <1>1, <2>2, <2>3 DEF EngineParts, EngineTypeOK, Parks
    <2> QED
      BY <1>1, <2>2, <2>4 DEF WorkStep
  <1> QED
    BY <1>3, <1>4, <1>5, <1>6, <1>7, <1>8, <1>9 DEF Work

(* What is about the constants. *)
LEMMA Constants ==
  /\ blocked \in Gens /\ blocked \in Roots /\ blocked \in Futures /\ blocked # None
  /\ blocked \notin Members /\ agg \in Outs /\ agg \in Futures /\ agg \notin Gens /\ agg # None
  /\ Members \subseteq Roots /\ Members \subseteq Gens /\ Roots \subseteq Gens
  /\ Gens \subseteq Futures /\ None \notin Futures /\ Awa[blocked] = agg
  /\ \A g \in Roots : \A h \in Gens : Awa[h] # g
  BY EngineAssumption, AggregateAssumption DEF Roots, Futures

(* What a worker takes was coming, and the rest still is. *)
LEMMA TakenWasComing ==
  ASSUME list \in Seq(Futures), NEW w \in Workers, Takes(w)
  PROVE  /\ Head(list) \in Listed /\ Coming' \subseteq Coming /\ Listed' \subseteq Listed
         /\ \A g \in Listed' : (\A i, j \in 1..Len(list) : list[i] = g /\ list[j] = g => i = j)
                                 => g # Head(list)
         /\ \A g : (\A i, j \in 1..Len(list) : list[i] = g /\ list[j] = g => i = j)
                     => \A i, j \in 1..Len(list') : list'[i] = g /\ list'[j] = g => i = j
  <1>1. /\ 1 \in 1..Len(list) /\ Head(list) = list[1] /\ Len(list) \in Nat
        /\ Len(list') = Len(list) - 1
        /\ \A i \in 1..Len(list') : list'[i] = list[i + 1] /\ i + 1 \in 1..Len(list) /\ i + 1 # 1
    BY DEF Takes
  <1>2. Head(list) \in Listed /\ Listed' \subseteq Listed
    BY <1>1 DEF Listed
  <1>3. Coming' \subseteq Coming
    BY <1>2 DEF Coming, Takes
  <1>4. ASSUME NEW g \in Listed', \A i, j \in 1..Len(list) : list[i] = g /\ list[j] = g => i = j
        PROVE  g # Head(list)
    <2>1. PICK i \in 1..Len(list') : list'[i] = g
      BY DEF Listed
    <2> QED
      BY <1>1, <1>4, <2>1
  <1>5. ASSUME NEW g, \A i, j \in 1..Len(list) : list[i] = g /\ list[j] = g => i = j,
               NEW i \in 1..Len(list'), NEW j \in 1..Len(list'), list'[i] = g, list'[j] = g
        PROVE  i = j
    <2>1. i + 1 = j + 1
      BY <1>1, <1>5
    <2> QED
      BY <1>1, <2>1
  <1> QED
    BY <1>2, <1>3, <1>4, <1>5

(* No step of the worker moves Coming otherwise. *)
LEMMA ComingSame == UNCHANGED <<list, calls>> => Coming' = Coming /\ Listed' = Listed
  BY DEF Coming, Listed

(* The worker keeps its place. *)
LEMMA PlaceKept ==
  ASSUME EngineParts, NEW w, Workers = {w}, Work(w)
  PROVE  EngineParts'
  <1>1. /\ pc \in [Workers -> WorkerPC] /\ task \in [Workers -> Futures \cup {None}]
        /\ notifications \in [Futures -> Gens \cup {None}] /\ w \in Workers
        /\ list \in Seq(Futures) /\ Place(w) /\ None \notin Futures /\ Gens \subseteq Futures
        /\ Awa \in [Gens -> Futures \cup {None}]
    BY EngineAssumption DEF EngineParts, EngineTypeOK, Futures
  <1>2. WorkStep(w) /\ EngineTypeOK' /\ list' \in Seq(Futures)
    BY <1>1, WorkIs
  <1>3. Place(w)'
    <2>1. CASE Idles
      BY <1>1, <2>1 DEF Idles, Place
    <2>2. CASE Takes(w)
      <3>1. Head(list) \in Futures
        BY <1>1, <2>2 DEF Takes
      <3> QED
        BY <1>1, <2>2, <3>1 DEF Takes, Place, Stepping
    <2>3. CASE GivesUp(w)
      BY <1>1, <2>3 DEF GivesUp, Place, Stepping
    <2>4. CASE Follows(w)
      <3>1. task[w] \in Futures
        BY <1>1, <2>4 DEF Follows, Place
      <3> QED
        BY <1>1, <2>4, <3>1 DEF Follows, Place, Stepping
    <2>5. CASE Parks(w)
      BY <1>1, <2>5 DEF Parks, Place, Stepping
    <2>6. ASSUME NEW p \in WorkerPC, GoesOn(w, p) PROVE Place(w)'
      <3>1. task'[w] = task[w] /\ pc'[w] = p
        BY <1>1, <2>6 DEF GoesOn
      <3> QED
        BY <1>1, <2>6, <3>1 DEF GoesOn, Turn, Place, Stepping
    <2> QED
      BY <1>2, <2>1, <2>2, <2>3, <2>4, <2>5, <2>6 DEF WorkStep
  <1> QED
    BY <1>2, <1>3 DEF EngineParts

(* What was nowhere the worker does not bring about. *)
LEMMA NowhereKept ==
  ASSUME EngineParts, NEW w, Workers = {w}, Work(w), NEW g \in Roots, Nowhere(g)
  PROVE  Nowhere(g)' /\ gen'[g] = gen[g]
  <1>1. /\ pc \in [Workers -> WorkerPC] /\ task \in [Workers -> Futures \cup {None}]
        /\ notifications \in [Futures -> Gens \cup {None}] /\ w \in Workers
        /\ list \in Seq(Futures) /\ Place(w) /\ g \in Gens /\ g # None /\ Gens \subseteq Futures
        /\ None \notin Futures /\ Awa \in [Gens -> Futures \cup {None}]
    BY Constants, EngineAssumption DEF EngineParts, EngineTypeOK
  <1>2. /\ g \notin Coming /\ g \notin Listed /\ task[w] # g
        /\ \A f \in Futures : notifications[f] # g
    BY <1>1 DEF Nowhere, Coming, Parked
  <1>3. WorkStep(w)
    BY <1>1, WorkIs
  <1>4. SUFFICES /\ g \notin Coming' /\ task'[w] # g /\ gen'[g] = gen[g]
                 /\ \A f \in Futures : notifications'[f] # g
    BY DEF Nowhere, Parked
  <1>5. CASE Idles
    BY <1>2, <1>5, ComingSame DEF Idles
  <1>6. CASE Takes(w)
    <2>1. Head(list) \in Listed /\ Coming' \subseteq Coming
      BY <1>1, <1>6, TakenWasComing
    <2> QED
      BY <1>1, <1>2, <1>6, <2>1 DEF Takes
  <1>7. CASE GivesUp(w)
    BY <1>1, <1>2, <1>7, ComingSame DEF GivesUp
  <1>8. CASE Follows(w)
    <2>1. task[w] \in Futures
      BY <1>1, <1>8 DEF Follows, Place
    <2> QED
      BY <1>1, <1>2, <1>8, <2>1, ComingSame DEF Follows
  <1>9. CASE Parks(w)
    <2>1. task[w] \in Gens
      BY <1>1, <1>9 DEF Parks, Place, Stepping
    <2>2. Awa[task[w]] # g
      BY <2>1, Constants
    <2> QED
      BY <1>1, <1>2, <1>9, <2>1, <2>2, ComingSame DEF Parks
  <1>10. ASSUME NEW p \in WorkerPC, GoesOn(w, p)
         PROVE  /\ g \notin Coming' /\ task'[w] # g /\ gen'[g] = gen[g]
                /\ \A f \in Futures : notifications'[f] # g
    BY <1>1, <1>2, <1>10, ComingSame DEF GoesOn
  <1> QED
    BY <1>3, <1>5, <1>6, <1>7, <1>8, <1>9, <1>10 DEF WorkStep

(* The generator of blawait() stays untold. *)
LEMMA NotToldKept ==
  ASSUME EngineParts, BalanceInv, BlawaitInv, NEW w, Workers = {w}, Work(w),
         blocker # "before", ~Met, NotTold, told' = told
  PROVE  NotTold'
  <1>1. /\ pc \in [Workers -> WorkerPC] /\ task \in [Workers -> Futures \cup {None}]
        /\ notifications \in [Futures -> Gens \cup {None}] /\ w \in Workers
        /\ list \in Seq(Futures) /\ Place(w) /\ Gens \subseteq Futures /\ None \notin Futures
        /\ Awa \in [Gens -> Futures \cup {None}]
        /\ gen \in [Gens -> {"I", "A", "Fi"}]
    BY EngineAssumption DEF EngineParts, EngineTypeOK, Futures
  <1>2. /\ blocked \in Gens /\ blocked \in Futures /\ blocked # None /\ agg \in Futures
        /\ agg \notin Gens /\ Awa[blocked] = agg /\ \A h \in Gens : Awa[h] # blocked
    BY Constants
  <1>3. state[agg] # "Completed" /\ state[agg] # "Cancelled"
    BY DEF BalanceInv, BlawaitInv, Met
  <1>4. /\ ~told /\ gen[blocked] \in {"I", "A"}
        /\ blocked \in calls => blocked \notin Listed
        /\ \A i, j \in 1..Len(list) : list[i] = blocked /\ list[j] = blocked => i = j
        /\ task[w] = blocked =>
             /\ blocked \notin Coming
             /\ gen[blocked] = "I" => pc[w] \notin {"check", "await", "add", "publish"}
             /\ gen[blocked] = "A" => pc[w] \in {"check", "await", "add", "nuke"}
        /\ pc[w] = "chain" /\ task[w] = agg => notifications[agg] # blocked
        /\ gen[blocked] = "I" => \A f \in Futures : notifications[f] # blocked
        /\ gen[blocked] = "A" => blocked \notin Coming
        /\ \A f \in Futures : notifications[f] = blocked => f = agg
    BY <1>1 DEF NotTold, ComesOnce, Parked, BlawaitInv
  <1>5. WorkStep(w)
    BY <1>1, WorkIs
  <1> DEFINE
    Goal ==
        /\ gen'[blocked] \in {"I", "A"}
        /\ blocked \in calls' => blocked \notin Listed'
        /\ \A i, j \in 1..Len(list') : list'[i] = blocked /\ list'[j] = blocked => i = j
        /\ task'[w] = blocked =>
             /\ blocked \notin Coming'
             /\ gen'[blocked] = "I" => pc'[w] \notin {"check", "await", "add", "publish"}
             /\ gen'[blocked] = "A" => pc'[w] \in {"check", "await", "add", "nuke"}
        /\ pc'[w] = "chain" /\ task'[w] = agg => notifications'[agg] # blocked
        /\ gen'[blocked] = "I" => \A f \in Futures : notifications'[f] # blocked
        /\ gen'[blocked] = "A" => blocked \notin Coming'
  <1>6. SUFFICES Goal
    BY <1>4 DEF NotTold, ComesOnce, Parked
  <1>7. CASE Idles
    BY <1>4, <1>7, ComingSame DEF Idles
  <1>8. CASE Takes(w)
    <2>1. /\ Head(list) \in Listed /\ Coming' \subseteq Coming /\ Listed' \subseteq Listed
          /\ blocked \in Listed' => blocked # Head(list)
          /\ \A i, j \in 1..Len(list') : list'[i] = blocked /\ list'[j] = blocked => i = j
      BY <1>1, <1>4, <1>8, TakenWasComing
    <2>2. task'[w] = Head(list) /\ pc'[w] = "isCancelled" /\ UNCHANGED <<gen, notifications,
    calls>>
      BY <1>1, <1>8 DEF Takes
    <2>3. Head(list) = blocked => blocked \notin Coming' /\ gen[blocked] = "I"
      BY <1>4, <2>1, <2>2 DEF Coming
    <2> QED
      BY <1>4, <2>1, <2>2, <2>3
  <1>9. CASE GivesUp(w)
    BY <1>1, <1>2, <1>4, <1>9, ComingSame DEF GivesUp
  <1>10. CASE Follows(w)
    <2>1. task[w] \in Futures /\ (pc[w] = "drop" => task[w] \in Gens)
      BY <1>1, <1>10 DEF Follows, Place
    <2>2. /\ Coming' = Coming /\ Listed' = Listed /\ UNCHANGED <<list, gen, calls>>
          /\ task'[w] = notifications[task[w]]
          /\ \A f \in Futures : notifications'[f] = blocked => notifications[f] = blocked
          /\ pc'[w] \in {"pop", "nuke", "run"} /\ (pc'[w] = "run" => pc[w] \in {"chain", "drop"})
      BY <1>1, <1>2, <1>10, <2>1, ComingSame DEF Follows
    <2>3. task'[w] = blocked => task[w] = agg /\ gen[blocked] = "A"
      BY <1>4, <2>1, <2>2
    <2>4. task'[w] = blocked => pc'[w] = "nuke"
      BY <1>1, <1>2, <1>4, <1>10, <2>1, <2>2, <2>3 DEF Follows
    <2> QED
      BY <1>4, <2>2, <2>3, <2>4
  <1>11. CASE Parks(w)
    <2>1. task[w] \in Gens /\ Awa[task[w]] \in Futures /\ pc[w] = "add" /\ Awa[task[w]] # blocked
      BY <1>1, <1>2, <1>11 DEF Parks, Place, Stepping
    <2>2. /\ Coming' = Coming /\ Listed' = Listed /\ UNCHANGED <<list, gen, calls>>
          /\ task'[w] # blocked /\ pc'[w] \in {"run", "pop"}
          /\ \A f \in Futures : notifications'[f] = blocked
                                  => notifications[f] = blocked \/ task[w] = blocked
      BY <1>1, <1>2, <1>11, <2>1, ComingSame DEF Parks
    <2>3. task[w] = blocked => gen[blocked] = "A"
      BY <1>4, <2>1
    <2> QED
      BY <1>4, <2>2, <2>3
  <1>12. ASSUME NEW p \in WorkerPC, GoesOn(w, p) PROVE Goal
    <2>1. /\ Coming' = Coming /\ Listed' = Listed /\ UNCHANGED <<list, notifications, task, calls>>
          /\ pc'[w] = p
      BY <1>1, <1>12, ComingSame DEF GoesOn
    <2>2. Turn(w, p)
      BY <1>12 DEF GoesOn
    <2>3. p = "chain" => task[w] # agg
      BY <1>3, <2>2 DEF Turn
    <2>4. CASE task[w] # blocked
      <3>1. gen'[blocked] = gen[blocked]
        BY <1>2, <1>12, <2>4 DEF GoesOn
      <3> QED
        BY <1>4, <2>1, <2>3, <2>4, <3>1
    <2>5. CASE task[w] = blocked
      <3>1. \/ UNCHANGED gen /\ gen[blocked] = "I" /\ p \notin {"check", "await", "add", "publish"}
            \/ UNCHANGED gen /\ gen[blocked] = "A" /\ p \in {"check", "await", "add", "nuke"}
            \/ gen'[blocked] = "A" /\ p = "check"
        <4>1. CASE gen[blocked] = "I"
          BY <1>1, <1>2, <1>3, <1>4, <2>2, <2>5, <4>1 DEF Turn
        <4>2. CASE gen[blocked] = "A"
          BY <1>1, <1>2, <1>3, <1>4, <2>2, <2>5, <4>2 DEF Turn
        <4> QED
          BY <1>4, <4>1, <4>2
      <3> QED
        BY <1>4, <2>1, <2>3, <2>5, <3>1
    <2> QED
      BY <2>4, <2>5
  <1> QED
    BY <1>5, <1>7, <1>8, <1>9, <1>10, <1>11, <1>12 DEF WorkStep

(* It is parked under the aggregate only. *)
LEMMA ParkedKept ==
  ASSUME EngineParts, NEW w, Workers = {w}, Work(w),
         \A f \in Futures : notifications[f] = blocked => f = agg
  PROVE  \A f \in Futures : notifications'[f] = blocked => f = agg
  <1>1. /\ notifications \in [Futures -> Gens \cup {None}] /\ w \in Workers /\ Place(w)
        /\ task \in [Workers -> Futures \cup {None}]
    BY DEF EngineParts, EngineTypeOK
  <1>2. WorkStep(w) /\ Awa[blocked] = agg /\ blocked # None
    BY <1>1, WorkIs, Constants
  <1>3. CASE Follows(w)
    BY <1>1, <1>2, <1>3 DEF Follows
  <1>4. CASE Parks(w)
    BY <1>1, <1>2, <1>4 DEF Parks
  <1>5. CASE UNCHANGED notifications
    BY <1>5
  <1> QED
    BY <1>2, <1>3, <1>4, <1>5 DEF WorkStep, Idles, Takes, GivesUp, GoesOn

(* The worker keeps the invariant wherever it may go on. *)
LEMMA WorkKeeps ==
  ASSUME AggregateInv, NEW w, Workers = {w}, Work(w), UNCHANGED <<aggVars, blockVars>>
  PROVE  AggregateInv'
  <1> USE DEF AggregateInv, aggVars, blockVars
  <1>1. EngineParts'
    BY PlaceKept
  <1>2. state'[agg] = state[agg]
    BY WorkIs, Constants
  <1>3. BalanceInv'
    <2>1. \A m \in Members \ added : Nowhere(m)'
      BY NowhereKept, Constants DEF BalanceInv
    <2> QED
      BY <1>2, <2>1 DEF BalanceInv
  <1>4. blocker = "before" => Nowhere(blocked)' /\ gen'[blocked] = "I"
    BY NowhereKept, Constants DEF BlawaitInv
  <1>5. blocker # "before" /\ ~Met => NotTold'
    BY NotToldKept DEF BlawaitInv
  <1>6. Met' <=> Met
    BY DEF Met
  <1>7. \A f \in Futures : notifications'[f] = blocked => f = agg
    BY ParkedKept DEF BlawaitInv
  <1> QED
    BY <1>1, <1>3, <1>4, <1>5, <1>6, <1>7 DEF BlawaitInv

------------------------------------------------------------------------------
(* The steps of others: no worker moves, and nothing but x comes. *)
Brings(x) ==
  /\ Coming' = Coming \cup {x} \/ Coming' = Coming
  /\ UNCHANGED <<gen, left, notifications, pc, task, seen, wle>>
  /\ state' \in [Futures -> FutureState] /\ calls' \in SUBSET Futures /\ list' \in Seq(Futures)

(* They keep the types and places. *)
LEMMA BringsParts == ASSUME EngineParts, NEW x, Brings(x) PROVE EngineParts'
  BY DEF EngineParts, EngineTypeOK, Brings, Place

(* What they do not bring is nowhere still. *)
LEMMA BringsNowhere ==
  ASSUME NEW x, Brings(x), NEW g, Nowhere(g), g # x
  PROVE  Nowhere(g)'
  BY DEF Brings, Nowhere, Parked

(* And what concerns the generator of blawait() stays, unless it comes. *)
LEMMA BringsBlawait ==
  ASSUME BlawaitInv, NEW x, Brings(x), x # blocked \/ x \in Coming,
         ComesOnce(blocked) => ComesOnce(blocked)',
         added \subseteq added', counted \subseteq counted', UNCHANGED <<told, before>>,
         \/ blocker' = blocker
         \/ /\ blocker # "before" /\ blocker' # "before"
            /\ blocker' = "returned" => told
  PROVE  BlawaitInv'
  <1>1. blocker = "before" => Nowhere(blocked)' /\ gen'[blocked] = "I"
    <2> SUFFICES ASSUME blocker = "before" PROVE Nowhere(blocked)' /\ gen'[blocked] = "I"
      OBVIOUS
    <2>1. Nowhere(blocked) /\ gen[blocked] = "I"
      BY DEF BlawaitInv
    <2>2. x # blocked
      BY <2>1 DEF Nowhere
    <2> QED
      BY <2>1, <2>2, BringsNowhere DEF Brings
  <1>2. Met => Met'
    BY DEF Met
  <1>3. NotTold => NotTold'
    <2>1. blocked \in Coming' <=> blocked \in Coming
      BY DEF Brings
    <2> QED
      BY <2>1 DEF Brings, NotTold, Parked
  <1> QED
    BY <1>1, <1>2, <1>3 DEF BlawaitInv, Brings

(* Together: such a step keeps the invariant if it keeps the balance. *)
LEMMA BringsKeeps ==
  ASSUME AggregateInv, NEW x, Brings(x), x \notin Members \ added,
         x # blocked \/ x \in Coming, ComesOnce(blocked) => ComesOnce(blocked)',
         state'[agg] = state[agg], UNCHANGED <<bal, added, counted, told, before>>,
         \/ blocker' = blocker
         \/ /\ blocker # "before" /\ blocker' # "before"
            /\ blocker' = "returned" => told
  PROVE  AggregateInv'
  <1>1. BalanceInv /\ EngineParts' /\ BlawaitInv'
    BY BringsParts, BringsBlawait DEF AggregateInv
  <1>2. BalanceInv'
    BY <1>1, BringsNowhere DEF BalanceInv
  <1> QED
    BY <1>1, <1>2 DEF AggregateInv

(* add() submits what it has counted in. *)
LEMMA AddSubmitsKeeps ==
  ASSUME AggregateInv, NEW m \in Members, AddSubmits(m)
  PROVE  AggregateInv'
  <1>1. /\ m \in added /\ m # blocked /\ m \in Gens /\ m \in Futures /\ agg # m /\ agg \in Futures
        /\ UNCHANGED <<aggVars, blockVars>> /\ m \notin Outs
    BY Constants, EngineAssumption DEF AddSubmits
  <1>2. /\ calls' = calls \cup {m} /\ state' = [state EXCEPT ![m] = "Queued"]
        /\ UNCHANGED <<list, gen, left, notifications, pc, task, seen, wle>>
    BY DEF AddSubmits, Execute, queueVars, workerVars
  <1>3. Coming' = Coming \cup {m} /\ Listed' = Listed
    BY <1>2 DEF Coming, Listed
  <1>4. Brings(m) /\ state'[agg] = state[agg]
    BY <1>1, <1>2, <1>3 DEF AggregateInv, EngineParts, EngineTypeOK, Brings, FutureState
  <1>5. ComesOnce(blocked) => ComesOnce(blocked)'
    BY <1>1, <1>2, <1>3 DEF ComesOnce
  <1> QED
    BY <1>1, <1>4, <1>5, BringsKeeps DEF blockVars, aggVars

(* Other outside futures are resolved. *)
LEMMA MemberSettlesKeeps ==
  ASSUME AggregateInv, NEW o \in Outs, MemberSettles(o)
  PROVE  AggregateInv'
  <1>1. /\ o # blocked /\ o \in Futures /\ agg # o /\ agg \in Futures /\ o \notin Members
        /\ UNCHANGED <<aggVars, blockVars>>
    BY Constants, EngineAssumption DEF MemberSettles, Futures
  <1>2. PICK st \in {"Completed", "Cancelled"} :
          /\ calls' = calls \cup {o} /\ state' = [state EXCEPT ![o] = st]
          /\ UNCHANGED <<list, gen, left, notifications, pc, task, seen, wle>>
    BY DEF MemberSettles, Completed, Cancelled, Resolve, queueVars, workerVars
  <1>3. Coming' = Coming \cup {o} /\ Listed' = Listed
    BY <1>2 DEF Coming, Listed
  <1>4. Brings(o) /\ state'[agg] = state[agg]
    BY <1>1, <1>2, <1>3 DEF AggregateInv, EngineParts, EngineTypeOK, Brings, FutureState
  <1>5. ComesOnce(blocked) => ComesOnce(blocked)'
    BY <1>1, <1>2, <1>3 DEF ComesOnce
  <1> QED
    BY <1>1, <1>4, <1>5, BringsKeeps DEF blockVars, aggVars

(* A call pushes to the queue. *)
LEMMA PushKeeps ==
  ASSUME AggregateInv, NEW f \in Futures, AggregatePush(f)
  PROVE  AggregateInv'
  <1>1. /\ f \in calls /\ calls' = calls \ {f} /\ list' = Append(list, f)
        /\ UNCHANGED <<state, gen, left, notifications, pc, task, seen, wle>>
        /\ UNCHANGED <<bal, added, counted, blockVars>>
    BY DEF AggregatePush, PushCall, work!Push, futureVars, workerVars
  <1>2. /\ list \in Seq(Futures) /\ state \in [Futures -> FutureState] /\ calls \in SUBSET Futures
        /\ BalanceInv
    BY DEF AggregateInv, EngineParts, EngineTypeOK
  <1>3. /\ Len(list) \in Nat /\ Len(list') = Len(list) + 1 /\ list'[Len(list) + 1] = f
        /\ \A i \in 1..Len(list) : list'[i] = list[i]
    BY <1>1, <1>2
  <1>4. Listed' = Listed \cup {f}
    BY <1>3 DEF Listed
  <1>5. Coming' = Coming /\ f \in Coming
    BY <1>1, <1>4 DEF Coming
  <1>6. Brings(f)
    BY <1>1, <1>2, <1>5 DEF Brings
  <1>7. f \notin Members \ added
    BY <1>2, <1>5 DEF BalanceInv, Nowhere
  <1>8. ASSUME ComesOnce(blocked) PROVE ComesOnce(blocked)'
    <2>1. blocked = f => \A i \in 1..Len(list) : list[i] # blocked
      BY <1>1, <1>8 DEF ComesOnce, Listed
    <2>2. \A i, j \in 1..Len(list') : list'[i] = blocked /\ list'[j] = blocked => i = j
      BY <1>3, <1>8, <2>1 DEF ComesOnce
    <2>3. blocked \in calls' => blocked \notin Listed'
      BY <1>1, <1>4, <1>8 DEF ComesOnce
    <2> QED
      BY <2>2, <2>3 DEF ComesOnce
  <1> QED
    BY <1>1, <1>5, <1>6, <1>7, <1>8, BringsKeeps DEF blockVars, aggVars

(* add() counts in what was nowhere, and submits nothing yet. *)
LEMMA AddCountsKeeps ==
  ASSUME AggregateInv, IsFiniteSet(Members), NEW m \in Members, AddCounts(m)
  PROVE  AggregateInv'
  <1>1. /\ m \in Members \ added /\ added' = added \cup {m} /\ bal' = bal + 1
        /\ state' = [state EXCEPT ![agg] = "Running"]
        /\ UNCHANGED <<list, calls, gen, left, notifications, pc, task, seen, wle>>
        /\ UNCHANGED <<counted, told, blocker, before>>
    BY DEF AddCounts, queueVars, workerVars, blockVars
  <1>2. EngineParts /\ BalanceInv /\ BlawaitInv /\ agg \in Futures /\ agg # blocked
    BY Constants DEF AggregateInv
  <1>3. Coming' = Coming /\ Listed' = Listed
    BY <1>1, ComingSame
  <1>4. Brings(agg) /\ state'[agg] = "Running"
    BY <1>1, <1>2, <1>3 DEF EngineParts, EngineTypeOK, Brings, FutureState
  <1>5. EngineParts' /\ BlawaitInv'
    <2>1. ComesOnce(blocked) => ComesOnce(blocked)'
      BY <1>1, <1>3 DEF ComesOnce
    <2> QED
      BY <1>1, <1>2, <1>4, <2>1, BringsParts, BringsBlawait
  <1>6. BalanceInv'
    <2>1. /\ added \subseteq Members /\ counted \subseteq added
          /\ bal = Cardinality(added \ counted)
          /\ \A g \in Members \ added : Nowhere(g)
      BY <1>2 DEF BalanceInv
    <2>2. IsFiniteSet(added \ counted)
      BY <2>1, FS_Subset
    <2>3. added' \ counted' = (added \ counted) \cup {m} /\ m \notin added \ counted
      BY <1>1, <2>1
    <2>4. Cardinality(added' \ counted') = bal + 1
      BY <2>1, <2>2, <2>3, FS_AddElement
    <2>5. \A g \in Members \ added' : Nowhere(g)'
      BY <1>1, <1>4, <2>1, Constants, BringsNowhere
    <2> QED
      BY <1>1, <1>4, <2>1, <2>4, <2>5 DEF BalanceInv
  <1> QED
    BY <1>5, <1>6 DEF AggregateInv

(* A lambda counts its member out: the last one of those that were added   *)
(* marks the aggregate.                                                    *)
LEMMA CountsKeeps ==
  ASSUME AggregateInv, IsFiniteSet(Members), NEW w \in Workers, Counts(w)
  PROVE  AggregateInv'
  <1> DEFINE m == task[w]
  <1>1. /\ EngineParts /\ BalanceInv /\ BlawaitInv
        /\ agg \in Futures /\ agg # blocked /\ agg \notin Members
    BY Constants DEF AggregateInv
  <1>2. /\ m \in Members \ counted /\ counted' = counted \cup {m} /\ bal' = bal - 1
        /\ UNCHANGED <<list, gen, left, notifications, pc, task, seen, wle>>
        /\ UNCHANGED <<added, told, blocker, before>>
        /\ \/ /\ bal' = 0 /\ state' = [state EXCEPT ![agg] = "Completed"]
              /\ calls' = calls \cup {agg}
           \/ bal' # 0 /\ UNCHANGED <<state, calls>>
    BY DEF Counts, queueVars, workerVars, blockVars
  <1>3. /\ added \subseteq Members /\ counted \subseteq added
        /\ bal = Cardinality(added \ counted)
        /\ state[agg] \in {"Running", "Completed"} /\ (state[agg] = "Completed" => added = counted)
        /\ \A g \in Members \ added : Nowhere(g)
    BY <1>1 DEF BalanceInv
  <1>4. m \in added
    BY <1>2, <1>3 DEF Nowhere
  <1>5. Brings(agg) /\ Listed' = Listed
    <2>1. CASE calls' = calls \cup {agg}
      <3>1. Coming' = Coming \cup {agg} /\ Listed' = Listed
        BY <1>2, <2>1 DEF Coming, Listed
      <3> QED
        BY <1>1, <1>2, <3>1 DEF EngineParts, EngineTypeOK, Brings, FutureState
    <2>2. CASE UNCHANGED <<state, calls>>
      BY <1>1, <1>2, <2>2, ComingSame DEF EngineParts, EngineTypeOK, Brings
    <2> QED
      BY <1>2, <2>1, <2>2
  <1>6. EngineParts' /\ BlawaitInv'
    <2>1. ComesOnce(blocked) => ComesOnce(blocked)'
      BY <1>1, <1>2, <1>5 DEF ComesOnce
    <2> QED
      BY <1>1, <1>2, <1>5, <2>1, BringsParts, BringsBlawait
  <1>7. BalanceInv'
    <2>1. IsFiniteSet(added \ counted) /\ m \in added \ counted
      BY <1>2, <1>3, <1>4, FS_Subset
    <2>2. added' \ counted' = (added \ counted) \ {m}
      BY <1>2
    <2>3. Cardinality(added' \ counted') = bal' /\ IsFiniteSet(added' \ counted')
      BY <1>2, <1>3, <2>1, <2>2, FS_RemoveElement
    <2>4. bal' = 0 => added' \ counted' = {}
      BY <2>3, FS_EmptySet
    <2>5. counted' \subseteq added' /\ added' \subseteq Members
      BY <1>2, <1>3, <1>4
    <2>6. /\ state'[agg] \in {"Running", "Completed"}
          /\ state'[agg] = "Completed" => added' = counted'
      <3>1. CASE bal' = 0
        <4>1. state'[agg] = "Completed"
          BY <1>1, <1>2, <3>1 DEF EngineParts, EngineTypeOK
        <4> QED
          BY <2>4, <2>5, <3>1, <4>1
      <3>2. CASE bal' # 0
        BY <1>2, <1>3, <1>4, <3>2
      <3> QED
        BY <3>1, <3>2
    <2>7. \A g \in Members \ added' : Nowhere(g)'
      BY <1>1, <1>2, <1>3, <1>5, BringsNowhere
    <2> QED
      BY <2>3, <2>5, <2>6, <2>7 DEF BalanceInv
  <1> QED
    BY <1>6, <1>7 DEF AggregateInv

(* blawait() submits its generator, which was nowhere. *)
LEMMA BlawaitKeeps ==
  ASSUME AggregateInv, Blawait
  PROVE  AggregateInv'
  <1>1. /\ blocker = "before" /\ blocker' = "locks" /\ before' = added
        /\ calls' = calls \cup {blocked} /\ state' = [state EXCEPT ![blocked] = "Queued"]
        /\ UNCHANGED <<list, gen, left, notifications, pc, task, seen, wle>>
        /\ UNCHANGED <<bal, added, counted, told>>
    BY DEF Blawait, Execute, aggVars, queueVars, workerVars
  <1>2. EngineParts /\ BalanceInv /\ BlawaitInv /\ blocked \in Futures /\ agg # blocked
        /\ blocked \notin Members
    BY Constants DEF AggregateInv
  <1>3. Coming' = Coming \cup {blocked} /\ Listed' = Listed
    BY <1>1 DEF Coming, Listed
  <1>4. Brings(blocked) /\ state'[agg] = state[agg]
    BY <1>1, <1>2, <1>3 DEF EngineParts, EngineTypeOK, Brings, FutureState
  <1>5. EngineParts'
    BY <1>2, <1>4, BringsParts
  <1>6. BalanceInv'
    BY <1>1, <1>2, <1>4, BringsNowhere DEF BalanceInv
  <1>7. Nowhere(blocked) /\ gen[blocked] = "I" /\ ~told
        /\ \A f \in Futures : notifications[f] = blocked => f = agg
    BY <1>1, <1>2 DEF BlawaitInv
  <1>8. NotTold'
    <2>1. blocked \notin Listed /\ \A f \in Futures : notifications[f] # blocked
      BY <1>7 DEF Nowhere, Coming, Parked
    <2>2. ComesOnce(blocked)'
      BY <1>1, <1>3, <2>1 DEF ComesOnce, Listed
    <2>3. agg \in Futures
      BY Constants
    <2> QED
      BY <1>1, <1>7, <2>1, <2>2, <2>3 DEF NotTold, Nowhere, Parked
  <1>9. BlawaitInv'
    BY <1>1, <1>7, <1>8 DEF BlawaitInv
  <1> QED
    BY <1>5, <1>6, <1>9 DEF AggregateInv

(* The lambda of that generator is only called when all are counted. *)
LEMMA TellsKeeps ==
  ASSUME AggregateInv, NEW w \in Workers, Tells(w)
  PROVE  AggregateInv'
  <1>1. /\ pc[w] = "publish" /\ task[w] = blocked /\ ~told /\ told' = TRUE
        /\ blocker' = IF blocker = "sleeps" THEN "woken" ELSE blocker
        /\ UNCHANGED <<vars, aggVars, before>>
    BY DEF Tells
  <1>2. EngineParts /\ BalanceInv /\ BlawaitInv
    BY DEF AggregateInv
  <1>3. blocker # "before"
    BY <1>1, <1>2 DEF BlawaitInv, Nowhere
  <1>4. ~NotTold
    BY <1>1 DEF NotTold
  <1>5. Met
    BY <1>2, <1>3, <1>4 DEF BlawaitInv
  <1>6. UNCHANGED <<list, gen, left, notifications, pc, task, seen, wle, calls, state>>
        /\ UNCHANGED <<bal, added, counted>>
    BY <1>1 DEF vars, queueVars, futureVars, workerVars, aggVars
  <1>7. EngineParts'
    BY <1>2, <1>6 DEF EngineParts, EngineTypeOK, Place
  <1>8. UNCHANGED <<Coming, Listed>>
    BY <1>6, ComingSame
  <1>9. BalanceInv'
    BY <1>2, <1>6, <1>8 DEF BalanceInv, Nowhere, Parked
  <1>10. Met' /\ blocker' # "before" /\ (blocker' = "returned" => told')
    BY <1>1, <1>3, <1>5, <1>6 DEF Met
  <1>11. BlawaitInv'
    BY <1>1, <1>2, <1>6, <1>10 DEF BlawaitInv
  <1> QED
    BY <1>7, <1>9, <1>11 DEF AggregateInv

(* The thread in blawait() and a spurious wake-up bring nothing. *)
LEMMA OthersKeep ==
  ASSUME AggregateInv,
         \/ BlawaitTests \/ BlawaitSpurious \/ UNCHANGED aggregateVars
         \/ \E w \in Workers : WorkerSpurious(w) /\ UNCHANGED <<aggVars, blockVars>>
  PROVE  AggregateInv'
  <1>1. /\ UNCHANGED <<list, gen, left, notifications, pc, task, seen, wle, calls, state>>
        /\ UNCHANGED <<bal, added, counted, told, before>>
        /\ \/ blocker' = blocker
           \/ /\ blocker # "before" /\ blocker' # "before"
              /\ blocker' = "returned" => told
    <2>1. CASE BlawaitTests \/ BlawaitSpurious
      BY <2>1 DEF BlawaitTests, BlawaitSpurious, vars, queueVars, futureVars, workerVars, aggVars
    <2>2. CASE UNCHANGED aggregateVars
      BY <2>2 DEF aggregateVars, vars, queueVars, futureVars, workerVars, aggVars, blockVars
    <2>3. CASE \E w \in Workers : WorkerSpurious(w) /\ UNCHANGED <<aggVars, blockVars>>
      BY <2>3 DEF WorkerSpurious, work!SpuriousWakeup, futureVars, workerVars, aggVars, blockVars
    <2> QED
      BY <2>1, <2>2, <2>3
  <1>2. Coming' = Coming /\ Listed' = Listed /\ agg # blocked /\ agg \notin Members
    BY <1>1, ComingSame, Constants
  <1>3. Brings(agg)
    BY <1>1, <1>2 DEF AggregateInv, EngineParts, EngineTypeOK, Brings
  <1>4. ComesOnce(blocked) => ComesOnce(blocked)'
    BY <1>1, <1>2 DEF ComesOnce
  <1> QED
    BY <1>1, <1>2, <1>3, <1>4, BringsKeeps

------------------------------------------------------------------------------
(* The invariant holds at first ... *)
LEMMA InitAggregate == AggregateInit => AggregateInv
  <1> SUFFICES ASSUME AggregateInit PROVE AggregateInv
    OBVIOUS
  <1>1. /\ EngineInit /\ bal = 0 /\ added = {} /\ counted = {} /\ told = FALSE
        /\ blocker = "before" /\ before = {}
    BY DEF AggregateInit
  <1>2. EngineTypeOK
    BY EngineAssumption, Constants
    DEF AggregateInit, EngineInit, EngineTypeOK, FutureState, WorkerPC, Futures
  <1>3. /\ list = <<>> /\ Len(list) = 0 /\ calls = {}
        /\ pc = [w \in Workers |-> "pop"] /\ task = [w \in Workers |-> None]
        /\ notifications = [f \in Futures |-> None] /\ gen = [g \in Gens |-> "I"]
    BY <1>1 DEF EngineInit, work!QueueInit
  <1>4. Coming = {}
    BY <1>3 DEF Coming, Listed
  <1>5. EngineParts
    BY <1>2, <1>3 DEF EngineParts, Place, Stepping
  <1>6. \A g \in Gens : Nowhere(g)
    BY <1>3, <1>4, Constants DEF Nowhere, Parked
  <1>7. BalanceInv
    <2>1. added \ counted = {} /\ Cardinality({}) = 0
      BY <1>1, FS_EmptySet
    <2>2. state[agg] = "Completed"
      BY AggregateAssumption DEF AggregateInit, Futures
    <2> QED
      BY <1>1, <1>6, <2>1, <2>2, Constants DEF BalanceInv
  <1>8. BlawaitInv
    BY <1>1, <1>3, <1>6, Constants DEF BlawaitInv, Met
  <1> QED
    BY <1>5, <1>7, <1>8 DEF AggregateInv

(* ... and every step keeps it, when there is one worker. *)
LEMMA AggregateStep ==
  ASSUME AggregateInv, NEW w, Workers = {w}, [AggregateNext]_aggregateVars
  PROVE  AggregateInv'
  <1>1. IsFiniteSet(Members)
    BY AggregateAssumption
  <1>2. CASE \E m \in Members : AddCounts(m) \/ AddSubmits(m)
    BY <1>1, <1>2, AddCountsKeeps, AddSubmitsKeeps
  <1>3. CASE Blawait
    BY <1>3, BlawaitKeeps
  <1>4. CASE AggregateWork(w)
    <2>1. CASE Counts(w)
      BY <1>1, <2>1, CountsKeeps
    <2>2. CASE Tells(w)
      BY <2>2, TellsKeeps
    <2>3. CASE Work(w) /\ UNCHANGED <<aggVars, blockVars>>
      BY <2>3, WorkKeeps
    <2> QED
      BY <1>4, <2>1, <2>2, <2>3 DEF AggregateWork
  <1>5. CASE \E f \in Futures : AggregatePush(f)
    BY <1>5, PushKeeps
  <1>6. CASE \E o \in Outs : MemberSettles(o)
    BY <1>6, MemberSettlesKeeps
  <1>7. CASE \/ BlawaitTests \/ BlawaitSpurious \/ UNCHANGED aggregateVars
             \/ \E v \in Workers : WorkerSpurious(v) /\ UNCHANGED <<aggVars, blockVars>>
    BY <1>7, OthersKeep
  <1> QED
    BY <1>2, <1>3, <1>4, <1>5, <1>6, <1>7 DEF AggregateNext

(* impls.hpp:133 "Blocks current thread until completion of a future": on  *)
(* an engine with one worker the thread in blawait() returns after every   *)
(* member that was added before the call has been counted out, whatever is *)
(* added meanwhile, for all members and whatever their pipelines are.      *)
THEOREM BlawaitWaits == Cardinality(Workers) = 1 /\ AggregateSpec => []BlawaitWaitsForAll
  <1> SUFFICES ASSUME Cardinality(Workers) = 1 PROVE AggregateSpec => []BlawaitWaitsForAll
    OBVIOUS
  <1>1. PICK w : Workers = {w}
    BY EngineAssumption, FS_Singleton
  <1>2. AggregateInv /\ [AggregateNext]_aggregateVars => AggregateInv'
    BY <1>1, AggregateStep
  <1>3. AggregateInv => BlawaitWaitsForAll
    BY DEF AggregateInv, BlawaitInv, Met, BlawaitWaitsForAll
  <1> QED
    BY <1>2, <1>3, InitAggregate, PTL DEF AggregateSpec
==============================================================================
