------------------------- MODULE EngineStreamsProofs -------------------------
(***************************************************************************)
(* The engine implements Streams, for any number of workers and any        *)
(* pipelines in which no future has two awaiters.  IInv (YengineProofs)    *)
(* says who may touch a generator; StreamInv says in addition how its mark *)
(* and gen go together, and that the last value of an awaited generator is *)
(* on offer until its awaiter has taken it.                                *)
(***************************************************************************)
EXTENDS EngineStreams, YengineProofs

Active == {"Queued", "Running", "Awaiting"}

(* What awaits, or is about to, will take what it awaited. *)
AwaitingHasA ==
  /\ \A g \in Gens : state[g] = "Awaiting" => gen[g] = "A"
  /\ \A w \in Workers : pc[w] \in {"check", "await", "add"} => gen[task[w]] = "A"

(* A generator is marked Completed only when it is done. *)
MarksMatch ==
  \A g \in Gens : state[g] # "Cancelled" /\ (state[g] = "Completed" => gen[g] = "Fi")

(* A source is done with its last value. *)
SourcesLeft == \A g \in Gens : Awa[g] = None => (gen[g] = "Fi" <=> left[g] = 0)

OutMarks == \A o \in Outs : state[o] \in {"Running", "Completed", "Cancelled"}

(* The last value is taken, or on offer. *)
LastTaken ==
  \A a \in Gens : Awa[a] \in Gens /\ state[Awa[a]] = "Completed"
                    => gen[a] = "Fi" \/ Offered(Awa[a])

StreamInv == AwaitingHasA /\ MarksMatch /\ SourcesLeft /\ OutMarks /\ LastTaken

------------------------------------------------------------------------------
(* Worker w steps: the others keep their places and tasks, and only the    *)
(* generator that w resumes changes.                                       *)
StepOf(w) ==
  /\ \A v \in Workers : v # w => pc'[v] = pc[v] /\ task'[v] = task[v]
  /\ \A f \in Gens : gen'[f] = gen[f] \/ (f = task[w] /\ pc[w] = "resume")

(* What the others make and give is not touched by it. *)
LEMMA OthersStay ==
  ASSUME CoreInv, NEW w \in Workers, StepOf(w), NEW v \in Workers, v # w, NEW h \in Gens
  PROVE  (Makes(v, h)' <=> Makes(v, h)) /\ (Gives(v, h)' <=> Gives(v, h))
  <1>1. pc'[v] = pc[v] /\ task'[v] = task[v]
    BY DEF StepOf
  <1>2. ASSUME pc[v] \in {"run", "resume"}, task[v] \in Gens PROVE gen'[task[v]] = gen[task[v]]
    <2>1. Carries(v, task[v])
      BY <1>2 DEF Carries, Stepping
    <2>2. pc[w] = "resume" /\ task[w] = task[v] => Carries(w, task[v])
      BY DEF Carries, Stepping
    <2> QED BY <1>2, <2>1, <2>2 DEF CoreInv, Exclusive, StepOf
  <1> QED BY <1>1, <1>2 DEF Makes, Gives

(* A generator of which w makes and gives as much as before is where it    *)
(* was in its stream, if it is in progress or not as before.               *)
LEMMA PlaceKept ==
  ASSUME CoreInv, NEW w \in Workers, StepOf(w), NEW h \in Gens,
         Makes(w, h)' <=> Makes(w, h), h \notin Roots => (Gives(w, h)' <=> Gives(w, h))
  PROVE  (Made(h)' <=> Made(h)) /\ (Offered(h)' <=> Offered(h))
  BY OthersStay DEF Made, Offered

LEMMA StageKept ==
  ASSUME CoreInv, NEW w \in Workers, StepOf(w), NEW h \in Gens,
         Makes(w, h)' <=> Makes(w, h), h \notin Roots => (Gives(w, h)' <=> Gives(w, h)),
         (state[h] \in Active)' <=> state[h] \in Active
  PROVE  Stage(h)' = Stage(h) /\ (Offered(h)' <=> Offered(h))
  BY PlaceKept DEF Stage, Active

(* What a worker has in its resume loop is nowhere else in its stream.     *)
LEMMA CarriedStage ==
  ASSUME CoreInv, EngineTypeOK, SingleAwaiter, NEW w \in Workers, pc[w] \in Stepping
  PROVE  /\ task[w] \in Gens /\ ~Offered(task[w])
         /\ \A v \in Workers : v # w => ~Makes(v, task[w])
         /\ Made(task[w]) <=> pc[w] = "publish"
  <1> DEFINE g == task[w]
  <1>1. g \in Gens /\ Carries(w, g)
    BY DEF CoreInv, WorkerMarks, WorkerMark, Carries
  <1>2. ASSUME NEW v \in Workers, v # w PROVE ~Makes(v, g)
    BY <1>1, <1>2 DEF CoreInv, Exclusive, Carries, Makes, Stepping
  <1>3. ASSUME NEW v \in Workers, g \notin Roots, Gives(v, g) PROVE FALSE
    <2>1. CASE pc[v] = "drop" /\ task[v] = g
      <3>1. Carries(v, g)
        BY <1>3, <2>1 DEF Carries
      <3> QED BY <3>1, <1>1, <2>1 DEF CoreInv, Exclusive, Stepping
    <2>2. CASE pc[v] \in {"run", "resume"} /\ task[v] \in Gens /\ Awa[task[v]] = g
      <3>1. Carries(v, task[v])
        BY <2>2 DEF Carries, Stepping
      <3> QED BY <3>1, <2>2, <1>1, AwaitedAtRest
    <2> QED BY <1>3, <2>1, <2>2 DEF Gives
  <1> QED BY <1>1, <1>2, <1>3 DEF Offered, Made, Makes

------------------------------------------------------------------------------
(* Steps that the streams do not see. *)
LEMMA StutterStep ==
  ASSUME \A g \in Gens : Stage(g)' = Stage(g),
         \A g \in Gens : (gen[g] = "Fi")' <=> gen[g] = "Fi",
         \A g \in Gens : Awa[g] = None => left'[g] = left[g],
         \A o \in Outs : state'[o] = state[o]
  PROVE  UNCHANGED streams!vars
  BY DEF streams!vars

(* Steps that change no future and where w does not begin to await.        *)
LEMMA QuietStep ==
  ASSUME CoreInv, StreamInv, UNCHANGED futureVars, NEW w \in Workers, StepOf(w),
         pc'[w] \in {"check", "await", "add"} =>
           pc[w] \in {"check", "await", "add"} /\ task'[w] = task[w],
         \A h \in Gens : /\ Makes(w, h)' <=> Makes(w, h)
                         /\ h \notin Roots => (Gives(w, h)' <=> Gives(w, h))
  PROVE  UNCHANGED streams!vars /\ StreamInv'
  <1>1. ASSUME NEW h \in Gens PROVE Stage(h)' = Stage(h) /\ (Offered(h)' <=> Offered(h))
    BY <1>1, StageKept DEF futureVars
  <1>2. UNCHANGED streams!vars
    BY <1>1, StutterStep DEF futureVars
  <1>3. AwaitingHasA'
    BY DEF StreamInv, AwaitingHasA, futureVars, StepOf
  <1>4. MarksMatch' /\ SourcesLeft' /\ OutMarks'
    BY DEF StreamInv, MarksMatch, SourcesLeft, OutMarks, futureVars
  <1>5. LastTaken'
    BY <1>1 DEF StreamInv, LastTaken, futureVars
  <1> QED BY <1>2, <1>3, <1>4, <1>5 DEF StreamInv

LEMMA StillStep ==
  ASSUME CoreInv, StreamInv, UNCHANGED <<futureVars, pc, task>>
  PROVE  UNCHANGED streams!vars /\ StreamInv'
  <1>1. ASSUME NEW h \in Gens PROVE Stage(h)' = Stage(h) /\ (Offered(h)' <=> Offered(h))
    BY <1>1 DEF Stage, Made, Offered, Makes, Gives, futureVars
  <1>2. UNCHANGED streams!vars
    BY <1>1, StutterStep DEF futureVars
  <1>3. AwaitingHasA' /\ MarksMatch' /\ SourcesLeft' /\ OutMarks'
    BY DEF StreamInv, AwaitingHasA, MarksMatch, SourcesLeft, OutMarks, futureVars
  <1>4. LastTaken'
    BY <1>1 DEF StreamInv, LastTaken, futureVars
  <1> QED BY <1>2, <1>3, <1>4 DEF StreamInv

(* What a worker does with a future that it pops.                          *)
LEMMA PopStep ==
  ASSUME CoreInv, EngineTypeOK, StreamInv, NEW w \in Workers,
         WorkerTakes(w) \/ IsCancelled(w) \/ IsCompleted(w) \/ IsResumeable(w)
  PROVE  UNCHANGED streams!vars /\ StreamInv'
  <1> USE DEF WorkerTakes, IsCancelled, IsCompleted, IsResumeable, Goto, Return
  <1>1. StepOf(w) /\ UNCHANGED futureVars
    BY DEF EngineTypeOK, StepOf, futureVars
  <1>2. /\ pc[w] \in {"pop"} \cup Fresh
        /\ pc'[w] \in Fresh \cup {"nuke", "chain", "run", "pop"}
        /\ pc'[w] = "run" => task'[w] = task[w] /\ task[w] \in Gens /\ pc[w] = "isResumeable"
    BY DEF EngineTypeOK, Fresh
  <1>3. pc'[w] = "run" => gen[task[w]] # "A"
    BY <1>2 DEF CoreInv, WorkerMarks, WorkerMark, AwaitingMarked, Fresh
  <1>4. \A h \in Gens : ~Makes(w, h) /\ ~Gives(w, h)
    BY <1>2 DEF Makes, Gives, Fresh
  <1>5. \A h \in Gens : ~Makes(w, h)' /\ ~Gives(w, h)'
    BY <1>1, <1>2, <1>3 DEF Makes, Gives, Fresh, futureVars
  <1> QED BY <1>1, <1>2, <1>4, <1>5, QuietStep DEF Fresh

(* An await chain that is dropped, or climbed from an outside future.      *)
LEMMA ChainStep ==
  ASSUME CoreInv, EngineTypeOK, StreamInv, NEW w \in Workers, Nuke(w) \/ Chain(w)
  PROVE  UNCHANGED streams!vars /\ StreamInv'
  <1> USE DEF Nuke, Chain, FollowAwaiter, Goto, Return
  <1> DEFINE a == notifications[task[w]]
  <1>1. StepOf(w) /\ UNCHANGED futureVars
    BY DEF EngineTypeOK, StepOf, futureVars
  <1>2. /\ pc[w] \in {"nuke", "chain"} /\ pc'[w] \in {"nuke", "run", "pop"}
        /\ pc'[w] = "run" => pc[w] = "chain" /\ a # None /\ task'[w] = a
    BY DEF EngineTypeOK
  <1>3. pc'[w] = "run" => Awa[a] \in Outs
    BY <1>2 DEF CoreInv, WorkerMarks, WorkerMark, ParkedAwaits, Futures
  <1>4. \A h \in Gens : ~Makes(w, h) /\ ~Gives(w, h)
    BY <1>2 DEF Makes, Gives
  <1>5. \A h \in Gens : ~Makes(w, h)' /\ ~Gives(w, h)'
    BY <1>2, <1>3, EngineAssumption DEF Makes, Gives
  <1> QED BY <1>1, <1>2, <1>4, <1>5, QuietStep

(* A worker turns from what has yielded to what awaits it.                 *)
LEMMA DropStep ==
  ASSUME CoreInv, EngineTypeOK, StreamInv, NEW w \in Workers, Drop(w)
  PROVE  UNCHANGED streams!vars /\ StreamInv'
  <1> USE DEF Drop, FollowAwaiter, Goto, Return
  <1> DEFINE g == task[w]
             a == notifications[g]
  <1>1. StepOf(w) /\ UNCHANGED futureVars
    BY DEF EngineTypeOK, StepOf, futureVars
  <1>2. pc[w] = "drop" /\ g \in Gens /\ g \in Futures
    BY DEF CoreInv, WorkerMarks, WorkerMark, Futures
  <1>3. pc'[w] \in {"run", "pop"} /\ (pc'[w] = "run" => a # None /\ task'[w] = a)
    BY DEF EngineTypeOK
  <1>4. a # None => a \in Gens /\ Awa[a] = g /\ gen[a] = "A"
    BY <1>2 DEF CoreInv, ParkedAwaits, EngineTypeOK, StreamInv, AwaitingHasA
  <1>5. g \notin Roots => a # None /\ pc'[w] = "run"
    <2>1. g \notin Roots => Carries(w, g)
      BY <1>2 DEF Carries
    <2> QED BY <2>1, <1>2 DEF CoreInv, ChainHeld, EngineTypeOK
  <1>6. g \in Roots => pc'[w] = "pop"
    BY <1>2, <1>3, <1>4 DEF Roots
  <1>7. \A h \in Gens : ~Makes(w, h) /\ ~Makes(w, h)'
    BY <1>2, <1>3 DEF Makes
  <1>8. ASSUME NEW h \in Gens, h \notin Roots PROVE Gives(w, h)' <=> Gives(w, h)
    <2>1. Gives(w, h) <=> h = g
      BY <1>2 DEF Gives
    <2>2. CASE g \notin Roots
      BY <2>1, <2>2, <1>1, <1>3, <1>4, <1>5 DEF Gives, futureVars
    <2>3. CASE g \in Roots
      BY <2>1, <2>3, <1>6, <1>8 DEF Gives
    <2> QED BY <2>2, <2>3
  <1> QED BY <1>1, <1>3, <1>7, <1>8, QuietStep

------------------------------------------------------------------------------
(* What is parked is asked for a value.                                    *)
LEMMA ParkedAsked ==
  ASSUME CoreInv, EngineTypeOK, SingleAwaiter, NEW f \in Futures, notifications[f] # None
  PROVE  Stage(notifications[f]) = "asked"
  <1> DEFINE a == notifications[f]
  <1>1. a \in Gens /\ state[a] = "Awaiting" /\ Parked(a)
    BY DEF CoreInv, ParkedAwaits, EngineTypeOK, Parked
  <1>2. \A v \in Workers : ~Carries(v, a)
    BY <1>1 DEF CoreInv, Exclusive
  <1>3. ~Made(a)
    BY <1>2 DEF Made, Makes, Carries, Stepping
  <1>4. ASSUME NEW v \in Workers, a \notin Roots, Gives(v, a) PROVE FALSE
    <2>1. ~(pc[v] = "drop" /\ task[v] = a)
      BY <1>2, <1>4 DEF Carries
    <2>2. pc[v] \in {"run", "resume"} /\ task[v] \in Gens /\ Awa[task[v]] = a
      BY <1>4, <2>1 DEF Gives
    <2>3. Carries(v, task[v])
      BY <2>2 DEF Carries, Stepping
    <2> QED BY <2>2, <2>3, <1>1, AwaitedAtRest
  <1> QED BY <1>1, <1>3, <1>4 DEF Stage, Offered

(* A generator is run: it was asked for a value already, or is now, by the *)
(* one that is parked under it.                                            *)
LEMMA RunStep ==
  ASSUME CoreInv, EngineTypeOK, SingleAwaiter, StreamInv, NEW w \in Workers, Run(w)
  PROVE  [streams!Next]_(streams!vars) /\ StreamInv'
  <1> DEFINE g == task[w]
  <1> USE DEF Run, Goto
  <1>1. /\ g \in Gens /\ g \in Futures /\ gen[g] # "Fi" /\ pc[w] = "run" /\ pc[w] \in Stepping
        /\ Carries(w, g)
    BY SteppingNotDone DEF Stepping, Carries
  <1>2. /\ StepOf(w) /\ UNCHANGED <<gen, left, task>> /\ pc'[w] = "resume"
        /\ state'[g] = "Running" /\ \A f \in Futures : f # g => state'[f] = state[f]
    BY <1>1 DEF EngineTypeOK, StepOf
  <1>3. \A h \in Gens : ~Makes(w, h) /\ ~Makes(w, h)' /\ (Gives(w, h)' <=> Gives(w, h))
    BY <1>1, <1>2 DEF Makes, Gives
  <1>4. ASSUME NEW h \in Gens PROVE (Made(h)' <=> Made(h)) /\ (Offered(h)' <=> Offered(h))
    BY <1>2, <1>3, <1>4, PlaceKept
  <1>5. ~Made(g) /\ ~Offered(g)
    BY <1>1, CarriedStage
  <1>6. Stage(g)' = "asked" /\ \A h \in Gens : h # g => Stage(h)' = Stage(h)
    BY <1>1, <1>2, <1>4, <1>5 DEF Stage, Futures
  <1>7. ASSUME state[g] \in Active PROVE UNCHANGED streams!vars
    <2>1. Stage(g) = "asked"
      BY <1>5, <1>7 DEF Stage, Active
    <2> QED BY <2>1, <1>1, <1>2, <1>6, StutterStep, EngineAssumption DEF Futures
  <1>8. ASSUME state[g] \notin Active PROVE streams!Next
    <2>1. state[g] = "Suspended" /\ g \notin Roots
      BY <1>1, <1>8 DEF CoreInv, WorkerMarks, WorkerMark, Active
    <2>2. Stage(g) = "idle"
      BY <1>5, <2>1 DEF Stage
    <2>3. notifications[g] # None
      BY <1>1, <2>1 DEF CoreInv, ChainHeld
    <2>4. /\ notifications[g] \in Gens /\ Awa[notifications[g]] = g
          /\ Stage(notifications[g]) = "asked"
      BY <1>1, <2>3, ParkedAsked DEF CoreInv, ParkedAwaits, EngineTypeOK
    <2>5. streams!Ask(g)
      BY <1>1, <1>2, <1>6, <2>2, <2>4, EngineAssumption DEF streams!Ask, Futures
    <2> QED BY <2>5, <1>1 DEF streams!Next
  <1>9. StreamInv'
    <2>1. AwaitingHasA'
      BY <1>1, <1>2 DEF StreamInv, AwaitingHasA, StepOf, Futures
    <2>2. MarksMatch' /\ SourcesLeft' /\ OutMarks'
      BY <1>1, <1>2, EngineAssumption DEF StreamInv, MarksMatch, SourcesLeft, OutMarks, Futures
    <2>3. LastTaken'
      BY <1>2, <1>4 DEF StreamInv, LastTaken, Futures
    <2> QED BY <2>1, <2>2, <2>3 DEF StreamInv
  <1> QED BY <1>7, <1>8, <1>9

(* A source computes its next value.                                       *)
LEMMA ResumeSourceStep ==
  ASSUME CoreInv, EngineTypeOK, SingleAwaiter, StreamInv, NEW w \in Workers, ResumeSource(w),
         NEW g \in Gens, g = task[w]
  PROVE  streams!Next /\ StreamInv'
  <1> USE DEF ResumeSource, Goto
  <1>1. /\ g \in Gens /\ g \in Futures /\ gen[g] # "Fi" /\ pc[w] = "resume" /\ pc[w] \in Stepping
        /\ Carries(w, g) /\ Awa[g] = None /\ gen[g] # "A" /\ state[g] = "Running"
    BY SteppingNotDone DEF Stepping, Carries, CoreInv, AwaitingMarked, WorkerMarks, WorkerMark
  <1>2. left[g] \in Nat /\ left[g] > 0
    BY <1>1 DEF StreamInv, SourcesLeft, EngineTypeOK
  <1>3. /\ StepOf(w) /\ UNCHANGED <<state, task>> /\ pc'[w] = "publish"
        /\ left' = [left EXCEPT ![g] = left[g] - 1]
        /\ gen'[g] = (IF left[g] - 1 = 0 THEN "Fi" ELSE gen[g])
        /\ \A f \in Gens : f # g => gen'[f] = gen[f]
    <2>0. left[g] # 0 /\ g \in DOMAIN left
      BY <1>1, <1>2 DEF EngineTypeOK
    <2>1. left' = [left EXCEPT ![g] = left[g] - 1] /\ left'[g] = left[g] - 1
      BY <2>0
    <2>2. /\ gen'[g] = (IF left[g] - 1 = 0 THEN "Fi" ELSE gen[g])
          /\ \A f \in Gens : f # g => gen'[f] = gen[f]
      BY <1>1, <2>1 DEF EngineTypeOK
    <2>3. UNCHANGED <<state, task>> /\ pc'[w] = "publish"
      BY <1>1 DEF EngineTypeOK
    <2>4. StepOf(w)
      BY <1>1, <2>2, <2>3 DEF EngineTypeOK, StepOf
    <2> QED BY <2>1, <2>2, <2>3, <2>4
  <1>4. \A h \in Gens : ~Gives(w, h) /\ ~Gives(w, h)' /\ ~Makes(w, h) /\ (Makes(w, h)' <=> h = g)
    BY <1>1, <1>3 DEF Makes, Gives
  <1>5. ASSUME NEW h \in Gens, h # g PROVE Stage(h)' = Stage(h)
    BY <1>3, <1>4, <1>5, StageKept
  <1>6. ~Made(g) /\ ~Offered(g)
    BY <1>1, CarriedStage
  <1>7. Stage(g) = "asked" /\ Stage(g)' = "made"
    BY <1>1, <1>4, <1>6 DEF Stage, Made
  <1>8. \A h \in Gens : (gen[h] = "Fi")' <=> gen[h] = "Fi" \/ (h = g /\ left[g] - 1 = 0)
    BY <1>1, <1>3
  <1>9. streams!Produce(g)
    <2> DEFINE stages == [h \in Gens |-> Stage(h)]
               rests == [h \in {k \in Gens : Awa[k] = None} |-> left[h]]
               overs == {h \in Gens : gen[h] = "Fi"}
    <2>1. g \in streams!Sources /\ stages[g] = "asked" /\ rests[g] > 0
      BY <1>1, <1>2, <1>7 DEF streams!Sources
    <2>2. stages' = [stages EXCEPT ![g] = "made"]
      BY <1>1, <1>5, <1>7
    <2>3. rests' = [rests EXCEPT ![g] = rests[g] - 1] /\ rests[g] = left[g]
      BY <1>1, <1>2, <1>3 DEF EngineTypeOK
    <2>4. overs' = IF rests[g] = 1 THEN overs \cup {g} ELSE overs
      BY <1>1, <1>2, <1>8, <2>3
    <2>5. [o \in Outs |-> state[o]]' = [o \in Outs |-> state[o]]
      BY <1>3
    <2> QED BY <2>1, <2>2, <2>3, <2>4, <2>5 DEF streams!Produce
  <1>10. AwaitingHasA'
    <2>1. ASSUME NEW v \in Workers, pc'[v] \in {"check", "await", "add"} PROVE gen'[task'[v]] = "A"
      <3>1. v # w /\ pc[v] = pc'[v] /\ task'[v] = task[v]
        BY <2>1, <1>3 DEF StepOf
      <3>2. Carries(v, task[v]) /\ task[v] \in Gens
        BY <2>1, <3>1 DEF Carries, Stepping, CoreInv, WorkerMarks, WorkerMark
      <3>3. task[v] # g
        BY <3>1, <3>2, <1>1 DEF CoreInv, Exclusive
      <3> QED BY <2>1, <3>1, <3>2, <3>3, <1>3 DEF StreamInv, AwaitingHasA
    <2> QED BY <2>1, <1>1, <1>3 DEF StreamInv, AwaitingHasA
  <1>11. MarksMatch' /\ SourcesLeft' /\ OutMarks'
    BY <1>1, <1>2, <1>3 DEF StreamInv, MarksMatch, SourcesLeft, OutMarks, EngineTypeOK
  <1>12. LastTaken'
    <2>1. \A h \in Gens : Offered(h)' <=> Offered(h)
      BY <1>3, <1>4, OthersStay DEF Offered
    <2> QED BY <2>1, <1>1, <1>3, <1>8 DEF StreamInv, LastTaken
  <1>13. streams!Next
    BY <1>1, <1>9 DEF streams!Next
  <1> QED BY <1>10, <1>11, <1>12, <1>13 DEF StreamInv

(* What the others are about to await is not what w resumes.               *)
LEMMA OthersAwait ==
  ASSUME CoreInv, StreamInv, NEW w \in Workers, pc[w] \in Stepping, StepOf(w),
         NEW v \in Workers, v # w, pc'[v] \in {"check", "await", "add"}
  PROVE  gen'[task'[v]] = "A"
  <1>1. pc[v] = pc'[v] /\ task'[v] = task[v]
    BY DEF StepOf
  <1>2. Carries(v, task[v]) /\ task[v] \in Gens /\ Carries(w, task[w])
    BY <1>1 DEF Carries, Stepping, CoreInv, WorkerMarks, WorkerMark
  <1>3. task[v] # task[w]
    BY <1>2 DEF CoreInv, Exclusive
  <1> QED BY <1>1, <1>2, <1>3 DEF StepOf, StreamInv, AwaitingHasA

(* A `>>` generator starts to await.                                       *)
LEMMA StartStep ==
  ASSUME CoreInv, EngineTypeOK, SingleAwaiter, StreamInv, NEW w \in Workers, ResumeOp(w),
         gen[task[w]] # "A"
  PROVE  UNCHANGED streams!vars /\ StreamInv'
  <1> DEFINE g == task[w]
  <1> USE DEF ResumeOp, Goto
  <1>1. /\ g \in Gens /\ gen[g] # "Fi" /\ pc[w] = "resume" /\ pc[w] \in Stepping
        /\ state[g] = "Running"
    BY SteppingNotDone DEF Stepping, CoreInv, WorkerMarks, WorkerMark
  <1>2. /\ UNCHANGED <<state, left, task>> /\ pc'[w] = "check" /\ gen'[g] = "A"
        /\ \A h \in Gens : h # g => gen'[h] = gen[h]
    BY <1>1 DEF EngineTypeOK
  <1>3. StepOf(w)
    BY <1>1, <1>2 DEF EngineTypeOK, StepOf
  <1>4. \A h \in Gens : ~Gives(w, h) /\ ~Gives(w, h)' /\ ~Makes(w, h) /\ ~Makes(w, h)'
    BY <1>1, <1>2 DEF Makes, Gives
  <1>5. ASSUME NEW h \in Gens PROVE Stage(h)' = Stage(h) /\ (Offered(h)' <=> Offered(h))
    BY <1>2, <1>3, <1>4, <1>5, StageKept
  <1>6. \A h \in Gens : (gen[h] = "Fi")' <=> gen[h] = "Fi"
    BY <1>1, <1>2
  <1>7. UNCHANGED streams!vars
    BY <1>2, <1>5, <1>6, StutterStep
  <1>8. AwaitingHasA'
    <2>1. \A v \in Workers : pc'[v] \in {"check", "await", "add"} => gen'[task'[v]] = "A"
      BY <1>1, <1>2, <1>3, OthersAwait
    <2> QED BY <2>1, <1>1, <1>2 DEF StreamInv, AwaitingHasA
  <1>9. MarksMatch' /\ SourcesLeft' /\ OutMarks'
    BY <1>1, <1>2, <1>6 DEF StreamInv, MarksMatch, SourcesLeft, OutMarks
  <1>10. LastTaken'
    BY <1>2, <1>5, <1>6 DEF StreamInv, LastTaken
  <1> QED BY <1>7, <1>8, <1>9, <1>10 DEF StreamInv

(* It takes the value that it awaited: the value of a generator, which is  *)
(* not on offer any more ...                                               *)
LEMMA TakeStep ==
  ASSUME CoreInv, EngineTypeOK, SingleAwaiter, StreamInv, NEW w \in Workers, ResumeOp(w),
         NEW g \in Gens, g = task[w], gen[g] = "A", Awa[g] \in Gens
  PROVE  streams!Next /\ StreamInv'
  <1> DEFINE f == Awa[g]
  <1> USE DEF ResumeOp, Goto
  <1>1. /\ gen[g] # "Fi" /\ pc[w] = "resume" /\ pc[w] \in Stepping
        /\ state[g] = "Running" /\ Carries(w, g) /\ state[f] \in Settled /\ g \in Futures
    BY SteppingNotDone DEF Stepping, Carries, CoreInv, WorkerMarks, WorkerMark, AwaitingMarked
  <1>2. /\ UNCHANGED <<state, left, task>> /\ pc'[w] = "publish"
        /\ gen'[g] = (IF state[f] = "Completed" THEN "Fi" ELSE "I")
        /\ \A h \in Gens : h # g => gen'[h] = gen[h]
    BY <1>1 DEF EngineTypeOK
  <1>3. StepOf(w)
    BY <1>1, <1>2 DEF EngineTypeOK, StepOf
  <1>4. /\ f \notin Roots /\ f # g /\ \A v \in Workers : ~Carries(v, f)
    BY <1>1, AwaitedAtRest
  <1>5. \A h \in Gens : /\ Gives(w, h) <=> h = f
                        /\ ~Gives(w, h)' /\ ~Makes(w, h) /\ (Makes(w, h)' <=> h = g)
    BY <1>1, <1>2 DEF Makes, Gives
  <1>6. ASSUME NEW v \in Workers, v # w PROVE ~Makes(v, f) /\ ~Gives(v, f)
    <2>1. ~Makes(v, f) /\ ~(pc[v] = "drop" /\ task[v] = f)
      BY <1>4 DEF Makes, Carries, Stepping
    <2>2. ASSUME pc[v] \in {"run", "resume"}, task[v] \in Gens, Awa[task[v]] = f PROVE FALSE
      <3>1. Carries(v, task[v]) /\ task[v] = g
        BY <2>2, EngineAssumption DEF Carries, Stepping, SingleAwaiter, Futures
      <3> QED BY <3>1, <1>1, <1>6 DEF CoreInv, Exclusive
    <2> QED BY <2>1, <2>2 DEF Gives
  <1>7. ASSUME NEW h \in Gens, h # g, h # f
        PROVE  Stage(h)' = Stage(h) /\ (Offered(h)' <=> Offered(h))
    BY <1>2, <1>3, <1>5, <1>7, StageKept
  <1>8. Stage(f) = "full"
    BY <1>4, <1>5, <1>6 DEF Stage, Made, Offered
  <1>9. ~Made(f)' /\ ~Offered(f)'
    <2>1. \A v \in Workers : ~Makes(v, f)' /\ ~Gives(v, f)'
      BY <1>3, <1>4, <1>5, <1>6, OthersStay
    <2> QED BY <2>1 DEF Made, Offered
  <1>10. Stage(f)' = "idle"
    BY <1>1, <1>2, <1>9 DEF Stage, Settled
  <1>11. Stage(g) = "asked" /\ Stage(g)' = "made"
    <2>1. ~Made(g) /\ ~Offered(g)
      BY <1>1, CarriedStage
    <2> QED BY <2>1, <1>1, <1>5 DEF Stage, Made
  <1>12. state[f] = "Completed" <=> gen[f] = "Fi"
    <2>1. \A v \in Workers : ~(pc[v] = "publish" /\ task[v] = f)
      BY <1>4 DEF Carries, Stepping
    <2> QED BY <2>1 DEF StreamInv, MarksMatch, CoreInv, DoneMarked
  <1>13. \A h \in Gens : (gen[h] = "Fi")' <=> gen[h] = "Fi" \/ (h = g /\ gen[f] = "Fi")
    BY <1>1, <1>2, <1>12
  <1>14. streams!Take(g)
    <2> DEFINE stages == [h \in Gens |-> Stage(h)]
               overs == {h \in Gens : gen[h] = "Fi"}
    <2>1. stages[g] = "asked" /\ stages[f] = "full"
      BY <1>8, <1>11
    <2>2. stages' = [stages EXCEPT ![g] = "made", ![f] = "idle"]
      BY <1>4, <1>7, <1>10, <1>11
    <2>3. overs' = IF f \in overs THEN overs \cup {g} ELSE overs
      BY <1>13
    <2>4. /\ [o \in Outs |-> state[o]]' = [o \in Outs |-> state[o]]
          /\ [h \in {k \in Gens : Awa[k] = None} |-> left[h]]'
               = [h \in {k \in Gens : Awa[k] = None} |-> left[h]]
      BY <1>2
    <2> QED BY <2>1, <2>2, <2>3, <2>4 DEF streams!Take
  <1>15. AwaitingHasA'
    <2>1. \A v \in Workers : pc'[v] \in {"check", "await", "add"} => gen'[task'[v]] = "A"
      BY <1>1, <1>2, <1>3, OthersAwait
    <2> QED BY <2>1, <1>1, <1>2 DEF StreamInv, AwaitingHasA
  <1>16. MarksMatch' /\ SourcesLeft' /\ OutMarks'
    <2>1. Awa[g] # None
      BY EngineAssumption DEF Futures
    <2> QED BY <2>1, <1>1, <1>2, <1>13 DEF StreamInv, MarksMatch, SourcesLeft, OutMarks
  <1>17. LastTaken'
    <2> SUFFICES ASSUME NEW a \in Gens, Awa[a] \in Gens, state[Awa[a]] = "Completed"
                 PROVE  gen'[a] = "Fi" \/ Offered(Awa[a])'
      BY <1>2 DEF LastTaken
    <2>1. CASE a = g
      BY <2>1, <1>2
    <2>2. CASE a # g
      <3>1. Awa[a] # f
        BY <2>2, EngineAssumption DEF SingleAwaiter, Futures
      <3>2. Awa[a] = g => state[g] = "Completed"
        OBVIOUS
      <3> QED BY <2>2, <3>1, <3>2, <1>1, <1>2, <1>7 DEF StreamInv, LastTaken
    <2> QED BY <2>1, <2>2
  <1>18. streams!Next
    BY <1>14 DEF streams!Next
  <1> QED BY <1>15, <1>16, <1>17, <1>18 DEF StreamInv

(* ... or that of an outside future.                                       *)
LEMMA ReceiveStep ==
  ASSUME CoreInv, EngineTypeOK, SingleAwaiter, StreamInv, NEW w \in Workers, ResumeOp(w),
         NEW g \in Gens, g = task[w], gen[g] = "A", Awa[g] \in Outs
  PROVE  streams!Next /\ StreamInv'
  <1> DEFINE o == Awa[g]
  <1> USE DEF ResumeOp, Goto
  <1>1. /\ gen[g] # "Fi" /\ pc[w] = "resume" /\ pc[w] \in Stepping
        /\ state[g] = "Running" /\ state[o] \in {"Completed", "Cancelled"}
    BY SteppingNotDone
    DEF Stepping, CoreInv, WorkerMarks, WorkerMark, AwaitingMarked, Settled, StreamInv, OutMarks
  <1>2. /\ UNCHANGED <<state, left, task>> /\ pc'[w] = "publish"
        /\ gen'[g] = (IF state[o] = "Completed" THEN "Fi" ELSE "I")
        /\ \A h \in Gens : h # g => gen'[h] = gen[h]
    BY <1>1 DEF EngineTypeOK
  <1>3. StepOf(w)
    BY <1>1, <1>2 DEF EngineTypeOK, StepOf
  <1>4. \A h \in Gens : /\ ~Gives(w, h) /\ ~Gives(w, h)'
                        /\ ~Makes(w, h) /\ (Makes(w, h)' <=> h = g)
    BY <1>1, <1>2, EngineAssumption DEF Makes, Gives
  <1>5. ASSUME NEW h \in Gens PROVE Offered(h)' <=> Offered(h)
    BY <1>3, <1>4, OthersStay DEF Offered
  <1>6. ASSUME NEW h \in Gens, h # g PROVE Stage(h)' = Stage(h)
    BY <1>2, <1>3, <1>4, <1>6, StageKept
  <1>7. Stage(g) = "asked" /\ Stage(g)' = "made"
    <2>1. ~Made(g) /\ ~Offered(g)
      BY <1>1, CarriedStage
    <2> QED BY <2>1, <1>1, <1>4 DEF Stage, Made
  <1>8. \A h \in Gens : (gen[h] = "Fi")' <=> gen[h] = "Fi" \/ (h = g /\ state[o] = "Completed")
    BY <1>1, <1>2
  <1>9. streams!Receive(g)
    <2> DEFINE stages == [h \in Gens |-> Stage(h)]
               overs == {h \in Gens : gen[h] = "Fi"}
               settled == [k \in Outs |-> state[k]]
    <2>1. stages[g] = "asked" /\ settled[o] # "Running"
      BY <1>1, <1>7
    <2>2. stages' = [stages EXCEPT ![g] = "made"]
      BY <1>6, <1>7
    <2>3. overs' = IF settled[o] = "Completed" THEN overs \cup {g} ELSE overs
      BY <1>8
    <2>4. /\ settled' = settled
          /\ [h \in {k \in Gens : Awa[k] = None} |-> left[h]]'
               = [h \in {k \in Gens : Awa[k] = None} |-> left[h]]
      BY <1>2
    <2> QED BY <2>1, <2>2, <2>3, <2>4 DEF streams!Receive
  <1>10. AwaitingHasA'
    <2>1. \A v \in Workers : pc'[v] \in {"check", "await", "add"} => gen'[task'[v]] = "A"
      BY <1>1, <1>2, <1>3, OthersAwait
    <2> QED BY <2>1, <1>1, <1>2 DEF StreamInv, AwaitingHasA
  <1>11. MarksMatch' /\ SourcesLeft' /\ OutMarks'
    <2>1. Awa[g] # None
      BY EngineAssumption DEF Futures
    <2> QED BY <2>1, <1>1, <1>2, <1>8 DEF StreamInv, MarksMatch, SourcesLeft, OutMarks
  <1>12. LastTaken'
    BY <1>2, <1>5, <1>8 DEF StreamInv, LastTaken
  <1>13. streams!Next
    BY <1>9 DEF streams!Next
  <1> QED BY <1>10, <1>11, <1>12, <1>13 DEF StreamInv

------------------------------------------------------------------------------
(* What it starts to await is not completed, unless it is an outside       *)
(* future: it has not taken the last value yet, and nobody else could.     *)
LEMMA CheckStep ==
  ASSUME CoreInv, EngineTypeOK, SingleAwaiter, StreamInv, NEW w \in Workers, Check(w)
  PROVE  UNCHANGED streams!vars /\ StreamInv'
  <1> DEFINE g == task[w]
  <1> USE DEF Check, Goto
  <1>1. /\ g \in Gens /\ gen[g] # "Fi" /\ pc[w] = "check" /\ pc[w] \in Stepping /\ Carries(w, g)
    BY SteppingNotDone DEF Stepping, Carries
  <1>2. /\ UNCHANGED <<state, gen, left, task>> /\ pc'[w] \in {"run", "await"}
        /\ pc'[w] = "run" => state[Awa[g]] \in {"Completed", "Cancelled"}
    BY DEF EngineTypeOK, futureVars
  <1>3. StepOf(w) /\ UNCHANGED futureVars
    BY <1>1, <1>2 DEF EngineTypeOK, StepOf, futureVars
  <1>4. ASSUME Awa[g] \in Gens PROVE pc'[w] # "run"
    <2>1. Awa[g] \notin Roots /\ \A v \in Workers : ~Carries(v, Awa[g])
      BY <1>1, <1>4, AwaitedAtRest
    <2>2. ASSUME NEW v \in Workers, Gives(v, Awa[g]) PROVE FALSE
      <3>1. ~(pc[v] = "drop" /\ task[v] = Awa[g])
        BY <2>1 DEF Carries
      <3>2. pc[v] \in {"run", "resume"} /\ task[v] \in Gens /\ Awa[task[v]] = Awa[g]
        BY <2>2, <3>1 DEF Gives
      <3>3. task[v] = g /\ Carries(v, g)
        BY <3>2, <1>1, <1>4, EngineAssumption DEF SingleAwaiter, Carries, Stepping, Futures
      <3> QED BY <3>2, <3>3, <1>1 DEF CoreInv, Exclusive
    <2>3. ~Offered(Awa[g])
      BY <2>2 DEF Offered
    <2> QED BY <2>3, <1>1, <1>2, <1>4 DEF StreamInv, LastTaken, MarksMatch
  <1>5. \A h \in Gens : ~Gives(w, h) /\ ~Gives(w, h)' /\ ~Makes(w, h) /\ ~Makes(w, h)'
    BY <1>1, <1>2, <1>4 DEF Makes, Gives
  <1> QED BY <1>1, <1>2, <1>3, <1>5, QuietStep

LEMMA SetAwaitingStep ==
  ASSUME CoreInv, EngineTypeOK, SingleAwaiter, StreamInv, NEW w \in Workers, SetAwaiting(w)
  PROVE  UNCHANGED streams!vars /\ StreamInv'
  <1> DEFINE g == task[w]
  <1> USE DEF SetAwaiting, Goto
  <1>1. /\ g \in Gens /\ g \in Futures /\ pc[w] = "await" /\ pc[w] \in Stepping
        /\ state[g] = "Running" /\ gen[g] = "A"
    BY DEF Stepping, CoreInv, WorkerMarks, WorkerMark, StreamInv, AwaitingHasA, Futures
  <1>2. /\ UNCHANGED <<gen, left, task>> /\ pc'[w] = "add" /\ state'[g] = "Awaiting"
        /\ \A f \in Futures : f # g => state'[f] = state[f]
    BY <1>1 DEF EngineTypeOK
  <1>3. StepOf(w)
    BY <1>1, <1>2 DEF EngineTypeOK, StepOf
  <1>4. \A h \in Gens : ~Gives(w, h) /\ ~Gives(w, h)' /\ ~Makes(w, h) /\ ~Makes(w, h)'
    BY <1>1, <1>2 DEF Makes, Gives
  <1>5. ASSUME NEW h \in Gens PROVE Stage(h)' = Stage(h) /\ (Offered(h)' <=> Offered(h))
    <2>1. (state[h] \in Active)' <=> state[h] \in Active
      BY <1>1, <1>2 DEF Active, Futures
    <2> QED BY <2>1, <1>3, <1>4, StageKept
  <1>6. UNCHANGED streams!vars
    <2>1. \A o \in Outs : state'[o] = state[o]
      BY <1>1, <1>2, EngineAssumption DEF Futures
    <2> QED BY <2>1, <1>2, <1>5, StutterStep
  <1>7. AwaitingHasA'
    BY <1>1, <1>2, <1>3 DEF StreamInv, AwaitingHasA, StepOf, Futures
  <1>8. MarksMatch' /\ SourcesLeft' /\ OutMarks'
    BY <1>1, <1>2, EngineAssumption DEF StreamInv, MarksMatch, SourcesLeft, OutMarks, Futures
  <1>9. LastTaken'
    BY <1>1, <1>2, <1>5 DEF StreamInv, LastTaken, Futures
  <1> QED BY <1>6, <1>7, <1>8, <1>9 DEF StreamInv

(* A generator is parked, and what it awaits is run in place or not.       *)
LEMMA AddStep ==
  ASSUME CoreInv, EngineTypeOK, SingleAwaiter, StreamInv, NEW w \in Workers, Add(w)
  PROVE  UNCHANGED streams!vars /\ StreamInv'
  <1> DEFINE f == Awa[task[w]]
  <1> USE DEF Add, Goto, Return
  <1>1. StepOf(w) /\ UNCHANGED futureVars /\ pc[w] = "add"
    BY DEF EngineTypeOK, StepOf, futureVars
  <1>2. /\ pc'[w] \in {"run", "pop"}
        /\ pc'[w] = "run" => seen[w] /\ f \in Gens /\ task'[w] = f
    BY DEF EngineTypeOK
  <1>3. pc'[w] = "run" => gen[f] # "A"
    BY <1>1, <1>2 DEF CoreInv, SeenStays, AwaitingMarked
  <1>4. \A h \in Gens : ~Gives(w, h) /\ ~Gives(w, h)' /\ ~Makes(w, h) /\ ~Makes(w, h)'
    BY <1>1, <1>2, <1>3 DEF Makes, Gives, futureVars
  <1> QED BY <1>1, <1>2, <1>4, QuietStep

------------------------------------------------------------------------------
(* What was computed is marked and on offer to the one that awaits it.     *)
LEMMA PublishStep ==
  ASSUME CoreInv, EngineTypeOK, SingleAwaiter, StreamInv, NEW w \in Workers, Publish(w),
         NEW g \in Gens, g = task[w]
  PROVE  streams!Next /\ StreamInv'
  <1> USE DEF Publish, Goto
  <1>1. pc[w] = "publish" /\ pc[w] \in Stepping /\ g \in Futures /\ g \notin Outs
    BY EngineAssumption DEF Stepping, Futures
  <1>2. /\ UNCHANGED <<gen, left, task>> /\ pc'[w] = "drop"
        /\ state'[g] = (IF gen[g] = "Fi" THEN "Completed" ELSE "Suspended")
        /\ \A f \in Futures : f # g => state'[f] = state[f]
    BY <1>1 DEF EngineTypeOK
  <1>3. StepOf(w)
    BY <1>1, <1>2 DEF EngineTypeOK, StepOf
  <1>4. \A h \in Gens : /\ ~Gives(w, h) /\ (Gives(w, h)' <=> h = g)
                        /\ ~Makes(w, h)' /\ (Makes(w, h) <=> h = g)
    BY <1>1, <1>2 DEF Makes, Gives
  <1>5. ASSUME NEW h \in Gens, h # g
        PROVE  Stage(h)' = Stage(h) /\ (Offered(h)' <=> Offered(h))
    <2>1. state'[h] = state[h]
      BY <1>2, <1>5 DEF Futures
    <2> QED BY <2>1, <1>3, <1>4, <1>5, StageKept
  <1>6. ~Made(g)' /\ (Offered(g)' <=> g \notin Roots)
    <2>1. \A v \in Workers : v # w => ~Makes(v, g)
      BY <1>1, CarriedStage
    <2>2. \A v \in Workers : ~Makes(v, g)'
      BY <2>1, <1>3, <1>4, OthersStay
    <2> QED BY <2>2, <1>4 DEF Made, Offered
  <1>7. Stage(g) = "made" /\ Stage(g)' = IF g \in streams!Awaited THEN "full" ELSE "idle"
    <2>1. g \in streams!Awaited <=> g \notin Roots
      BY DEF streams!Awaited, Roots
    <2> QED BY <2>1, <1>1, <1>2, <1>4, <1>6 DEF Stage, Made
  <1>8. streams!Offer(g)
    <2> DEFINE stages == [h \in Gens |-> Stage(h)]
    <2>1. stages[g] = "made"
      BY <1>7
    <2>2. stages' = [stages EXCEPT ![g] = IF g \in streams!Awaited THEN "full" ELSE "idle"]
      BY <1>5, <1>7
    <2>3. \A o \in Outs : state'[o] = state[o]
      BY <1>1, <1>2 DEF Futures
    <2>4. /\ [o \in Outs |-> state[o]]' = [o \in Outs |-> state[o]]
          /\ [h \in {k \in Gens : Awa[k] = None} |-> left[h]]'
               = [h \in {k \in Gens : Awa[k] = None} |-> left[h]]
          /\ {h \in Gens : gen[h] = "Fi"}' = {h \in Gens : gen[h] = "Fi"}
      BY <1>2, <2>3
    <2> QED BY <2>1, <2>2, <2>4 DEF streams!Offer
  <1>9. AwaitingHasA'
    BY <1>1, <1>2, <1>3 DEF StreamInv, AwaitingHasA, StepOf, Futures
  <1>10. MarksMatch' /\ SourcesLeft' /\ OutMarks'
    BY <1>1, <1>2 DEF StreamInv, MarksMatch, SourcesLeft, OutMarks, Futures
  <1>11. LastTaken'
    <2> SUFFICES ASSUME NEW a \in Gens, Awa[a] \in Gens, state'[Awa[a]] = "Completed"
                 PROVE  gen'[a] = "Fi" \/ Offered(Awa[a])'
      BY DEF LastTaken
    <2>1. CASE Awa[a] = g
      BY <2>1, <1>6 DEF Roots
    <2>2. CASE Awa[a] # g
      BY <2>2, <1>2, <1>5 DEF StreamInv, LastTaken, Futures
    <2> QED BY <2>1, <2>2
  <1>12. streams!Next
    BY <1>8 DEF streams!Next
  <1> QED BY <1>9, <1>10, <1>11, <1>12 DEF StreamInv

------------------------------------------------------------------------------
(* A client asks for the next value of a pipeline.                         *)
LEMMA ExecuteStep ==
  ASSUME CoreInv, EngineTypeOK, StreamInv, NEW g \in Gens, MayExecute(g), Execute(g)
  PROVE  streams!Next /\ StreamInv'
  <1> USE DEF Execute, MayExecute
  <1>1. /\ g \in Futures /\ g \notin Outs /\ state[g] = "Suspended" /\ g \in Roots
        /\ UNCHANGED <<gen, left, pc, task>> /\ state'[g] = "Queued"
        /\ \A f \in Futures : f # g => state'[f] = state[f]
    BY EngineAssumption DEF EngineTypeOK, Futures, workerVars
  <1>2. ASSUME NEW v \in Workers PROVE ~Makes(v, g)
    BY <1>1 DEF Makes, CoreInv, WorkerMarks, WorkerMark
  <1>3. \A v \in Workers, h \in Gens : /\ Makes(v, h)' <=> Makes(v, h)
                                       /\ Gives(v, h)' <=> Gives(v, h)
    BY <1>1 DEF Makes, Gives
  <1>4. \A h \in Gens : (Made(h)' <=> Made(h)) /\ (Offered(h)' <=> Offered(h))
    BY <1>3 DEF Made, Offered
  <1>5. /\ Stage(g) = "idle" /\ Stage(g)' = "asked"
        /\ \A h \in Gens : h # g => Stage(h)' = Stage(h)
    BY <1>1, <1>2, <1>4 DEF Stage, Made, Offered, Futures
  <1>6. gen[g] # "Fi"
    BY <1>1, <1>2 DEF CoreInv, DoneMarked, Makes
  <1>7. streams!Ask(g)
    <2> DEFINE stages == [h \in Gens |-> Stage(h)]
    <2>1. stages[g] = "idle" /\ g \notin {h \in Gens : gen[h] = "Fi"}
      BY <1>5, <1>6
    <2>2. g \notin streams!Awaited
      BY <1>1 DEF streams!Awaited, Roots
    <2>3. stages' = [stages EXCEPT ![g] = "asked"]
      BY <1>5
    <2>4. \A o \in Outs : state'[o] = state[o]
      BY <1>1 DEF Futures
    <2>5. /\ [o \in Outs |-> state[o]]' = [o \in Outs |-> state[o]]
          /\ [h \in {k \in Gens : Awa[k] = None} |-> left[h]]'
               = [h \in {k \in Gens : Awa[k] = None} |-> left[h]]
          /\ {h \in Gens : gen[h] = "Fi"}' = {h \in Gens : gen[h] = "Fi"}
      BY <1>1, <2>4
    <2> QED BY <2>1, <2>2, <2>3, <2>5 DEF streams!Ask
  <1>8. AwaitingHasA' /\ MarksMatch' /\ SourcesLeft' /\ OutMarks'
    BY <1>1 DEF StreamInv, AwaitingHasA, MarksMatch, SourcesLeft, OutMarks, Futures
  <1>9. LastTaken'
    BY <1>1, <1>4 DEF StreamInv, LastTaken, Futures
  <1>10. streams!Next
    BY <1>7 DEF streams!Next
  <1> QED BY <1>8, <1>9, <1>10 DEF StreamInv

(* An outside future is completed or cancelled.                            *)
LEMMA ResolveStep ==
  ASSUME CoreInv, EngineTypeOK, StreamInv, NEW o \in Outs, Completed(o) \/ Cancelled(o)
  PROVE  streams!Next /\ StreamInv'
  <1> USE DEF Completed, Cancelled, Resolve
  <1>1. PICK st \in {"Completed", "Cancelled"} :
          /\ state[o] = "Running" /\ state' = [state EXCEPT ![o] = st]
          /\ UNCHANGED <<gen, left, pc, task>>
    BY DEF workerVars
  <1>2. /\ o \in Futures /\ o \notin Gens /\ state'[o] = st
        /\ \A f \in Futures : f # o => state'[f] = state[f]
        /\ \A h \in Gens : state'[h] = state[h]
    BY <1>1, EngineAssumption DEF EngineTypeOK, Futures
  <1>3. ASSUME NEW h \in Gens PROVE Stage(h)' = Stage(h) /\ (Offered(h)' <=> Offered(h))
    BY <1>1, <1>2, <1>3 DEF Stage, Made, Offered, Makes, Gives
  <1>4. streams!Settle(o)
    <2> DEFINE settled == [k \in Outs |-> state[k]]
    <2>1. settled[o] = "Running" /\ settled' = [settled EXCEPT ![o] = st]
      BY <1>1, <1>2 DEF Futures
    <2>2. [h \in Gens |-> Stage(h)]' = [h \in Gens |-> Stage(h)]
      BY <1>3
    <2>3. /\ [h \in {k \in Gens : Awa[k] = None} |-> left[h]]'
               = [h \in {k \in Gens : Awa[k] = None} |-> left[h]]
          /\ {h \in Gens : gen[h] = "Fi"}' = {h \in Gens : gen[h] = "Fi"}
      BY <1>1
    <2> QED BY <2>1, <2>2, <2>3 DEF streams!Settle
  <1>5. AwaitingHasA' /\ MarksMatch' /\ SourcesLeft' /\ OutMarks'
    BY <1>1, <1>2 DEF StreamInv, AwaitingHasA, MarksMatch, SourcesLeft, OutMarks, Futures
  <1>6. LastTaken'
    BY <1>1, <1>2, <1>3 DEF StreamInv, LastTaken
  <1>7. streams!Next
    BY <1>4 DEF streams!Next
  <1> QED BY <1>5, <1>6, <1>7 DEF StreamInv

------------------------------------------------------------------------------
(* The engine starts with no value asked for. *)
LEMMA InitStreams == Init => streams!Init /\ StreamInv
  <1> SUFFICES ASSUME Init PROVE streams!Init /\ StreamInv
    OBVIOUS
  <1>1. \A v \in Workers, h \in Gens : ~Makes(v, h) /\ ~Gives(v, h)
    BY DEF Init, EngineInit, Makes, Gives
  <1>2. \A h \in Gens : ~Made(h) /\ ~Offered(h) /\ state[h] = "Suspended" /\ gen[h] = "I"
    BY <1>1 DEF Made, Offered, Init, EngineInit, Futures
  <1>3. \A o \in Outs : state[o] = "Running"
    BY EngineAssumption DEF Init, EngineInit, Futures
  <1>4. streams!Init
    <2>1. [h \in Gens |-> Stage(h)] = [h \in Gens |-> "idle"]
      BY <1>2 DEF Stage
    <2>2. [h \in {k \in Gens : Awa[k] = None} |-> left[h]]
            = [h \in streams!Sources |-> Yields[h]]
      BY DEF Init, EngineInit, streams!Sources
    <2>3. {h \in Gens : gen[h] = "Fi"} = {}
      BY <1>2
    <2>4. [o \in Outs |-> state[o]] = [o \in Outs |-> "Running"]
      BY <1>3
    <2> QED BY <2>1, <2>2, <2>3, <2>4 DEF streams!Init
  <1>5. StreamInv
    BY <1>2, <1>3, EngineAssumption
    DEF StreamInv, AwaitingHasA, MarksMatch, SourcesLeft, OutMarks, LastTaken, Init, EngineInit
  <1> QED BY <1>4, <1>5

(* The steps of a worker. *)
LEMMA WorkStreams ==
  ASSUME IInv, SingleAwaiter, StreamInv, NEW w \in Workers, Work(w)
  PROVE  [streams!Next]_(streams!vars) /\ StreamInv'
  <1> USE Parts
  <1>1. CASE WorkerWaits(w) \/ WorkerLeaves(w)
    BY <1>1, StillStep DEF WorkerWaits, WorkerLeaves, workerVars
  <1>2. CASE WorkerTakes(w) \/ IsCancelled(w) \/ IsCompleted(w) \/ IsResumeable(w)
    BY <1>2, PopStep
  <1>3. CASE Nuke(w) \/ Chain(w) \/ Drop(w)
    BY <1>3, ChainStep, DropStep
  <1>4. CASE Run(w)
    BY <1>4, RunStep
  <1>5. ASSUME pc[w] \in {"resume", "publish"} PROVE \E g \in Gens : g = task[w]
    BY <1>5 DEF CoreInv, WorkerMarks, WorkerMark, Stepping
  <1>6. CASE ResumeSource(w) \/ Publish(w)
    <2>1. PICK g \in Gens : g = task[w]
      BY <1>5, <1>6 DEF ResumeSource, Publish
    <2> QED BY <2>1, <1>6, ResumeSourceStep, PublishStep
  <1>7. CASE ResumeOp(w)
    <2>1. PICK g \in Gens : g = task[w]
      BY <1>5, <1>7 DEF ResumeOp
    <2>2. CASE gen[g] # "A"
      BY <2>1, <2>2, <1>7, StartStep
    <2>3. CASE gen[g] = "A" /\ Awa[g] \in Gens
      BY <2>1, <2>3, <1>7, TakeStep
    <2>4. CASE gen[g] = "A" /\ Awa[g] \in Outs
      BY <2>1, <2>4, <1>7, ReceiveStep
    <2>5. Awa[g] \in Gens \cup Outs
      BY <2>1, <1>7, EngineAssumption DEF ResumeOp, Futures
    <2> QED BY <2>2, <2>3, <2>4, <2>5
  <1>8. CASE Check(w) \/ SetAwaiting(w) \/ Add(w)
    BY <1>8, CheckStep, SetAwaitingStep, AddStep
  <1> QED BY <1>1, <1>2, <1>3, <1>4, <1>6, <1>7, <1>8 DEF Work

(* Every step of the engine is a step of the streams, or none. *)
LEMMA StepStreams ==
  SingleAwaiter /\ IInv /\ StreamInv /\ [Next]_vars
    => [streams!Next]_(streams!vars) /\ StreamInv'
  <1> SUFFICES ASSUME SingleAwaiter, IInv, StreamInv, [Next]_vars
               PROVE  [streams!Next]_(streams!vars) /\ StreamInv'
    OBVIOUS
  <1> USE Parts
  <1>1. ASSUME NEW w \in Workers, Work(w)
        PROVE  [streams!Next]_(streams!vars) /\ StreamInv'
    BY <1>1, WorkStreams
  <1>2. ASSUME UNCHANGED <<futureVars, workerVars>>
        PROVE  UNCHANGED streams!vars /\ StreamInv'
    BY <1>2, StillStep DEF workerVars
  <1>3. CASE \/ WleCall \/ Wle \/ WleSpurious
             \/ \E w \in Workers : WorkerSpurious(w)
             \/ \E f \in Futures : PushCall(f)
             \/ UNCHANGED vars
    <2>1. UNCHANGED <<futureVars, workerVars>>
      BY <1>3 DEF WleCall, Wle, WleTest, WleSleep, WleClose, WleJoin, WleSpurious,
                  WorkerSpurious, PushCall, vars
    <2> QED BY <2>1, <1>2
  <1>4. ASSUME NEW g \in Gens, MayExecute(g), Execute(g)
        PROVE  streams!Next /\ StreamInv'
    BY <1>4, ExecuteStep
  <1>5. ASSUME NEW o \in Outs, Completed(o) \/ Cancelled(o)
        PROVE  streams!Next /\ StreamInv'
    BY <1>5, ResolveStep
  <1> QED BY <1>1, <1>3, <1>4, <1>5 DEF Next, EngineStep

(* agen.hpp:15-30, for any number of workers and any pipelines without a   *)
(* second awaiter: every value is computed when it is asked for, is taken  *)
(* once by the generator that awaits it, and none comes after the last.    *)
THEOREM EngineImplementsStreams == SingleAwaiter /\ Spec => ImplementsStreams
  <1>1. SingleAwaiter /\ Spec => []SingleAwaiter
    <2>1. SingleAwaiter => SingleAwaiter'
      BY DEF SingleAwaiter
    <2> QED BY <2>1, PTL
  <1>2. SingleAwaiter /\ Spec => []StreamInv
    BY <1>1, EngineInvariance, InitStreams, StepStreams, PTL DEF Spec
  <1>3. SingleAwaiter /\ Spec => streams!Init /\ [][streams!Next]_(streams!vars)
    BY <1>1, <1>2, EngineInvariance, InitStreams, StepStreams, PTL DEF Spec
  <1> QED BY <1>3 DEF ImplementsStreams, streams!Spec
==============================================================================
