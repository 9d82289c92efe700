---------------------------- MODULE TickTackProofs ----------------------------
(***************************************************************************)
(* Safety of the timers for any clock bound, any number of timers and any  *)
(* intervals.                                                              *)
(*                                                                         *)
(* The lock makes taking an entry out of `ent` atomic, so an entry is in   *)
(* one place at a time: in the set, with a stop(), with shutdown() or with *)
(* the worker (OnePlace).  A timer in one of these places has not been     *)
(* cancelled, and if it is one-off it has not fired either (StillToCall);  *)
(* the entry's time is the first one plus an interval per call (OnTime).   *)
(***************************************************************************)
EXTENDS TickTack, TLAPS

Held == {"fire", "firing", "emplace"}

OnePlace ==
  \A i \in Ids :
    /\ i \in ent => i \notin stopping /\ i \notin rent /\ tik # i
    /\ i \in stopping => i \notin rent /\ tik # i
    /\ i \in rent => tik # i

Placed(i) == i \in ent \/ i \in stopping \/ i \in rent \/ tik = i

StillToCall ==
  \A i \in Ids : Placed(i) =>
    /\ i < nid /\ cancelled[i] = 0
    /\ ivl[i] = 0 => fired[i] = 0 \/ (tik = i /\ pc = "firing" /\ fired[i] = 1)

NotStarted == \A i \in Ids : i >= nid => fired[i] = 0 /\ cancelled[i] = 0

WorkerHolds ==
  /\ tik # UnId <=> pc \in Held
  /\ pc = "emplace" => ivl[tik] # 0

OnTime ==
  \A i \in Ids :
    /\ i \in ent \/ (tik = i /\ pc = "fire") => due[i] = first[i] + fired[i] * ivl[i]
    /\ tik = i /\ pc = "fire" => due[i] <= now
    /\ tik = i /\ pc \in {"firing", "emplace"} =>
         fired[i] > 0 /\ due[i] = first[i] + (fired[i] - 1) * ivl[i]

(* shutdown() holds entries only while it calls them. *)
RentCalled == shut # "calling" => rent = {}

IInv ==
  /\ TypeOK /\ RentCalled /\ OnePlace /\ StillToCall /\ NotStarted /\ WorkerHolds
  /\ OneOffOnce /\ OnTime /\ NeverEarly

------------------------------------------------------------------------------
(* One more call puts the time an interval later. *)
LEMMA OneMore ==
  ASSUME NEW n \in Nat, NEW d \in Nat
  PROVE  (n + 1) * d = n * d + d /\ n * d \in Nat
  OBVIOUS

(* The timers start in the invariant. *)
LEMMA InitInv == Init => IInv
  <1> SUFFICES ASSUME Init PROVE IInv
    OBVIOUS
  <1> USE DEF Init
  <1>1. TypeOK
    <2>1. /\ due \in [Ids -> Nat] /\ ivl \in [Ids -> Nat] /\ first \in [Ids -> Nat]
          /\ fired \in [Ids -> Nat] /\ cancelled \in [Ids -> Nat]
      OBVIOUS
    <2>2. stahp \in BOOLEAN
      OBVIOUS
    <2>3. /\ now \in Nat /\ nid \in Nat \ {UnId} /\ pc \in WorkerPC
          /\ tik \in Ids \cup {UnId} /\ shut \in {"no", "calling", "joining", "done"}
      BY DEF UnId, WorkerPC
    <2>4. /\ ent \subseteq Ids \cap 1..(nid - 1)
          /\ stopping \subseteq Ids /\ rent \subseteq Ids /\ stopped \subseteq Ids
      OBVIOUS
    <2> QED BY <2>1, <2>2, <2>3, <2>4 DEF TypeOK
  <1>2. OnePlace /\ StillToCall /\ NotStarted /\ WorkerHolds /\ OneOffOnce
    BY DEF OnePlace, StillToCall, NotStarted, WorkerHolds, OneOffOnce, Placed, Ids, UnId, Held
  <1>3. OnTime /\ NeverEarly /\ RentCalled
    BY DEF OnTime, NeverEarly, RentCalled, Ids, UnId
  <1> QED BY <1>1, <1>2, <1>3 DEF IInv

(* The clock only goes on. *)
LEMMA TickInv == ASSUME IInv, Tick PROVE IInv'
  <1> USE DEF IInv, Tick, clientVars, workerVars, history
  <1>1. TypeOK'
    BY DEF TypeOK
  <1>2. /\ OnePlace' /\ StillToCall' /\ NotStarted' /\ WorkerHolds' /\ OneOffOnce'
        /\ RentCalled'
    BY DEF OnePlace, StillToCall, NotStarted, WorkerHolds, OneOffOnce, Placed, RentCalled
  <1>3. now' >= now /\ now \in Nat /\ now' \in Nat
    BY DEF TypeOK
  <1>4. OnTime'
    BY <1>3 DEF OnTime, TypeOK
  <1>5. NeverEarly'
    <2> SUFFICES ASSUME NEW i \in Ids, fired[i] > 0
                 PROVE  first[i] + (fired[i] - 1) * ivl[i] <= now'
      BY DEF NeverEarly
    <2> DEFINE x == first[i] + (fired[i] - 1) * ivl[i]
    <2>1. x \in Int
      BY DEF TypeOK
    <2>2. x <= now
      BY DEF NeverEarly
    <2> HIDE DEF x
    <2>3. x <= now'
      BY <2>1, <2>2, <1>3
    <2> QED BY <2>3 DEF x
  <1> QED BY <1>1, <1>2, <1>4, <1>5

(* start() takes an id that nothing has used. *)
LEMMA StartInv ==
  ASSUME IInv, NEW t \in Nat, NEW d \in Nat, Start(t, d)
  PROVE  IInv'
  <1> USE DEF IInv, Start, workerVars
  <1>1. nid \in Ids /\ nid \in Nat /\ fired[nid] = 0 /\ cancelled[nid] = 0 /\ ~Placed(nid)
    BY DEF TypeOK, NotStarted, StillToCall, Ids
  <1>2. TypeOK'
    BY <1>1 DEF TypeOK, Ids, UnId
  <1>3. /\ ent' = ent \cup {nid} /\ nid' = nid + 1
        /\ due'[nid] = t /\ ivl'[nid] = d /\ first'[nid] = t
        /\ \A i \in Ids : i # nid => /\ due'[i] = due[i] /\ ivl'[i] = ivl[i]
                                     /\ first'[i] = first[i]
        /\ UNCHANGED <<now, pc, tik, stopping, rent, fired, cancelled>>
    BY DEF TypeOK
  <1>4. OnePlace'
    BY <1>1, <1>3 DEF OnePlace, Placed
  <1>5. StillToCall'
    BY <1>1, <1>3 DEF StillToCall, Placed, Ids
  <1>6. NotStarted'
    BY <1>1, <1>3 DEF NotStarted, Ids
  <1>7. WorkerHolds'
    <2>1. pc = "emplace" => tik \in Ids /\ tik # nid
      BY <1>1 DEF WorkerHolds, TypeOK, Held, Placed
    <2> QED BY <2>1, <1>3 DEF WorkerHolds
  <1>8. OneOffOnce'
    BY <1>1, <1>3 DEF OneOffOnce
  <1>9. OnTime'
    <2> SUFFICES ASSUME NEW i \in Ids
                 PROVE  /\ i \in ent' \/ (tik' = i /\ pc' = "fire")
                             => due'[i] = first'[i] + fired'[i] * ivl'[i]
                        /\ tik' = i /\ pc' = "fire" => due'[i] <= now'
                        /\ tik' = i /\ pc' \in {"firing", "emplace"} =>
                             /\ fired'[i] > 0
                             /\ due'[i] = first'[i] + (fired'[i] - 1) * ivl'[i]
      BY DEF OnTime
    <2>1. CASE i = nid
      BY <2>1, <1>1, <1>3 DEF Placed
    <2>2. CASE i # nid
      BY <2>2, <1>3 DEF OnTime
    <2> QED BY <2>1, <2>2
  <1>10. NeverEarly'
    BY <1>1, <1>3 DEF NeverEarly
  <1>11. RentCalled'
    BY DEF RentCalled
  <1> QED BY <1>2, <1>4, <1>5, <1>6, <1>7, <1>8, <1>9, <1>10, <1>11

(* Steps that leave the timers and what is said of them alone. *)
LEMMA Untouched ==
  ASSUME IInv,
         UNCHANGED <<now, nid, ent, due, ivl, tik, stopping, rent, first, fired, cancelled>>,
         pc' = pc \/ (pc \notin Held /\ pc' \notin Held)
  PROVE  /\ OnePlace' /\ StillToCall' /\ NotStarted' /\ WorkerHolds'
         /\ OneOffOnce' /\ OnTime' /\ NeverEarly'
  <1> USE DEF IInv, Held
  <1>1. OnePlace' /\ NotStarted' /\ OneOffOnce' /\ NeverEarly'
    BY DEF OnePlace, NotStarted, OneOffOnce, NeverEarly
  <1>2. StillToCall' /\ WorkerHolds'
    BY DEF StillToCall, WorkerHolds, Placed
  <1>3. OnTime'
    BY DEF OnTime
  <1> QED BY <1>1, <1>2, <1>3

(* stop() moves an entry out of the set, or finds none. *)
LEMMA StopInv ==
  ASSUME IInv, NEW i \in Ids, Stop(i)
  PROVE  IInv'
  <1> USE DEF IInv, Stop, workerVars, history
  <1>1. TypeOK'
    BY DEF TypeOK
  <1>4. RentCalled'
    BY DEF RentCalled
  <1>2. CASE i \in ent
    <2>1. OnePlace'
      BY <1>2 DEF OnePlace
    <2>2. StillToCall' /\ NotStarted' /\ WorkerHolds' /\ OneOffOnce'
      BY <1>2 DEF StillToCall, NotStarted, WorkerHolds, OneOffOnce, Placed
    <2>3. OnTime' /\ NeverEarly'
      BY <1>2 DEF OnTime, NeverEarly
    <2> QED BY <1>1, <1>4, <2>1, <2>2, <2>3
  <1>3. CASE i \notin ent
    BY <1>1, <1>3, <1>4, Untouched
  <1> QED BY <1>2, <1>3

(* The cancelling call of stop(). *)
LEMMA StopCallsInv ==
  ASSUME IInv, NEW i \in Ids, StopCalls(i)
  PROVE  IInv'
  <1> USE DEF IInv, StopCalls, workerVars
  <1>1. /\ i \notin ent /\ i \notin rent /\ tik # i /\ cancelled[i] = 0 /\ i < nid
        /\ ivl[i] = 0 => fired[i] = 0
    BY DEF OnePlace, StillToCall, Placed
  <1>2. TypeOK'
    BY DEF TypeOK
  <1>3. cancelled'[i] = 1 /\ \A j \in Ids : j # i => cancelled'[j] = cancelled[j]
    BY <1>1 DEF TypeOK
  <1>4. OnePlace' /\ WorkerHolds' /\ OnTime' /\ NeverEarly' /\ RentCalled'
    BY DEF OnePlace, WorkerHolds, OnTime, NeverEarly, RentCalled
  <1>5. StillToCall'
    BY <1>1, <1>3 DEF StillToCall, Placed
  <1>6. NotStarted'
    BY <1>1, <1>3 DEF NotStarted, TypeOK, Ids
  <1>7. OneOffOnce'
    BY <1>1, <1>3 DEF OneOffOnce, TypeOK
  <1> QED BY <1>2, <1>4, <1>5, <1>6, <1>7

(* shutdown() takes over the whole set. *)
LEMMA ShutdownInv ==
  ASSUME IInv, Shutdown
  PROVE  IInv'
  <1> USE DEF IInv, Shutdown, clientVars, workerVars, history
  <1>5. rent = {} /\ RentCalled'
    BY DEF RentCalled
  <1>1. TypeOK'
    <2>1. stahp' \in BOOLEAN
      OBVIOUS
    <2>2. /\ ent' \subseteq Ids \cap 1..(nid' - 1) /\ rent' \subseteq Ids
          /\ shut' \in {"no", "calling", "joining", "done"}
      BY DEF TypeOK
    <2> QED BY <2>1, <2>2 DEF TypeOK
  <1>2. OnePlace' /\ NotStarted' /\ WorkerHolds' /\ OneOffOnce' /\ NeverEarly'
    BY <1>5 DEF OnePlace, NotStarted, WorkerHolds, OneOffOnce, NeverEarly
  <1>3. StillToCall'
    BY <1>5 DEF StillToCall, Placed
  <1>4. OnTime'
    BY DEF OnTime
  <1> QED BY <1>1, <1>2, <1>3, <1>4, <1>5

(* shutdown() calls its entries one after the other. *)
LEMMA ShutdownCallsInv ==
  ASSUME IInv, ShutdownCalls
  PROVE  IInv'
  <1> USE DEF IInv, ShutdownCalls, clientVars, workerVars
  <1>1. CASE rent = {}
    <2>1. TypeOK' /\ RentCalled'
      BY <1>1 DEF TypeOK, RentCalled
    <2> QED BY <1>1, <2>1, Untouched
  <1>2. CASE rent # {}
    <2>1. PICK i \in rent : /\ rent' = rent \ {i}
                            /\ cancelled' = [cancelled EXCEPT ![i] = @ + 1]
                            /\ UNCHANGED shut
      BY <1>2
    <2>2. /\ i \in Ids /\ i \notin ent /\ i \notin stopping /\ tik # i
          /\ cancelled[i] = 0 /\ i < nid /\ (ivl[i] = 0 => fired[i] = 0)
      BY DEF TypeOK, OnePlace, StillToCall, Placed
    <2>3. TypeOK' /\ RentCalled'
      BY <2>1, <2>2, <1>2 DEF TypeOK, RentCalled
    <2>4. cancelled'[i] = 1 /\ \A j \in Ids : j # i => cancelled'[j] = cancelled[j]
      BY <2>1, <2>2 DEF TypeOK
    <2>5. OnePlace' /\ WorkerHolds' /\ OnTime' /\ NeverEarly'
      BY <2>1 DEF OnePlace, WorkerHolds, OnTime, NeverEarly
    <2>6. StillToCall'
      BY <2>1, <2>2, <2>4 DEF StillToCall, Placed
    <2>7. NotStarted'
      BY <2>2, <2>4 DEF NotStarted, TypeOK, Ids
    <2>8. OneOffOnce'
      BY <2>2, <2>4 DEF OneOffOnce, TypeOK
    <2> QED BY <2>3, <2>5, <2>6, <2>7, <2>8
  <1> QED BY <1>1, <1>2

------------------------------------------------------------------------------
(* The worker's steps between two entries. *)
LEMMA BetweenInv ==
  ASSUME IInv, Outer \/ Next0 \/ Idle \/ Wake
  PROVE  IInv'
  <1>1. /\ UNCHANGED <<now, nid, ent, due, ivl, tik, stopping, rent, first, fired, cancelled>>
        /\ UNCHANGED <<stahp, shut, stopped>>
        /\ pc \notin Held /\ pc' \notin Held /\ pc' \in WorkerPC
    BY DEF Outer, Next0, Idle, Wake, Goto, clientVars, history, Held, WorkerPC
  <1>2. TypeOK' /\ RentCalled'
    BY <1>1 DEF TypeOK, RentCalled, IInv
  <1> QED BY <1>1, <1>2, Untouched DEF IInv

(* The worker takes an entry out of the set, due, or finds none. *)
LEMMA TakeInv ==
  ASSUME IInv, Take
  PROVE  IInv'
  <1> USE DEF IInv, Goto, clientVars, history
  <1>1. CASE UNCHANGED <<tik, ent>> /\ Goto("idle")
    <2>1. pc \notin Held /\ pc' \notin Held /\ pc' \in WorkerPC
      BY <1>1 DEF Take, Held, WorkerPC
    <2>2. TypeOK' /\ RentCalled'
      BY <1>1, <2>1 DEF TypeOK, RentCalled, Take
    <2> QED BY <1>1, <2>1, <2>2, Untouched DEF Take
  <1>2. ASSUME NEW i \in ent, due[i] <= now, tik' = i, ent' = ent \ {i}, Goto("fire")
        PROVE  IInv'
    <2>1. /\ i \in Ids /\ i # UnId /\ i \notin stopping /\ i \notin rent /\ tik = UnId
          /\ pc = "take"
      BY DEF TypeOK, OnePlace, WorkerHolds, Held, Take, Ids, UnId
    <2>2. /\ pc' = "fire" /\ i \notin ent'
          /\ UNCHANGED <<now, nid, due, ivl, stahp, rent, shut, stopping, stopped,
                         first, fired, cancelled>>
      BY <1>2 DEF Take
    <2>3. TypeOK' /\ RentCalled'
      BY <1>2, <2>1, <2>2 DEF TypeOK, RentCalled, WorkerPC
    <2>4. OnePlace'
      BY <1>2, <2>1, <2>2 DEF OnePlace
    <2>5. StillToCall'
      BY <1>2, <2>1, <2>2 DEF StillToCall, Placed
    <2>6. NotStarted' /\ OneOffOnce' /\ NeverEarly'
      BY <2>2 DEF NotStarted, OneOffOnce, NeverEarly
    <2>7. WorkerHolds'
      BY <1>2, <2>1, <2>2 DEF WorkerHolds, Held
    <2>8. OnTime'
      BY <1>2, <2>1, <2>2 DEF OnTime
    <2> QED BY <2>3, <2>4, <2>5, <2>6, <2>7, <2>8
  <1> QED BY <1>1, <1>2 DEF Take

(* The call is the fired[tik] + 1st, and its time has come. *)
LEMMA FireInv ==
  ASSUME IInv, Fire
  PROVE  IInv'
  <1> USE DEF IInv, Goto, clientVars
  <1>1. /\ tik \in Ids /\ pc = "fire" /\ pc' = "firing"
        /\ fired' = [fired EXCEPT ![tik] = @ + 1]
        /\ UNCHANGED <<tik, ent, first, cancelled, now, nid, due, ivl, stahp, rent, shut,
                       stopping, stopped>>
    BY DEF Fire, WorkerHolds, TypeOK, Held
  <1>2. /\ tik \notin ent /\ tik \notin stopping /\ tik \notin rent
        /\ cancelled[tik] = 0 /\ tik < nid /\ (ivl[tik] = 0 => fired[tik] = 0)
    BY <1>1 DEF OnePlace, StillToCall, Placed
  <1>3. /\ fired'[tik] = fired[tik] + 1 /\ fired[tik] \in Nat /\ fired'[tik] - 1 = fired[tik]
        /\ \A j \in Ids : j # tik => fired'[j] = fired[j]
    BY <1>1 DEF TypeOK
  <1>4. due[tik] = first[tik] + fired[tik] * ivl[tik] /\ due[tik] <= now
    BY <1>1 DEF OnTime
  <1>5. TypeOK' /\ RentCalled'
    BY <1>1 DEF TypeOK, RentCalled, WorkerPC
  <1>6. OnePlace' /\ WorkerHolds'
    BY <1>1 DEF OnePlace, WorkerHolds, Held
  <1>7. StillToCall'
    BY <1>1, <1>2, <1>3 DEF StillToCall, Placed
  <1>8. NotStarted'
    BY <1>1, <1>2, <1>3 DEF NotStarted, TypeOK, Ids
  <1>9. OneOffOnce'
    BY <1>1, <1>2, <1>3 DEF OneOffOnce, TypeOK
  <1>10. OnTime'
    BY <1>1, <1>2, <1>3, <1>4 DEF OnTime, TypeOK
  <1>11. NeverEarly'
    BY <1>1, <1>3, <1>4 DEF NeverEarly, TypeOK
  <1> QED BY <1>5, <1>6, <1>7, <1>8, <1>9, <1>10, <1>11

(* The callback returned; a one-off timer is dropped. *)
LEMMA FiredInv ==
  ASSUME IInv, Fired
  PROVE  IInv'
  <1> USE DEF IInv, Goto, clientVars, history
  <1>1. /\ tik \in Ids /\ tik # UnId /\ pc = "firing"
        /\ UNCHANGED <<ent, first, fired, cancelled, now, nid, due, ivl, stahp, rent, shut,
                       stopping, stopped>>
    BY DEF Fired, WorkerHolds, TypeOK, Held, Ids, UnId
  <1>2. \/ ivl[tik] # 0 /\ pc' = "emplace" /\ tik' = tik
        \/ ivl[tik] = 0 /\ pc' = "next" /\ tik' = UnId
    BY DEF Fired
  <1>3. UnId \notin Ids
    BY DEF Ids, UnId
  <1>4. TypeOK' /\ RentCalled'
    BY <1>1, <1>2 DEF TypeOK, RentCalled, WorkerPC
  <1>5. OnePlace' /\ WorkerHolds'
    BY <1>1, <1>2, <1>3 DEF OnePlace, WorkerHolds, Held
  <1>6. StillToCall'
    BY <1>1, <1>2, <1>3 DEF OnePlace, StillToCall, Placed
  <1>8. NotStarted' /\ OneOffOnce' /\ NeverEarly'
    BY <1>1 DEF NotStarted, OneOffOnce, NeverEarly
  <1>7. OnTime'
    BY <1>1, <1>2, <1>3 DEF OnTime
  <1> QED BY <1>4, <1>5, <1>6, <1>7, <1>8

(* A periodic timer goes back an interval later. *)
LEMMA EmplaceInv ==
  ASSUME IInv, Emplace
  PROVE  IInv'
  <1> USE DEF IInv, clientVars, history
  <1>1. /\ tik \in Ids /\ tik # UnId /\ pc = "emplace" /\ pc' = "next" /\ tik' = UnId
        /\ ivl[tik] # 0 /\ UnId \notin Ids
        /\ ent' = ent \cup {tik} /\ due' = [due EXCEPT ![tik] = @ + ivl[tik]]
        /\ UNCHANGED <<first, fired, cancelled, now, nid, ivl, stahp, rent, shut,
                       stopping, stopped>>
    BY DEF Emplace, WorkerHolds, TypeOK, Held, Ids, UnId
  <1>2. /\ tik \notin ent /\ tik \notin stopping /\ tik \notin rent
        /\ cancelled[tik] = 0 /\ tik < nid
    BY <1>1 DEF OnePlace, StillToCall, Placed
  <1>3. /\ due'[tik] = due[tik] + ivl[tik]
        /\ \A j \in Ids : j # tik => due'[j] = due[j]
    BY <1>1 DEF TypeOK
  <1>4. due'[tik] = first[tik] + fired[tik] * ivl[tik]
    <2> DEFINE n == fired[tik] - 1
    <2>1. n \in Nat /\ ivl[tik] \in Nat /\ first[tik] \in Nat /\ fired[tik] = n + 1
      BY <1>1 DEF OnTime, TypeOK
    <2>2. due[tik] = first[tik] + n * ivl[tik]
      BY <1>1 DEF OnTime
    <2> HIDE DEF n
    <2>3. (n + 1) * ivl[tik] = n * ivl[tik] + ivl[tik] /\ n * ivl[tik] \in Nat
      BY <2>1, OneMore
    <2> DEFINE x == n * ivl[tik]
    <2>4. due'[tik] = first[tik] + x + ivl[tik] /\ x \in Nat
      BY <2>2, <2>3, <1>3
    <2>5. fired[tik] * ivl[tik] = x + ivl[tik]
      BY <2>1, <2>3
    <2> HIDE DEF x
    <2> QED BY <2>1, <2>4, <2>5
  <1>5. TypeOK' /\ RentCalled'
    BY <1>1, <1>2 DEF TypeOK, RentCalled, WorkerPC, Ids, UnId
  <1>6. OnePlace' /\ WorkerHolds'
    BY <1>1, <1>2 DEF OnePlace, WorkerHolds, Held
  <1>7. StillToCall'
    BY <1>1, <1>2 DEF StillToCall, Placed
  <1>8. NotStarted' /\ OneOffOnce' /\ NeverEarly'
    BY <1>1 DEF NotStarted, OneOffOnce, NeverEarly
  <1>9. OnTime'
    BY <1>1, <1>3, <1>4 DEF OnTime
  <1> QED BY <1>5, <1>6, <1>7, <1>8, <1>9

------------------------------------------------------------------------------
(* Every step keeps the invariant. *)
LEMMA StepInv == IInv /\ [Next]_vars => IInv'
  <1> SUFFICES ASSUME IInv, [Next]_vars PROVE IInv'
    OBVIOUS
  <1>1. CASE Tick
    BY <1>1, TickInv
  <1>2. ASSUME NEW t \in 0..MaxTime, NEW d \in Intervals, Start(t, d) PROVE IInv'
    <2>1. t \in Nat /\ d \in Nat
      BY TimerAssumption
    <2> QED BY <1>2, <2>1, StartInv
  <1>3. ASSUME NEW i \in Ids, Stop(i) \/ StopCalls(i) PROVE IInv'
    BY <1>3, StopInv, StopCallsInv
  <1>4. CASE Shutdown \/ ShutdownCalls
    BY <1>4, ShutdownInv, ShutdownCallsInv
  <1>5. CASE ShutdownJoins
    <2> USE DEF ShutdownJoins, clientVars, workerVars, history
    <2>1. TypeOK' /\ RentCalled'
      BY <1>5 DEF IInv, TypeOK, RentCalled
    <2> QED BY <1>5, <2>1, Untouched DEF IInv
  <1>6. CASE Worker
    BY <1>6, BetweenInv, TakeInv, FireInv, FiredInv, EmplaceInv DEF Worker
  <1>7. CASE UNCHANGED vars
    <2>1. TypeOK' /\ RentCalled'
      BY <1>7 DEF vars, IInv, TypeOK, RentCalled
    <2> QED BY <1>7, <2>1, Untouched DEF vars, IInv
  <1> QED BY <1>1, <1>2, <1>3, <1>4, <1>5, <1>6, <1>7 DEF Next

(* The inductive invariant of the timers. *)
THEOREM TimerInvariance == Spec => []IInv
  BY InitInv, StepInv, PTL DEF Spec

(* Every variable keeps its type; in particular an entry's id was handed   *)
(* out by start().                                                         *)
THEOREM TimerTypeCorrect == Spec => []TypeOK
  BY TimerInvariance, PTL DEF IInv

(* A one-off callback is invoked at most once, to fire or to cancel,       *)
(* whichever of the worker, stop() and shutdown() wins the entry.          *)
THEOREM OneOffCalledOnce == Spec => []OneOffOnce
  BY TimerInvariance, PTL DEF IInv

(* No call of a timer comes before its time.                               *)
THEOREM NoEarlyCall == Spec => []NeverEarly
  BY TimerInvariance, PTL DEF IInv

(* After the cancelling call the callback of a timer is not invoked again. *)
THEOREM CancellationIsLast == Spec => CancelIsLast
  <1> DEFINE Silent == \A i \in Ids : cancelled[i] > 0 =>
                         fired'[i] = fired[i] /\ cancelled'[i] = cancelled[i]
  <1>1. ASSUME IInv, [Next]_vars PROVE [Silent]_vars
    <2> SUFFICES ASSUME NEW i \in Ids, cancelled[i] > 0
                 PROVE  fired'[i] = fired[i] /\ cancelled'[i] = cancelled[i]
      OBVIOUS
    <2>1. i \notin stopping /\ i \notin rent /\ tik # i
      BY <1>1 DEF IInv, StillToCall, Placed
    <2>2. fired \in [Ids -> Nat] /\ cancelled \in [Ids -> Nat]
      BY <1>1 DEF IInv, TypeOK
    <2>3. CASE UNCHANGED <<fired, cancelled>>
      BY <2>3
    <2>4. ASSUME NEW j \in Ids, StopCalls(j)
          PROVE  fired'[i] = fired[i] /\ cancelled'[i] = cancelled[i]
      BY <2>1, <2>2, <2>4 DEF StopCalls
    <2>5. CASE ShutdownCalls
      BY <2>1, <2>2, <2>5 DEF ShutdownCalls
    <2>6. CASE Fire
      BY <2>1, <2>2, <2>6 DEF Fire
    <2>7. \/ UNCHANGED <<fired, cancelled>> \/ ShutdownCalls \/ Fire
          \/ \E j \in Ids : StopCalls(j)
      BY <1>1 DEF Next, Worker, Tick, Start, Stop, Shutdown, ShutdownJoins, Outer, Next0,
                  Take, Fired, Emplace, Idle, Wake, history, vars
    <2> QED BY <2>3, <2>4, <2>5, <2>6, <2>7
  <1>2. Spec => []IInv
    BY TimerInvariance
  <1> QED BY <1>1, <1>2, PTL DEF Spec, CancelIsLast

(* Once shutdown() has returned the worker is gone: it invokes no callback *)
(* and is in none.                                                         *)
THEOREM QuietOnceShutDown == Spec => QuietAfterShutdown
  <1> DEFINE Gone == shut = "done" => pc = "exited"
  <1>1. Init => Gone
    BY DEF Init
  <1>2. Gone /\ [Next]_vars => Gone'
    BY DEF Next, Worker, Tick, Start, Stop, StopCalls, Shutdown, ShutdownCalls,
           ShutdownJoins, Outer, Next0, Take, Fire, Fired, Emplace, Idle, Wake, Goto,
           workerVars, vars
  <1>3. Gone /\ [Next]_vars
          => [shut = "done" => fired' = fired /\ pc \notin {"fire", "firing"}]_vars
    BY DEF Next, Worker, Tick, Start, Stop, StopCalls, Shutdown, ShutdownCalls,
           ShutdownJoins, Outer, Next0, Take, Fire, Fired, Emplace, Idle, Wake, Goto,
           history, vars
  <1> HIDE DEF Gone
  <1> QED BY <1>1, <1>2, <1>3, PTL DEF Spec, QuietAfterShutdown
==============================================================================
