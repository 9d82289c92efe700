------------------------------- MODULE TickTack -------------------------------
(***************************************************************************)
(* The timer thread (ticktack.hpp, ticktack.cpp).  Clients start timers,   *)
(* one-off or periodic, and stop them; one worker thread takes the timers  *)
(* that are due out of the ordered set `ent`, calls them back outside the  *)
(* lock, and puts the periodic ones back; shutdown() cancels what is in    *)
(* the set and joins the worker.                                           *)
(*                                                                         *)
(* Every critical section of `lock` is one action, and so is each read of  *)
(* the atomic `stahp`.  An entry (struct El) is its timer id; its fields t *)
(* and d are kept in functions of the id, as an entry is moved as a whole. *)
(* A callback may itself start or stop timers: that is a client's step     *)
(* while the worker is in "firing".                                        *)
(***************************************************************************)
EXTENDS Integers

CONSTANTS MaxTime,    (* the clock stops here: a bound for TLC              *)
          MaxTimers,  (* at most so many timers are started: a bound        *)
          Intervals   (* the intervals d that clients ask for; 0: one-off   *)

ASSUME TimerAssumption ==
  MaxTime \in Nat /\ MaxTimers \in Nat /\ Intervals \subseteq Nat

UnId == 0
Ids == 1..MaxTimers

VARIABLES now,         (* Clock::now()                                      *)
          nid,         (* the next id                                       *)
          ent,         (* the ids of the entries in the set                 *)
          due, ivl,    (* t and d of each entry                             *)
          stahp,
          pc, tik,     (* the worker: where it is, the entry it took        *)
          stopping,    (* entries stop() took and has still to call back    *)
          rent,        (* entries shutdown() took and has still to call     *)
          shut,        (* where the thread in shutdown() is                 *)
          first,       (* history: when each timer was first due            *)
          fired,       (* history: how often each timer was called          *)
          cancelled,   (* history: how often each was called to cancel      *)
          stopped      (* history: the timers some stop() has returned for  *)

clientVars == <<nid, stopping, stopped>>
workerVars == <<pc, tik>>
history == <<first, fired, cancelled>>
vars == <<now, nid, ent, due, ivl, stahp, pc, tik, stopping, rent, shut, first,
          fired, cancelled, stopped>>

Init ==
  /\ now = 0
  /\ nid = UnId + 1
  /\ ent = {}
  /\ due = [i \in Ids |-> 0]
  /\ ivl = [i \in Ids |-> 0]
  /\ stahp = FALSE
  /\ pc = "outer"
  /\ tik = UnId
  /\ stopping = {}
  /\ rent = {}
  /\ shut = "no"
  /\ first = [i \in Ids |-> 0]
  /\ fired = [i \in Ids |-> 0]
  /\ cancelled = [i \in Ids |-> 0]
  /\ stopped = {}

(* The order of the set: by time, then by id. *)
Before(i, j) == due[i] < due[j] \/ (due[i] = due[j] /\ i < j)
IsFirst(i, S) == i \in S /\ \A j \in S \ {i} : Before(i, j)

(* steady_clock never goes back. *)
Tick ==
  /\ now < MaxTime
  /\ now' = now + 1
  /\ UNCHANGED <<clientVars, ent, due, ivl, stahp, workerVars, rent, shut, history>>

------------------------------------------------------------------------------
(* The clients.                                                            *)

(* Faulty: ++nid, so that the entry gets the id after the one handed out.  *)
StartSkipsId(t, d) ==
  /\ nid + 1 \in Ids
  /\ nid' = nid + 1
  /\ ent' = ent \cup {nid + 1}
  /\ due' = [due EXCEPT ![nid] = t]
  /\ ivl' = [ivl EXCEPT ![nid] = d]
  /\ first' = [first EXCEPT ![nid] = t]
  /\ UNCHANGED <<now, stahp, workerVars, stopping, rent, shut, fired, cancelled,
                 stopped>>

(* start(): also after shutdown, when nobody serves the set any more. *)
Start(t, d) ==
  /\ nid \in Ids
  /\ nid' = nid + 1
  /\ ent' = ent \cup {nid}
  /\ due' = [due EXCEPT ![nid] = t]
  /\ ivl' = [ivl EXCEPT ![nid] = d]
  /\ first' = [first EXCEPT ![nid] = t]
  /\ UNCHANGED <<now, stahp, workerVars, stopping, rent, shut, fired, cancelled,
                 stopped>>

(* Faulty: the entry is found and called, but stays in the set. *)
StopCopies(i) ==
  /\ i \in 1..(nid - 1)
  /\ IF i \in ent
       THEN stopping' = stopping \cup {i} /\ UNCHANGED stopped
       ELSE stopped' = stopped \cup {i} /\ UNCHANGED stopping
  /\ UNCHANGED <<now, nid, ent, due, ivl, stahp, workerVars, rent, shut, history>>

(* stop(): an entry that is not in the set is not stopped. *)
Stop(i) ==
  /\ i \in 1..(nid - 1)
  /\ IF i \in ent
       THEN ent' = ent \ {i} /\ stopping' = stopping \cup {i} /\ UNCHANGED stopped
       ELSE stopped' = stopped \cup {i} /\ UNCHANGED <<ent, stopping>>
  /\ UNCHANGED <<now, nid, due, ivl, stahp, workerVars, rent, shut, history>>

(* The rest of stop(), outside the lock: the callback, told to cancel. *)
StopCalls(i) ==
  /\ i \in stopping
  /\ stopping' = stopping \ {i}
  /\ cancelled' = [cancelled EXCEPT ![i] = @ + 1]
  /\ stopped' = stopped \cup {i}
  /\ UNCHANGED <<now, nid, ent, due, ivl, stahp, workerVars, rent, shut, first, fired>>

(* Faulty: the entries are dropped instead of taken over. *)
ShutdownForgets ==
  /\ shut = "no"
  /\ stahp' = TRUE
  /\ rent' = {} /\ ent' = {}
  /\ shut' = "calling"
  /\ UNCHANGED <<now, clientVars, due, ivl, workerVars, history>>

(* shutdown(): called once, and not from a callback (it would join itself). *)
Shutdown ==
  /\ shut = "no"
  /\ stahp' = TRUE
  /\ rent' = ent /\ ent' = {}
  /\ shut' = "calling"
  /\ UNCHANGED <<now, clientVars, due, ivl, workerVars, history>>

ShutdownCalls ==
  /\ shut = "calling"
  /\ IF rent = {}
       THEN shut' = "joining" /\ UNCHANGED <<rent, cancelled>>
       ELSE \E i \in rent :
              /\ IsFirst(i, rent)
              /\ rent' = rent \ {i}
              /\ cancelled' = [cancelled EXCEPT ![i] = @ + 1]
              /\ UNCHANGED shut
  /\ UNCHANGED <<now, clientVars, ent, due, ivl, stahp, workerVars, first, fired>>

(* Faulty: the worker is detached instead of joined. *)
ShutdownDetaches ==
  /\ shut = "joining"
  /\ shut' = "done"
  /\ UNCHANGED <<now, clientVars, ent, due, ivl, stahp, workerVars, rent, history>>

ShutdownJoins ==
  /\ shut = "joining" /\ pc = "exited"
  /\ shut' = "done"
  /\ UNCHANGED <<now, clientVars, ent, due, ivl, stahp, workerVars, rent, history>>

------------------------------------------------------------------------------
(* The worker.                                                             *)
Goto(p) ==
  /\ pc' = p
  /\ UNCHANGED <<now, clientVars, due, ivl, stahp, rent, shut>>

(* Faulty: stahp is never read. *)
OuterForever ==
  pc = "outer" /\ Goto("next") /\ UNCHANGED <<tik, ent, history>>

Outer ==
  /\ pc = "outer"
  /\ Goto(IF stahp THEN "exited" ELSE "next")
  /\ UNCHANGED <<tik, ent, history>>

(* next(): the test of stahp, ahead of the lock. *)
Next0 ==
  /\ pc = "next"
  /\ Goto(IF stahp THEN "idle" ELSE "take")
  /\ UNCHANGED <<tik, ent, history>>

TakeEarly ==  (* faulty: the first entry is taken, due or not *)
  /\ pc = "take"
  /\ \/ \E i \in ent : IsFirst(i, ent) /\ tik' = i /\ ent' = ent \ {i} /\ Goto("fire")
     \/ ent = {} /\ Goto("idle") /\ UNCHANGED <<tik, ent>>
  /\ UNCHANGED history

(* next(): take the first entry if its time has come. *)
Take ==
  /\ pc = "take"
  /\ \/ \E i \in ent : /\ IsFirst(i, ent) /\ due[i] <= now
                       /\ tik' = i /\ ent' = ent \ {i}
                       /\ Goto("fire")
     \/ /\ \A i \in ent : due[i] > now
        /\ Goto("idle") /\ UNCHANGED <<tik, ent>>
  /\ UNCHANGED history

Fire ==
  /\ pc = "fire"
  /\ fired' = [fired EXCEPT ![tik] = @ + 1]
  /\ Goto("firing")
  /\ UNCHANGED <<tik, ent, first, cancelled>>

FiredAlways ==  (* faulty: one-off timers are put back as well *)
  pc = "firing" /\ Goto("emplace") /\ UNCHANGED <<tik, ent, history>>

(* The callback returns. *)
Fired ==
  /\ pc = "firing"
  /\ Goto(IF ivl[tik] # 0 THEN "emplace" ELSE "next")
  /\ tik' = IF ivl[tik] # 0 THEN tik ELSE UnId
  /\ UNCHANGED <<ent, history>>

(* A periodic timer goes back in the set, whatever happened meanwhile. *)
Emplace ==
  /\ pc = "emplace"
  /\ due' = [due EXCEPT ![tik] = @ + ivl[tik]]
  /\ ent' = ent \cup {tik}
  /\ pc' = "next" /\ tik' = UnId
  /\ UNCHANGED <<now, clientVars, ivl, stahp, rent, shut, history>>

Idle ==
  /\ pc = "idle"
  /\ Goto(IF stahp THEN "outer" ELSE "sleep")
  /\ UNCHANGED <<tik, ent, history>>

(* wait_for(5ms) ends: it is notified, times out, or wakes for no reason. *)
Wake ==
  pc = "sleep" /\ Goto("outer") /\ UNCHANGED <<tik, ent, history>>

Worker == Outer \/ Next0 \/ Take \/ Fire \/ Fired \/ Emplace \/ Idle \/ Wake

------------------------------------------------------------------------------
Next ==
  \/ Tick
  \/ \E t \in 0..MaxTime, d \in Intervals : Start(t, d)
  \/ \E i \in Ids : Stop(i) \/ StopCalls(i)
  \/ Shutdown \/ ShutdownCalls \/ ShutdownJoins
  \/ Worker

Spec == Init /\ [][Next]_vars

(* The clock runs, the worker is scheduled and its callbacks return, and   *)
(* calls that were begun are finished.  Nobody has to call anything.       *)
FairSpec ==
  /\ Spec
  /\ WF_vars(Tick) /\ WF_vars(Worker)
  /\ \A i \in Ids : WF_vars(StopCalls(i))
  /\ WF_vars(ShutdownCalls \/ ShutdownJoins)

------------------------------------------------------------------------------
WorkerPC ==
  {"outer", "next", "take", "fire", "firing", "emplace", "idle", "sleep", "exited"}

TypeOK ==
  /\ now \in Nat
  /\ nid \in Nat \ {UnId}
  /\ ent \subseteq Ids \cap 1..(nid - 1)
  /\ stopping \subseteq Ids /\ rent \subseteq Ids /\ stopped \subseteq Ids
  /\ due \in [Ids -> Nat] /\ ivl \in [Ids -> Nat] /\ first \in [Ids -> Nat]
  /\ fired \in [Ids -> Nat] /\ cancelled \in [Ids -> Nat]
  /\ stahp \in BOOLEAN
  /\ pc \in WorkerPC
  /\ tik \in Ids \cup {UnId}
  /\ shut \in {"no", "calling", "joining", "done"}

(* The callback of a one-off timer is invoked at most once: when its time  *)
(* comes or to cancel it, whichever of the worker, stop() and shutdown()   *)
(* gets to the entry first.                                                *)
OneOffOnce == \A i \in Ids : ivl[i] = 0 => fired[i] + cancelled[i] <= 1

(* Cancellation is the last a callback hears of its timer. *)
CancelIsLast ==
  [][\A i \in Ids : cancelled[i] > 0 =>
        fired'[i] = fired[i] /\ cancelled'[i] = cancelled[i]]_vars

(* The n-th call of a timer does not come before its time, late as the     *)
(* calls before it may have been.                                          *)
NeverEarly ==
  \A i \in Ids : fired[i] > 0 => first[i] + (fired[i] - 1) * ivl[i] <= now

(* Once shutdown() has returned no callback is invoked by the worker, and  *)
(* none is still running.                                                  *)
QuietAfterShutdown ==
  [][shut = "done" => fired' = fired /\ pc \notin {"fire", "firing"}]_vars

(* A timer in the set of a running TickTack is called, in time or to       *)
(* cancel it.                                                              *)
EveryTimerCalled ==
  \A i \in Ids : (i \in ent /\ due[i] <= MaxTime /\ ~stahp)
                   ~> (fired[i] > 0 \/ cancelled[i] > 0)

(* shutdown() returns. *)
ShutdownReturns == stahp ~> shut = "done"

(* ticktack.hpp:73 "Stops the timer": once stop() has returned, the worker *)
(* does not begin another call of that timer.                              *)
StopStops == [][\A i \in stopped : fired'[i] = fired[i]]_vars
==============================================================================
