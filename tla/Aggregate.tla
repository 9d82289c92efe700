------------------------------ MODULE Aggregate ------------------------------
(***************************************************************************)
(* AggregateFuture<void> and blawait<void> (impls.hpp, impls.cpp) over the *)
(* engine: add() submits a generator that awaits a member and whose lambda *)
(* counts it, the lambda that counts the last one notifies the engine of   *)
(* the aggregate, and blawait() submits a generator that awaits it and     *)
(* whose lambda wakes the blocked thread.  Each call of add(), and         *)
(* blawait(), is made by a thread of its own, in any order.                *)
(*                                                                         *)
(* The lambdas run while the engine resumes their generators: between      *)
(* ResumeOp and Publish of module Yengine.  wle() is not called.           *)
(***************************************************************************)
EXTENDS Yengine

CONSTANTS Members,  (* the generators f >> lambda that add() submits        *)
          agg,      (* the aggregate                                        *)
          blocked   (* the generator that blawait() submits                 *)

ASSUME AggregateAssumption ==
  /\ Members \subseteq Roots /\ Members # {} /\ IsFiniteSet(Members)
  /\ agg \in Outs /\ blocked \in Roots \ Members /\ Awa[blocked] = agg

VARIABLES bal,
          synch,     (* the worker whose lambda holds the lock, or None     *)
          added,     (* the members that add() has counted in ...           *)
          counted,   (* ... and those that a lambda has counted out         *)
          told,      (* t of blawait()                                      *)
          blocker,   (* where the thread in blawait() is                    *)
          before     (* the members that were added before it called        *)

aggVars == <<bal, synch, added, counted>>
blockVars == <<told, blocker, before>>
aggregateVars == <<vars, aggVars, blockVars>>

(* An aggregate of nothing is Completed: its balance is 0.                 *)
AggregateInit ==
  /\ EngineInit
  /\ state = [f \in Futures |-> IF f = agg THEN "Completed"
                                 ELSE IF f \in Gens THEN "Suspended" ELSE "Running"]
  /\ bal = 0 /\ added = {} /\ synch = None /\ counted = {}
  /\ told = FALSE /\ blocker = "before" /\ before = {}

------------------------------------------------------------------------------
(* add(): bal++, by which the aggregate is Running (again) ... *)
AddCounts(m) ==
  /\ m \in Members \ added /\ synch = None
  /\ added' = added \cup {m} /\ bal' = bal + 1
  /\ state' = [state EXCEPT ![agg] = "Running"]
  /\ UNCHANGED <<queueVars, gen, left, notifications, workerVars, calls, wle, synch, counted,
                 blockVars>>

(* ... and f >> lambda is submitted. *)
AddSubmits(m) ==
  /\ m \in added \ counted /\ state[m] = "Suspended" /\ Execute(m)
  /\ UNCHANGED <<aggVars, blockVars>>

(* Faulty: off by one. *)
CountsEarly(w) ==
  LET m == task[w] IN
  /\ pc[w] = "publish" /\ m \in Members \ counted /\ synch = None
  /\ counted' = counted \cup {m} /\ bal' = bal - 1
  /\ IF bal' <= 1
       THEN /\ state' = [state EXCEPT ![agg] = "Completed"]
            /\ calls' = calls \cup {agg} /\ synch' = w
       ELSE UNCHANGED <<state, calls, synch>>
  /\ UNCHANGED <<queueVars, gen, left, notifications, workerVars, wle, added, blockVars>>

(* Faulty: the engine is not notified. *)
CountsQuietly(w) ==
  LET m == task[w] IN
  /\ pc[w] = "publish" /\ m \in Members \ counted /\ synch = None
  /\ counted' = counted \cup {m} /\ bal' = bal - 1
  /\ state' = IF bal' = 0 THEN [state EXCEPT ![agg] = "Completed"] ELSE state
  /\ UNCHANGED <<queueVars, gen, left, notifications, workerVars, calls, wle, synch, added,
                 blockVars>>

(* The lambda of add(), which keeps the lock until it has notified.        *)
Counts(w) ==
  LET m == task[w] IN
  /\ pc[w] = "publish" /\ m \in Members \ counted /\ synch = None
  /\ counted' = counted \cup {m} /\ bal' = bal - 1
  /\ IF bal' = 0
       THEN /\ state' = [state EXCEPT ![agg] = "Completed"]
            /\ calls' = calls \cup {agg} /\ synch' = w
       ELSE UNCHANGED <<state, calls, synch>>
  /\ UNCHANGED <<queueVars, gen, left, notifications, workerVars, wle, added, blockVars>>

------------------------------------------------------------------------------
(* blawait() submits its generator ... *)
Blawait ==
  /\ blocker = "before" /\ Execute(blocked)
  /\ blocker' = "locks" /\ before' = added
  /\ UNCHANGED <<aggVars, told>>

(* ... and waits until its lambda was called. *)
BlawaitTests ==
  /\ blocker \in {"locks", "woken"} /\ blocked \notin calls
  /\ blocker' = IF told THEN "returned" ELSE "sleeps"
  /\ UNCHANGED <<vars, aggVars, told, before>>

BlawaitSpurious ==
  /\ blocker = "sleeps" /\ blocker' = "woken"
  /\ UNCHANGED <<vars, aggVars, told, before>>

(* Its lambda. *)
Tells(w) ==
  /\ pc[w] = "publish" /\ task[w] = blocked /\ ~told
  /\ told' = TRUE
  /\ blocker' = IF blocker = "sleeps" THEN "woken" ELSE blocker
  /\ UNCHANGED <<vars, aggVars, before>>

------------------------------------------------------------------------------
(* resume() has returned when the lambda has. *)
LambdaDone(w) ==
  /\ task[w] \in Members => task[w] \in counted /\ synch # w
  /\ task[w] = blocked => told

AggregateWork(w) ==
  \/ Counts(w)
  \/ Tells(w)
  \/ /\ Work(w) /\ (pc[w] = "publish" => LambdaDone(w))
     /\ UNCHANGED <<aggVars, blockVars>>

AggregatePush(f) ==
  /\ PushCall(f)
  /\ synch' = IF f = agg THEN None ELSE synch
  /\ UNCHANGED <<bal, added, counted, blockVars>>

MemberSettles(o) ==
  /\ o # agg /\ (Completed(o) \/ Cancelled(o))
  /\ UNCHANGED <<aggVars, blockVars>>

AggregateNext ==
  \/ \E m \in Members : AddCounts(m) \/ AddSubmits(m)
  \/ Blawait \/ BlawaitTests \/ BlawaitSpurious
  \/ \E w \in Workers : AggregateWork(w)
  \/ \E w \in Workers : WorkerSpurious(w) /\ UNCHANGED <<aggVars, blockVars>>
  \/ \E f \in Futures : AggregatePush(f)
  \/ \E o \in Outs : MemberSettles(o)

AggregateSpec == AggregateInit /\ [][AggregateNext]_aggregateVars

(* As in module Yengine; an add() that has counted in submits, and the     *)
(* thread in blawait() is scheduled.                                       *)
FairAggregateSpec ==
  /\ AggregateSpec
  /\ \A w \in Workers : SF_aggregateVars(AggregateWork(w))
  /\ \A f \in Futures : WF_aggregateVars(AggregatePush(f))
  /\ \A o \in Outs : WF_aggregateVars(MemberSettles(o))
  /\ \A m \in Members : WF_aggregateVars(AddSubmits(m))
  /\ WF_aggregateVars(BlawaitTests)

------------------------------------------------------------------------------
(* impls.hpp:133 "Blocks current thread until completion of a future": of  *)
(* an aggregate, blawait() returns after every member that was added       *)
(* before the call, whatever is added meanwhile, and although the engine   *)
(* may have been notified of an aggregate that is Running again.           *)
BlawaitWaitsForAll == blocker = "returned" => before \subseteq counted

(* ... and it returns, unless a member is cancelled.                       *)
BlawaitReturns ==
  blocker = "locks" ~> blocker = "returned" \/ \E o \in Outs : state[o] = "Cancelled"
==============================================================================
