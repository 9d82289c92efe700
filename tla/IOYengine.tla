----------------------------- MODULE IOYengine ------------------------------
(***************************************************************************)
(* The IO engine (io.cpp, Linux) and what its resources have in common: an *)
(* epoll set that a descriptor is armed in for one event, the IO thread    *)
(* that takes events from it, the outside future engif through which the   *)
(* IO thread, and the client that cancels or shuts down, tell the          *)
(* resource's generator, one worker of the engine that resumes this        *)
(* generator (Check, Add and Drop of module Yengine), and the tickets      *)
(* that wioe() waits for.  The modules FileResource, ListeningSocket and   *)
(* ConnectingSocket extend this one with what their generators do.         *)
(*                                                                         *)
(* completed() writes the result and then the state of engif, running()    *)
(* writes the state and then takes the result, without a lock: the steps   *)
(* are actions of their own.                                               *)
(***************************************************************************)
EXTENDS Integers, Sequences, FiniteSets

CONSTANT MaxCancels  (* how often the client cancels or shuts down: a bound *)

ASSUME CancelAssumption == MaxCancels \in Nat

VARIABLES epoll,     (* the descriptor: "unknown" to epoll, "idle", or the  *)
                     (* event it is armed for, "IN" or "OUT"                *)
          engif,     (* completed or running, and the result                *)
          notifier,  (* where the IO thread and the client are in notify()  *)
          cancels,   (* how often cancel() or shutdown() was called         *)
          posted,    (* engine: how often engif is in the work queue        *)
          phase,     (* where the resource's generator is: see Phases       *)
          live,      (* the resource exists and has its ticket              *)
          tickets,
          wioe,      (* the thread that has called wioe()                   *)
          crashed

lifeVars == <<cancels, live, tickets, wioe, crashed>>
ioVars == <<epoll, engif, notifier, posted, phase, lifeVars>>

(* "none": nothing is launched; "resume", "test", "take" and "loop": in    *)
(* resume(); "check": in threado(), with engif as what it returned;        *)
(* "parked": awaiting engif; "returned": it has yielded.                   *)
Phases == {"none", "resume", "test", "take", "loop", "check", "parked", "returned"}

WorkerFree == phase \in {"none", "parked", "returned"}

(* The resource has just been made, and armed for an event or not; main()  *)
(* waits in wioe().                                                        *)
IOInit(armed) ==
  /\ epoll = armed /\ engif = [completed |-> FALSE, r |-> {}]
  /\ notifier = [t \in {"io", "client"} |-> [at |-> "out", event |-> {}]]
  /\ cancels = 0 /\ posted = 0 /\ phase = "none"
  /\ live = TRUE /\ tickets = 1 /\ wioe = "waits" /\ crashed = FALSE

------------------------------------------------------------------------------
(* notify() of a resource, called by t with an event: engif->completed(),  *)
(* which is two writes, and engine->notify(engif).                         *)
NotifyCall(t, e) ==
  /\ notifier[t].at = "out"
  /\ notifier' = [notifier EXCEPT ![t] = [at |-> "result", event |-> e]]

SetResult(t) ==
  /\ notifier[t].at = "result"
  /\ notifier' = [notifier EXCEPT ![t].at = "state"]
  /\ engif' = [engif EXCEPT !.r = notifier[t].event]
  /\ UNCHANGED <<epoll, posted, phase, lifeVars>>

SetCompleted(t) ==
  /\ notifier[t].at = "state"
  /\ notifier' = [notifier EXCEPT ![t].at = "post"]
  /\ engif' = [engif EXCEPT !.completed = TRUE]
  /\ UNCHANGED <<epoll, posted, phase, lifeVars>>

(* The engine is reached through the resource: through one that is gone,   *)
(* or has released its ticket, it is not.                                  *)
Post(t) ==
  /\ notifier[t].at = "post"
  /\ notifier' = [notifier EXCEPT ![t].at = "out"]
  /\ IF live THEN posted' = posted + 1 /\ UNCHANGED crashed
             ELSE crashed' = TRUE /\ UNCHANGED posted
  /\ UNCHANGED <<epoll, engif, phase, cancels, live, tickets, wioe>>

Notify(t) == SetResult(t) \/ SetCompleted(t) \/ Post(t)

(* cancel() or shutdown().                                                 *)
ClientNotifies(e) ==
  /\ cancels < MaxCancels /\ cancels' = cancels + 1
  /\ NotifyCall("client", e)
  /\ UNCHANGED <<epoll, engif, posted, phase, live, tickets, wioe, crashed>>

(* iothreadwork(): the descriptor is ready, and is disarmed; the resource  *)
(* makes event e of it.                                                    *)
EpollWait(ready, e) ==
  /\ epoll \in {"IN", "OUT"} /\ ready # {} /\ wioe # "returned"
  /\ NotifyCall("io", e)
  /\ epoll' = "idle"
  /\ UNCHANGED <<engif, posted, phase, lifeVars>>

(* The closing pipe hangs up when wioe() resets cfdStopSend.               *)
IOThreadEnds ==
  /\ notifier["io"].at = "out" /\ wioe = "stops"
  /\ wioe' = "returned"
  /\ UNCHANGED <<epoll, engif, notifier, posted, phase, cancels, live, tickets, crashed>>

------------------------------------------------------------------------------
(* Tickets.  release() of the last one wakes wioe().                       *)
ReleaseQuietly(n) == tickets' = tickets - n /\ UNCHANGED wioe  (* faulty *)

ReleaseWakes(n) == tickets' = tickets - n /\ wioe' = "stops"  (* faulty *)

Release(n) ==
  /\ tickets' = tickets - n
  /\ wioe' = IF tickets' = 0 THEN "stops" ELSE wioe

Ticket == tickets' = tickets + 1 /\ UNCHANGED wioe

(* The resource is destroyed, or closes: its descriptor leaves epoll.      *)
Close == live' = FALSE /\ epoll' = "unknown" /\ Release(1)

------------------------------------------------------------------------------
(* The engine's worker. *)
Goes(to) == phase' = to /\ UNCHANGED <<notifier, posted, lifeVars>>

(* What is posted between the check of engif and notifiAdd waits for this  *)
(* worker, the only one: the two are one step.                             *)
Check ==
  /\ phase = "check"
  /\ Goes(IF engif.completed THEN "resume" ELSE "parked")
  /\ UNCHANGED <<epoll, engif>>

(* A notification of engif: it resumes the generator if engif is completed.*)
Drop ==
  /\ posted > 0 /\ WorkerFree
  /\ posted' = posted - 1
  /\ phase' = IF phase = "parked" /\ engif.completed THEN "resume" ELSE phase
  /\ UNCHANGED <<epoll, engif, notifier, lifeVars>>

(* engif->running(), first half: the state; the result is taken next.      *)
RunningKeeps ==  (* faulty: engif stays completed *)
  engif.completed /\ Goes("take") /\ UNCHANGED <<epoll, engif>>

Running ==
  /\ engif.completed /\ Goes("take")
  /\ engif' = [engif EXCEPT !.completed = FALSE]
  /\ UNCHANGED epoll

(* EPOLL_CTL_ADD, or EPOLL_CTL_MOD of a descriptor that epoll knows; then  *)
(* engif is returned.                                                      *)
Arm(event) ==
  /\ epoll' = event /\ Goes("check")
  /\ UNCHANGED engif

EngineStep == Check \/ Drop
==============================================================================
