-------------------------------- MODULE CtrlC --------------------------------
(***************************************************************************)
(* CtrlC (ioctrcl.cpp, Linux): the handler of SIGINT posts a semaphore, a  *)
(* thread that waits for the semaphore completes an outside future and     *)
(* notifies the engine, and un() ends the thread and cancels the future.   *)
(* One client calls on() and un().  That setup() blocks SIGINT in the      *)
(* threads begun after it is left to the client: a signal here is one that *)
(* some thread takes.                                                      *)
(***************************************************************************)
EXTENDS Integers

CONSTANTS MaxOns, MaxSignals  (* bounds for TLC *)

ASSUME CtrlCAssumption == MaxOns \in Nat /\ MaxSignals \in Nat

VARIABLES installed,  (* the handler, which is never removed                *)
          ctrlcEvent, (* the semaphore's count, or Destroyed                *)
          stahp,
          catcher,    (* where the thread is; "none": there is none to join *)
          future,     (* the state of the future of the last on()           *)
          notified,   (* the engine was notified of it                      *)
          heard,      (* a signal has come since that on()                  *)
          un,         (* where the client is in un()                        *)
          ons, signals,
          terminated

signalVars == <<installed, signals, heard>>
catcherVars == <<ctrlcEvent, catcher, stahp>>
futureVars == <<future, notified>>
ctrlcVars == <<signalVars, catcherVars, futureVars, un, ons, terminated>>

Destroyed == -1
Posted == IF ctrlcEvent = Destroyed THEN Destroyed ELSE ctrlcEvent + 1

(* CtrlC_ is a static: its semaphore is zero before it is initialised.     *)
CtrlCInit ==
  /\ installed = FALSE /\ ctrlcEvent = 0 /\ stahp = FALSE /\ catcher = "none"
  /\ future = "none" /\ notified = FALSE /\ heard = FALSE /\ un = "idle"
  /\ ons = 0 /\ signals = 0 /\ terminated = FALSE

------------------------------------------------------------------------------
(* on(): a signal that comes meanwhile is as one ahead of sem_init, or as  *)
(* one after it.                                                           *)
On ==
  /\ un = "idle" /\ catcher = "none" /\ ons < MaxOns
  /\ ons' = ons + 1
  /\ stahp' = FALSE /\ ctrlcEvent' = 0 /\ installed' = TRUE /\ catcher' = "waits"
  /\ future' = "Running" /\ notified' = FALSE /\ heard' = FALSE
  /\ UNCHANGED <<un, signals, terminated>>

(* A second on() assigns to a thread that is to be joined: terminate.      *)
OnAgain ==
  /\ un = "idle" /\ catcher # "none"
  /\ terminated' = TRUE
  /\ UNCHANGED <<signalVars, catcherVars, futureVars, un, ons>>

(* ctrlcHandler(); sem_wait fails if it is the catcher that takes the      *)
(* signal, and the catcher waits again unless it is to stop.               *)
Signal ==
  /\ installed /\ signals < MaxSignals
  /\ signals' = signals + 1
  /\ ctrlcEvent' = Posted
  /\ heard' = (heard \/ ctrlcEvent # Destroyed)
  /\ \/ UNCHANGED catcher
     \/ catcher = "waits" /\ stahp /\ catcher' = "tests"
  /\ UNCHANGED <<installed, stahp, futureVars, un, ons, terminated>>

------------------------------------------------------------------------------
(* The catcher. *)
CatcherWaits ==
  /\ catcher = "waits" /\ ctrlcEvent > 0
  /\ ctrlcEvent' = ctrlcEvent - 1 /\ catcher' = "tests"
  /\ UNCHANGED <<stahp, futureVars>>

CatcherTests ==
  /\ catcher = "tests"
  /\ catcher' = IF stahp THEN "destroys" ELSE "completes"
  /\ UNCHANGED <<ctrlcEvent, stahp, futureVars>>

CatcherCompletes ==
  /\ catcher = "completes" /\ catcher' = "notifies" /\ future' = "Completed"
  /\ UNCHANGED <<ctrlcEvent, stahp, notified>>

CatcherNotifies ==
  /\ catcher = "notifies" /\ catcher' = "waits" /\ notified' = TRUE
  /\ UNCHANGED <<ctrlcEvent, stahp, future>>

CatcherEnds ==
  /\ catcher = "destroys" /\ catcher' = "ended" /\ ctrlcEvent' = Destroyed
  /\ UNCHANGED <<stahp, futureVars>>

Catcher ==
  /\ ~terminated
  /\ CatcherWaits \/ CatcherTests \/ CatcherCompletes \/ CatcherNotifies \/ CatcherEnds
  /\ UNCHANGED <<signalVars, un, ons, terminated>>

------------------------------------------------------------------------------
(* un(), which may come without on(); the guard on the count is a bound.   *)
Un ==
  /\ un = "idle" /\ ctrlcEvent <= MaxSignals /\ un' = "posts" /\ stahp' = TRUE
  /\ UNCHANGED <<signalVars, ctrlcEvent, catcher, futureVars, ons, terminated>>

UnPosts ==
  /\ un = "posts" /\ un' = IF future = "none" THEN "joins" ELSE "expired"
  /\ ctrlcEvent' = Posted
  /\ UNCHANGED <<catcher, futureVars, terminated>>

(* notif.expired(): the catcher, as long as it runs, holds the future;     *)
(* after that the client or the engine may.                                *)
Held == catcher \notin {"none", "ended"}

UnExpired ==
  /\ un = "expired"
  /\ \/ un' = "cancels"
     \/ ~Held /\ un' = "joins"
  /\ UNCHANGED <<ctrlcEvent, catcher, futureVars, terminated>>

(* notif.lock() may be null by now.                                        *)
UnCancels ==
  /\ un = "cancels"
  /\ \/ future' = "Cancelled" /\ un' = "notifies" /\ UNCHANGED terminated
     \/ ~Held /\ terminated' = TRUE /\ UNCHANGED <<future, un>>
  /\ UNCHANGED <<ctrlcEvent, catcher, notified>>

UnNotifies ==
  /\ un = "notifies" /\ un' = "joins" /\ notified' = TRUE
  /\ UNCHANGED <<ctrlcEvent, catcher, future, terminated>>

UnJoins ==
  /\ un = "joins" /\ ~Held /\ un' = "idle" /\ catcher' = "none"
  /\ UNCHANGED <<ctrlcEvent, futureVars, terminated>>

UnStep ==
  /\ ~terminated
  /\ UnPosts \/ UnExpired \/ UnCancels \/ UnNotifies \/ UnJoins
  /\ UNCHANGED <<signalVars, stahp, ons>>

CtrlCClient == ~terminated /\ (On \/ OnAgain \/ Un \/ Signal)
==============================================================================
