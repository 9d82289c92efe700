--------------------------- MODULE ThreadSafeQueue ---------------------------
(***************************************************************************)
(* The work queue of the engine (threadsafequeue.hpp): an unbounded list   *)
(* behind one mutex, a condition variable cvPop on which poppers sleep,    *)
(* and a count popw of the threads inside pop() by which the engine tells  *)
(* whether its workers are idle.                                           *)
(*                                                                         *)
(* Every critical section of `mutex` is one action.  A thread that sleeps  *)
(* on cvPop and the same thread once it is notified but has not yet got    *)
(* the mutex back are two different states ("waiting" and "woken"):        *)
(* between them other threads may push, pop, close or count the idle.      *)
(***************************************************************************)
EXTENDS Naturals, Sequences, FiniteSets

CONSTANTS Poppers,    (* the threads that call pop() in a loop              *)
          Items,      (* what is pushed                                     *)
          ThresIdle,  (* thresIdle: so many threads in pop() signal cvIdle  *)
          MaxList     (* bound on the length of the list, for TLC only      *)

ASSUME PoppersAssumption == IsFiniteSet(Poppers) /\ Poppers # {}
ASSUME BoundAssumption == MaxList \in Nat /\ ThresIdle \in Nat

VARIABLES list,         (* the queued items                                 *)
          currentSize,  (* the size, counted beside the list                *)
          popw,         (* the number of threads inside pop()               *)
          closed,
          popper        (* where each popper is: see PopperState            *)

queueVars == <<list, currentSize, popw, closed, popper>>

(* "out": not in pop(), handling what it popped; "waiting": asleep on      *)
(* cvPop; "woken": notified, still to reacquire the mutex; "left": pop()   *)
(* returned nullopt and the loop of the thread ended.                      *)
PopperState == {"out", "waiting", "woken", "left"}

Waiting == {c \in Poppers : popper[c] = "waiting"}
InPop == {c \in Poppers : popper[c] \in {"waiting", "woken"}}

QueueInit ==
  /\ list = <<>>
  /\ currentSize = 0
  /\ popw = 0
  /\ closed = FALSE
  /\ popper = [c \in Poppers |-> "out"]

currentIdle == popw

(* cvPop.notify_one(): lost when nobody sleeps there. *)
NotifyOnePopper ==
  IF Waiting = {}
    THEN UNCHANGED popper
    ELSE \E c \in Waiting : popper' = [popper EXCEPT ![c] = "woken"]

(* Faulty: the test for the transition from empty comes before the count.  *)
PushTestsFirst(v) ==
  /\ list' = Append(list, v)
  /\ currentSize' = currentSize + 1
  /\ IF currentSize = 1 THEN NotifyOnePopper ELSE UNCHANGED popper
  /\ UNCHANGED <<popw, closed>>

(* A popper is notified only by the push that finds the list empty. *)
Push(v) ==
  /\ list' = Append(list, v)
  /\ currentSize' = currentSize + 1
  /\ IF currentSize' = 1 THEN NotifyOnePopper ELSE UNCHANGED popper
  /\ UNCHANGED <<popw, closed>>

(* A thread that has the mutex inside pop(): it enters, or wakes up.       *)
AtTest(c) == popper[c] \in {"out", "woken"}

(* popw as pop() has it once the thread is inside. *)
popwInside(c) == IF popper[c] = "out" THEN popw + 1 ELSE popw

(* cvIdle is notified just before sleeping when enough threads are inside. *)
SignalsIdle(c) == ThresIdle > 0 /\ popwInside(c) >= ThresIdle

PopWait(c) ==
  /\ AtTest(c)
  /\ list = <<>> /\ ~closed
  /\ popw' = popwInside(c)
  /\ popper' = [popper EXCEPT ![c] = "waiting"]
  /\ UNCHANGED <<list, currentSize, closed>>

PopTakeStillInside(c) ==  (* faulty: popw-- forgotten *)
  /\ AtTest(c)
  /\ list # <<>> /\ ~closed
  /\ list' = Tail(list)
  /\ currentSize' = currentSize - 1
  /\ popw' = popwInside(c)
  /\ popper' = [popper EXCEPT ![c] = "out"]
  /\ UNCHANGED closed

PopTakeUnguarded(c) ==  (* faulty: an empty list is not waited for *)
  /\ AtTest(c)
  /\ ~closed
  /\ list' = IF list = <<>> THEN <<>> ELSE Tail(list)
  /\ currentSize' = currentSize - 1
  /\ popw' = popwInside(c) - 1
  /\ popper' = [popper EXCEPT ![c] = "out"]
  /\ UNCHANGED closed

(* The item taken is Head(list). *)
PopTake(c) ==
  /\ AtTest(c)
  /\ list # <<>> /\ ~closed
  /\ list' = Tail(list)
  /\ currentSize' = currentSize - 1
  /\ popw' = popwInside(c) - 1
  /\ popper' = [popper EXCEPT ![c] = "out"]
  /\ UNCHANGED closed

(* pop() returns nullopt as soon as it sees closed, items or not. *)
PopClosed(c) ==
  /\ AtTest(c)
  /\ closed
  /\ popw' = popwInside(c) - 1
  /\ popper' = [popper EXCEPT ![c] = "left"]
  /\ UNCHANGED <<list, currentSize, closed>>

(* std::condition_variable::wait may return without a notification. *)
SpuriousWakeup(c) ==
  /\ popper[c] = "waiting"
  /\ popper' = [popper EXCEPT ![c] = "woken"]
  /\ UNCHANGED <<list, currentSize, popw, closed>>

(* Faulty: nobody is notified. *)
CloseQuietly ==
  /\ ~closed
  /\ closed' = TRUE
  /\ UNCHANGED <<list, currentSize, popw, popper>>

(* closed = true and cvPop.notify_all(). *)
Close ==
  /\ ~closed
  /\ closed' = TRUE
  /\ popper' = [c \in Poppers |->
                  IF popper[c] = "waiting" THEN "woken" ELSE popper[c]]
  /\ UNCHANGED <<list, currentSize, popw>>

Pop(c) == PopWait(c) \/ PopTake(c) \/ PopClosed(c)

QueueNext ==
  \/ \E v \in Items : Len(list) < MaxList /\ Push(v)
  \/ \E c \in Poppers : Pop(c) \/ SpuriousWakeup(c)
  \/ Close

QueueSpec == QueueInit /\ [][QueueNext]_queueVars

(* Threads are scheduled fairly and what they pop is handled in finite     *)
(* time: every popper comes back to pop() and gets the mutex.              *)
FairQueueSpec == QueueSpec /\ \A c \in Poppers : WF_queueVars(Pop(c))

------------------------------------------------------------------------------
QueueTypeOK ==
  /\ list \in Seq(Items)
  /\ currentSize \in Nat
  /\ popw \in Nat
  /\ closed \in BOOLEAN
  /\ popper \in [Poppers -> PopperState]

(* The counters kept beside the data are exact whenever the mutex is free: *)
(* currentSize, on which push() decides whether to wake a popper, and      *)
(* popw, on which the engine decides whether its workers are idle.         *)
CountersExact ==
  /\ currentSize = Len(list)
  /\ popw = Cardinality(InPop)

(* Queued work never waits while every popper sleeps: although push() only *)
(* notifies on the transition from empty, some thread is still awake that  *)
(* will test the list again before it sleeps.                              *)
NoStrandedItem ==
  list # <<>> /\ ~closed => \E c \in Poppers : popper[c] \in {"out", "woken"}

(* No popper sleeps through close(): a thread cannot go to sleep on cvPop  *)
(* after the notify_all that would have released it.                       *)
NoSleeperAfterClose == closed => Waiting = {}

(* An open queue that holds items is popped from again and again. *)
ItemsKeepFlowing ==
  []<>(list = <<>> \/ closed) \/ []<><<\E c \in Poppers : PopTake(c)>>_queueVars

(* close() ends the loop of every popper, so that joining them returns. *)
CloseReleasesAll == closed ~> \A c \in Poppers : popper[c] = "left"
==============================================================================
