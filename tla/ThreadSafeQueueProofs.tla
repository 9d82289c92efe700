------------------------ MODULE ThreadSafeQueueProofs ------------------------
(***************************************************************************)
(* Safety of the work queue, for any finite set of poppers, any items and  *)
(* any bound on the list.                                                  *)
(*                                                                         *)
(* The invariants lean on each other.  currentSize stays a natural number  *)
(* because it is the length of the list; a push that finds the list empty  *)
(* sees currentSize = 0 and so notifies; and if nobody sleeps then, some   *)
(* popper is awake because no popper leaves before the queue is closed.    *)
(***************************************************************************)
EXTENDS ThreadSafeQueue, FiniteSetTheorems, TLAPS

LeftOnlyWhenClosed == ~closed => \A c \in Poppers : popper[c] # "left"

QueueInv ==
  /\ QueueTypeOK
  /\ CountersExact
  /\ NoStrandedItem
  /\ NoSleeperAfterClose
  /\ LeftOnlyWhenClosed

------------------------------------------------------------------------------
(* The set of threads inside pop() is finite, so popw can count it. *)
LEMMA InPopFinite == IsFiniteSet(InPop) /\ Cardinality(InPop) \in Nat
  <1>1. InPop \subseteq Poppers
    BY DEF InPop
  <1> QED BY <1>1, PoppersAssumption, FS_Subset, FS_CardinalityType

(* A thread at the test of pop(), once inside, is counted exactly once:    *)
(* popwInside is the size of InPop with that thread, popwInside - 1        *)
(* without it.                                                             *)
LEMMA InsideCount ==
  ASSUME NEW c \in Poppers, AtTest(c), popw = Cardinality(InPop)
  PROVE  /\ popwInside(c) \in Nat
         /\ popwInside(c) = Cardinality(InPop \cup {c})
         /\ popwInside(c) - 1 = Cardinality(InPop \ {c})
         /\ popwInside(c) - 1 \in Nat
  <1>1. CASE popper[c] = "out"
    <2>1. c \notin InPop /\ InPop \ {c} = InPop
      BY <1>1 DEF InPop
    <2>2. Cardinality(InPop \cup {c}) = Cardinality(InPop) + 1
      BY <2>1, InPopFinite, FS_AddElement
    <2>3. popwInside(c) = popw + 1
      BY <1>1 DEF popwInside
    <2>4. popwInside(c) - 1 = Cardinality(InPop) /\ popwInside(c) \in Nat
      BY <2>3, InPopFinite
    <2> QED BY <2>1, <2>2, <2>3, <2>4, InPopFinite
  <1>2. CASE popper[c] = "woken"
    <2>1. c \in InPop /\ InPop \cup {c} = InPop
      BY <1>2 DEF InPop
    <2>2. Cardinality(InPop \ {c}) = Cardinality(InPop) - 1
      BY <2>1, InPopFinite, FS_RemoveElement
    <2>3. Cardinality(InPop \ {c}) \in Nat
      BY InPopFinite, FS_RemoveElement, FS_CardinalityType
    <2>4. popwInside(c) = Cardinality(InPop)
      BY <1>2 DEF popwInside
    <2> QED BY <2>1, <2>2, <2>3, <2>4, InPopFinite
  <1> QED BY <1>1, <1>2 DEF AtTest

(* The queue starts in the invariant. *)
LEMMA QueueInitInv == QueueInit => QueueInv
  <1> SUFFICES ASSUME QueueInit PROVE QueueInv
    OBVIOUS
  <1> USE DEF QueueInit
  <1>1. QueueTypeOK
    <2>1. list \in Seq(Items)
      OBVIOUS
    <2>2. closed \in BOOLEAN
      OBVIOUS
    <2>3. currentSize \in Nat /\ popw \in Nat /\ popper \in [Poppers -> PopperState]
      BY DEF PopperState
    <2> QED BY <2>1, <2>2, <2>3 DEF QueueTypeOK
  <1>2. CountersExact
    <2>1. InPop = {}
      BY DEF InPop
    <2> QED BY <2>1, FS_EmptySet DEF CountersExact
  <1>3. NoStrandedItem /\ NoSleeperAfterClose /\ LeftOnlyWhenClosed
    BY DEF NoStrandedItem, NoSleeperAfterClose, LeftOnlyWhenClosed
  <1> QED BY <1>1, <1>2, <1>3 DEF QueueInv

------------------------------------------------------------------------------
(* notify_one turns one sleeper, if there is one, into a woken thread, and *)
(* neither takes a thread out of pop() nor puts one in.                    *)
LEMMA NotifyOne ==
  ASSUME QueueTypeOK, NotifyOnePopper
  PROVE  /\ popper' \in [Poppers -> PopperState]
         /\ InPop' = InPop
         /\ Waiting' \subseteq Waiting
         /\ \A c \in Poppers : popper[c] = "left" <=> popper'[c] = "left"
         /\ Waiting # {} => \E c \in Poppers : popper'[c] = "woken"
  <1>1. CASE Waiting = {}
    BY <1>1 DEF NotifyOnePopper, QueueTypeOK, InPop, Waiting
  <1>2. CASE Waiting # {}
    <2>1. PICK c \in Waiting : popper' = [popper EXCEPT ![c] = "woken"]
      BY <1>2 DEF NotifyOnePopper
    <2>2. c \in Poppers /\ popper[c] = "waiting" /\ popper'[c] = "woken"
      BY <2>1 DEF Waiting, QueueTypeOK
    <2> QED BY <2>1, <2>2 DEF QueueTypeOK, PopperState, InPop, Waiting
  <1> QED BY <1>1, <1>2

(* push() preserves the invariant. *)
LEMMA PushInv ==
  ASSUME QueueInv, NEW v \in Items, Push(v)
  PROVE  QueueInv'
  <1> USE DEF QueueInv
  <1>1. /\ list' = Append(list, v) /\ list' \in Seq(Items)
        /\ Len(list') = Len(list) + 1 /\ list' # <<>>
    BY DEF Push, QueueTypeOK
  <1>2. /\ popper' \in [Poppers -> PopperState]
        /\ InPop' = InPop
        /\ Waiting' \subseteq Waiting
        /\ \A c \in Poppers : popper[c] = "left" <=> popper'[c] = "left"
    <2>1. CASE currentSize' = 1
      BY <2>1, NotifyOne DEF Push
    <2>2. CASE currentSize' # 1
      BY <2>2 DEF Push, QueueTypeOK, InPop, Waiting
    <2> QED BY <2>1, <2>2
  <1>3. QueueTypeOK'
    <2>1. closed' \in BOOLEAN
      BY DEF Push, QueueTypeOK
    <2>2. currentSize' \in Nat /\ popw' \in Nat
      BY DEF Push, QueueTypeOK
    <2> QED BY <1>1, <1>2, <2>1, <2>2 DEF QueueTypeOK
  <1>4. CountersExact'
    BY <1>1, <1>2 DEF Push, CountersExact, QueueTypeOK
  <1>5. NoStrandedItem'
    <2> SUFFICES ASSUME ~closed
                 PROVE  \E c \in Poppers : popper'[c] \in {"out", "woken"}
      BY DEF NoStrandedItem, Push
    <2>1. CASE list = <<>>
      <3>1. currentSize' = 1 /\ NotifyOnePopper
        BY <2>1 DEF Push, CountersExact
      <3>2. CASE Waiting # {}
        BY <3>1, <3>2, NotifyOne
      <3>3. CASE Waiting = {}
        <4>1. PICK c \in Poppers : TRUE
          BY PoppersAssumption
        <4>2. popper[c] \in {"out", "woken"}
          BY <3>3, <4>1 DEF Waiting, LeftOnlyWhenClosed, QueueTypeOK, PopperState
        <4> QED BY <3>1, <3>3, <4>2 DEF NotifyOnePopper
      <3> QED BY <3>2, <3>3
    <2>2. CASE list # <<>>
      <3>1. currentSize' # 1
        BY <2>2 DEF Push, CountersExact, QueueTypeOK
      <3> QED BY <2>2, <3>1 DEF Push, NoStrandedItem
    <2> QED BY <2>1, <2>2
  <1>6. NoSleeperAfterClose'
    BY <1>2 DEF NoSleeperAfterClose, Push
  <1>7. LeftOnlyWhenClosed'
    BY <1>2 DEF LeftOnlyWhenClosed, Push
  <1> QED BY <1>3, <1>4, <1>5, <1>6, <1>7

(* A thread that finds the list empty goes to sleep in the invariant. *)
LEMMA PopWaitInv ==
  ASSUME QueueInv, NEW c \in Poppers, PopWait(c)
  PROVE  QueueInv'
  <1> USE DEF QueueInv
  <1>1. popw' \in Nat /\ popw' = Cardinality(InPop \cup {c})
    BY InsideCount DEF PopWait, CountersExact
  <1>2. popper' \in [Poppers -> PopperState] /\ InPop' = InPop \cup {c}
    BY DEF PopWait, AtTest, QueueTypeOK, PopperState, InPop
  <1>3. QueueTypeOK'
    <2>1. list' \in Seq(Items) /\ currentSize' \in Nat
      BY DEF PopWait, QueueTypeOK
    <2>2. closed' \in BOOLEAN
      BY DEF PopWait, QueueTypeOK
    <2> QED BY <1>1, <1>2, <2>1, <2>2 DEF QueueTypeOK
  <1>4. CountersExact'
    BY <1>1, <1>2 DEF PopWait, CountersExact
  <1>5. NoStrandedItem' /\ NoSleeperAfterClose'
    BY DEF PopWait, NoStrandedItem, NoSleeperAfterClose
  <1>6. LeftOnlyWhenClosed'
    BY DEF PopWait, LeftOnlyWhenClosed, QueueTypeOK
  <1> QED BY <1>3, <1>4, <1>5, <1>6

(* A thread that takes an item leaves pop() in the invariant. *)
LEMMA PopTakeInv ==
  ASSUME QueueInv, NEW c \in Poppers, PopTake(c)
  PROVE  QueueInv'
  <1> USE DEF QueueInv
  <1>1. popw' \in Nat /\ popw' = Cardinality(InPop \ {c})
    BY InsideCount DEF PopTake, CountersExact
  <1>2. popper' \in [Poppers -> PopperState] /\ InPop' = InPop \ {c} /\ popper'[c] = "out"
    BY DEF PopTake, AtTest, QueueTypeOK, PopperState, InPop
  <1>3. /\ list' \in Seq(Items) /\ Len(list') = Len(list) - 1
        /\ Len(list') \in Nat
    BY DEF PopTake, QueueTypeOK
  <1>4. CountersExact'
    BY <1>1, <1>2, <1>3 DEF PopTake, CountersExact
  <1>5. QueueTypeOK'
    <2>1. closed' \in BOOLEAN
      BY DEF PopTake, QueueTypeOK
    <2> QED BY <1>1, <1>2, <1>3, <1>4, <2>1 DEF QueueTypeOK, CountersExact
  <1>6. NoStrandedItem' /\ NoSleeperAfterClose'
    BY <1>2 DEF PopTake, NoStrandedItem, NoSleeperAfterClose
  <1>7. LeftOnlyWhenClosed'
    BY DEF PopTake, LeftOnlyWhenClosed, QueueTypeOK
  <1> QED BY <1>4, <1>5, <1>6, <1>7

(* A thread that finds the queue closed leaves in the invariant. *)
LEMMA PopClosedInv ==
  ASSUME QueueInv, NEW c \in Poppers, PopClosed(c)
  PROVE  QueueInv'
  <1> USE DEF QueueInv
  <1>1. popw' \in Nat /\ popw' = Cardinality(InPop \ {c})
    BY InsideCount DEF PopClosed, CountersExact
  <1>2. /\ popper' \in [Poppers -> PopperState] /\ InPop' = InPop \ {c}
        /\ Waiting' = Waiting
    BY DEF PopClosed, AtTest, QueueTypeOK, PopperState, InPop, Waiting
  <1>3. QueueTypeOK'
    <2>1. list' \in Seq(Items) /\ currentSize' \in Nat
      BY DEF PopClosed, QueueTypeOK
    <2>2. closed' \in BOOLEAN
      BY DEF PopClosed, QueueTypeOK
    <2> QED BY <1>1, <1>2, <2>1, <2>2 DEF QueueTypeOK
  <1>4. CountersExact'
    BY <1>1, <1>2 DEF PopClosed, CountersExact
  <1>5. NoStrandedItem' /\ NoSleeperAfterClose' /\ LeftOnlyWhenClosed'
    BY <1>2 DEF PopClosed, NoStrandedItem, NoSleeperAfterClose, LeftOnlyWhenClosed
  <1> QED BY <1>3, <1>4, <1>5

(* A wakeup without notification preserves the invariant. *)
LEMMA SpuriousInv ==
  ASSUME QueueInv, NEW c \in Poppers, SpuriousWakeup(c)
  PROVE  QueueInv'
  <1> USE DEF QueueInv
  <1>1. /\ popper' \in [Poppers -> PopperState] /\ InPop' = InPop
        /\ Waiting' \subseteq Waiting /\ popper'[c] = "woken"
    BY DEF SpuriousWakeup, QueueTypeOK, PopperState, InPop, Waiting
  <1>2. QueueTypeOK'
    <2>1. list' \in Seq(Items) /\ currentSize' \in Nat /\ popw' \in Nat
      BY DEF SpuriousWakeup, QueueTypeOK
    <2>2. closed' \in BOOLEAN
      BY DEF SpuriousWakeup, QueueTypeOK
    <2> QED BY <1>1, <2>1, <2>2 DEF QueueTypeOK
  <1>3. CountersExact'
    BY <1>1 DEF SpuriousWakeup, CountersExact
  <1>4. NoStrandedItem' /\ NoSleeperAfterClose'
    BY <1>1 DEF SpuriousWakeup, NoStrandedItem, NoSleeperAfterClose
  <1>5. LeftOnlyWhenClosed'
    BY DEF SpuriousWakeup, LeftOnlyWhenClosed, QueueTypeOK
  <1> QED BY <1>2, <1>3, <1>4, <1>5

(* close() preserves the invariant: its notify_all leaves no sleeper. *)
LEMMA CloseInv ==
  ASSUME QueueInv, Close
  PROVE  QueueInv'
  <1> USE DEF QueueInv
  <1>1. /\ popper' \in [Poppers -> PopperState] /\ InPop' = InPop
        /\ Waiting' = {}
    BY DEF Close, QueueTypeOK, PopperState, InPop, Waiting
  <1>2. QueueTypeOK'
    <2>1. list' \in Seq(Items) /\ currentSize' \in Nat /\ popw' \in Nat
      BY DEF Close, QueueTypeOK
    <2>2. closed' \in BOOLEAN
      BY DEF Close
    <2> QED BY <1>1, <2>1, <2>2 DEF QueueTypeOK
  <1>3. CountersExact'
    BY <1>1 DEF Close, CountersExact
  <1>4. NoStrandedItem' /\ NoSleeperAfterClose' /\ LeftOnlyWhenClosed'
    BY <1>1 DEF Close, NoStrandedItem, NoSleeperAfterClose, LeftOnlyWhenClosed
  <1> QED BY <1>2, <1>3, <1>4

(* Every step of the queue, and every stutter, preserves the invariant. *)
LEMMA QueueStepInv == QueueInv /\ [QueueNext]_queueVars => QueueInv'
  <1> SUFFICES ASSUME QueueInv, [QueueNext]_queueVars PROVE QueueInv'
    OBVIOUS
  <1>1. ASSUME NEW v \in Items, Push(v) PROVE QueueInv'
    BY <1>1, PushInv
  <1>2. ASSUME NEW c \in Poppers, Pop(c) PROVE QueueInv'
    BY <1>2, PopWaitInv, PopTakeInv, PopClosedInv DEF Pop
  <1>3. ASSUME NEW c \in Poppers, SpuriousWakeup(c) PROVE QueueInv'
    BY <1>3, SpuriousInv
  <1>4. CASE Close
    BY <1>4, CloseInv
  <1>5. CASE UNCHANGED queueVars
    BY <1>5 DEF queueVars, QueueInv, QueueTypeOK, CountersExact, NoStrandedItem,
                NoSleeperAfterClose, LeftOnlyWhenClosed, InPop, Waiting
  <1> QED BY <1>1, <1>2, <1>3, <1>4, <1>5 DEF QueueNext

(* The inductive invariant holds in every behaviour of the queue. *)
THEOREM QueueInvariance == QueueSpec => []QueueInv
  <1> QED BY QueueInitInv, QueueStepInv, PTL DEF QueueSpec

(* The list, the counters and the poppers keep their types. *)
THEOREM QueueTypeCorrect == QueueSpec => []QueueTypeOK
  <1>1. QueueInv => QueueTypeOK
    BY DEF QueueInv
  <1> QED BY <1>1, QueueInvariance, PTL

(* currentSize is the length of the list and popw the number of threads    *)
(* inside pop(), whatever the number of threads and the order of calls.    *)
THEOREM CountersStayExact == QueueSpec => []CountersExact
  <1>1. QueueInv => CountersExact
    BY DEF QueueInv
  <1> QED BY <1>1, QueueInvariance, PTL

(* push()'s notify_one on the transition from empty is enough: work never  *)
(* lies in an open queue while every popper sleeps.                        *)
THEOREM NothingStranded == QueueSpec => []NoStrandedItem
  <1>1. QueueInv => NoStrandedItem
    BY DEF QueueInv
  <1> QED BY <1>1, QueueInvariance, PTL

(* close() releases every sleeper, and nobody falls asleep after it. *)
THEOREM NobodySleepsThroughClose == QueueSpec => []NoSleeperAfterClose
  <1>1. QueueInv => NoSleeperAfterClose
    BY DEF QueueInv
  <1> QED BY <1>1, QueueInvariance, PTL
==============================================================================
