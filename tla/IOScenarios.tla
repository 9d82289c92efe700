---------------------------- MODULE IOScenarios -----------------------------
(***************************************************************************)
(* The IO engine with one resource of each kind in turn: a FileResource    *)
(* that is read and written through its buffer, or through a Writer, a     *)
(* listening socket, or a connecting one.  Resources share nothing but the *)
(* IO thread, which handles one event at a time, and the count of tickets. *)
(* In a scenario of its own the client uses CtrlC, which has its own       *)
(* thread, and leaves the resource as it is.                               *)
(***************************************************************************)
EXTENDS BufferedIO, Writer, ListeningSocket, ConnectingSocket, CtrlC

CONSTANT Scenarios

ASSUME ScenarioAssumption ==
  Scenarios \subseteq {"reader", "writer", "listener", "connection", "interrupt"}

VARIABLE scenario

resourceVars == <<fileVars, bufferVars, writerVars, listenVars, connectVars>>
vars == <<scenario, ioVars, resourceVars, ctrlcVars>>

Init ==
  /\ scenario \in Scenarios
  /\ FileInit /\ BufferInit /\ WriterInit /\ ListenInit /\ ConnectInit /\ CtrlCInit
  /\ IOInit(IF iopor THEN "idle" ELSE "unknown")
  /\ scenario = "writer" => kind # "pipe"
  /\ scenario \notin {"reader", "writer"} => kind = "socket"

------------------------------------------------------------------------------
(* What a scenario leaves alone. *)
Reader ==
  /\ scenario = "reader"
  /\ UNCHANGED <<scenario, writerVars, listenVars, connectVars, ctrlcVars>>
Writing ==
  /\ scenario = "writer"
  /\ UNCHANGED <<scenario, bufferVars, listenVars, connectVars, ctrlcVars>>
Listener ==
  /\ scenario = "listener"
  /\ UNCHANGED <<scenario, fileVars, bufferVars, writerVars, connectVars, ctrlcVars>>
Connection ==
  /\ scenario = "connection"
  /\ UNCHANGED <<scenario, fileVars, bufferVars, writerVars, listenVars, ctrlcVars>>
Interrupt == scenario = "interrupt" /\ UNCHANGED <<scenario, ioVars, resourceVars>>

(* The clients and what is outside. *)
ReaderClient ==
  \/ \E q \in Requests : Call(q)
  \/ FilePeer /\ UNCHANGED bufferVars
  \/ kind = "socket" /\ FileCancel /\ UNCHANGED bufferVars
  \/ calls = MaxCalls /\ FileGone /\ UNCHANGED bufferVars

WriterScenario ==
  \/ WriterClient
  \/ (PeerReads \/ FileCancel) /\ UNCHANGED writerVars
  \/ eod # "none" /\ FileGone /\ UNCHANGED writerVars

Client ==
  /\ ~crashed
  /\ \/ Reader /\ ReaderClient
     \/ Writing /\ WriterScenario
     \/ Listener /\ (Listen \/ ConnectionArrives \/ ConnectionGone \/ Shutdown)
     \/ Connection /\ (ConnectClient \/ LinkSettles)
     \/ Interrupt /\ CtrlCClient

(* The engine's worker. *)
WorkerStep ==
  /\ ~crashed
  /\ \/ Reader /\ (Mapped \/ (FileStep /\ UNCHANGED bufferVars))
     \/ Writing /\ (WriterEngine \/ (FileStep /\ UNCHANGED writerVars))
     \/ Listener /\ ListenStep
     \/ Connection /\ ConnectStep

(* The IO thread, and the client's thread in notify() and in un(). *)
IOStep ==
  /\ ~crashed
  /\ \/ Reader /\ (FileEvent \/ FileNotify) /\ UNCHANGED bufferVars
     \/ Writing /\ (FileEvent \/ FileNotify) /\ UNCHANGED writerVars
     \/ Listener /\ (ListenEvent \/ ListenNotify)
     \/ Connection /\ (ConnectEvent \/ ConnectNotify)
     \/ Interrupt /\ UnStep
     \/ IOThreadEnds /\ UNCHANGED <<scenario, resourceVars, ctrlcVars>>

CatcherStep == Interrupt /\ Catcher

Next == Client \/ WorkerStep \/ IOStep \/ CatcherStep

Spec == Init /\ [][Next]_vars

(* The worker, or the catcher, is scheduled; so are the IO thread and a    *)
(* notify() or un() that was begun, and the peer reads what it is sent, at *)
(* the latest when neither of them has anything to do.                     *)
PeerStep ==
  /\ ~crashed /\ PeerReads
  /\ \/ Reader /\ UNCHANGED bufferVars
     \/ Writing /\ UNCHANGED writerVars

(* Each step of the former changes one of workerVars, each of the latter   *)
(* one of threadVars.                                                      *)
workerVars == <<phase, posted, data, pending, errors, writerVars, catcher>>
threadVars == <<notifier, wioe, un, terminated, space>>

FairSpec ==
  /\ Spec
  /\ WF_workerVars(WorkerStep \/ CatcherStep)
  /\ WF_threadVars(IOStep \/ PeerStep)

------------------------------------------------------------------------------
IsFile == scenario \in {"reader", "writer"}
InBytes == Seq(1..InSize)
Gone == ~live /\ accepted = 0 /\ ~stream   (* every resource is gone       *)

TypeOK ==
  /\ epoll \in {"unknown", "idle", "IN", "OUT"} /\ phase \in Phases
  /\ engif.completed \in BOOLEAN /\ posted \in Nat /\ tickets \in Nat
  /\ cancels \in 0..MaxCancels
  /\ {live, crashed, iopor, closed, disturbed, open, atOnce, early, stream} \subseteq BOOLEAN
  /\ sent \in 0..InSize /\ taken \in 0..sent /\ space \in 0..Capacity
  /\ op \in Operations \cup {Idle}
  /\ {readbuff, got, reply.data} \subseteq InBytes
  /\ flushed \in 0..launched /\ launched \in 0..Len(flushes)
  /\ pending + accepted \in 0..arrived
  /\ ctrlcEvent \in -1..(2 * MaxSignals + 1) /\ signals \in 0..MaxSignals /\ ons \in 0..MaxOns
  /\ future \in {"none", "Running", "Completed", "Cancelled"}

(* The bytes that have left the kernel, in the order the client gets them. *)
Received ==
  got \o readbuff \o (IF op.event # "IN" THEN <<>>
                      ELSE IF phase = "returned" THEN result.data ELSE data)

(* io.hpp: no byte is repeated or moved by the read buffer, by peeks and   *)
(* by reads that take several events, and none is lost unless an operation *)
(* has failed.                                                             *)
BytesAccounted ==
  /\ \A i, j \in DOMAIN Received : i < j => Received[i] < Received[j]
  /\ failed = {} => Received = [i \in 1..taken |-> i]

(* io.hpp:143-170: a read returns as many bytes as it was asked for, or    *)
(* what there was before the end; one until a pattern ends with the first  *)
(* occurrence; a peek returns what the next read will.                     *)
RepliesAsAsked ==
  LET q == reply.to
      d == reply.data
      AtEnd == closed /\ taken = sent
  IN
  /\ reply.status = "ok" =>
       /\ q.kind \in {"upto", "peek"} => \/ Len(d) = q.size
                                         \/ Len(d) < q.size /\ AtEnd
       /\ q.kind = "all" => AtEnd /\ readbuff = <<>>
       /\ q.kind = "until" => Ends(d) = {Len(d)}
       /\ q.kind = "peek" => UpTo(readbuff, Len(d)) = d
  /\ reply.status = "no pattern" => AtEnd /\ Ends(readbuff) = {}

(* The client has used the file before: an earlier call, the first round   *)
(* of this one, or a flush.                                                *)
UsedBefore == calls > 1 \/ call.kind = "until" \/ flushed > 0

(* io.cpp:57-79, 153-193: an operation fails by a cause of its own.  It is *)
(* disturbed; or its pipe hung up, with nothing left to read (it says it   *)
(* was cancelled) or with something (it takes that for a wrong event); or  *)
(* its file is a regular one, and not used for the first time.             *)
FailsForCause ==
  LET HungUp == kind = "pipe" /\ closed IN
  phase = "returned" =>
    /\ result.status = "cancelled"   => disturbed \/ (HungUp /\ ~Readable)
    /\ result.status = "unexpected" => disturbed \/ (HungUp /\ Readable)
    /\ result.status = "rearm"       => kind = "regular" /\ UsedBefore

(* io.hpp:78-80, iosock.cpp:69-87: what is reported is so.  An operation   *)
(* of a file fails by a cause of its own; connest() yields a stream only   *)
(* of a connection that is up, and an error only of one that was refused,  *)
(* that was cancelled or whose socket was reported before connect was      *)
(* called.  The future of CtrlC is completed by a signal that came since   *)
(* its on(), never by a post of the semaphore that was left, or made by    *)
(* un() (ioctrcl.cpp:82-85).                                               *)
OutcomesAreTrue ==
  /\ IsFile => FailsForCause
  /\ outcome = {"ok"} => link = "up"
  /\ outcome = {"failed"} => link = "refused"
  /\ outcome = {"cancelled"} => link = "refused" \/ cancels > 0 \/ early
  /\ future = "Completed" => heard

(* io.hpp:189-199: a writer writes what it was given, once and in order,   *)
(* and eod() is only fulfilled without an error after all of it.           *)
EodMeansWritten ==
  scenario = "writer" =>
    /\ wrote = [i \in 1..Len(wrote) |-> i] /\ Len(wrote) <= written
    /\ eod = "ok" => Len(wrote) = written
    /\ eod \notin {"none", "ok"} => failed # {}

(* io.cpp:41-44: what an operation of a file, a socket or a pipe was not   *)
(* disturbed by, it leaves to none: nothing is armed, on its way or left   *)
(* in engif for the next operation, or for one that is gone.  The IO       *)
(* thread may still be about to notify the engine of what was taken up.    *)
FileQuiet == IsFile /\ ~disturbed /\ (phase = "none" \/ ~live) => Clean

(* iosock.cpp:69-87: a connecting socket that is gone is not armed, and    *)
(* no event of it on its way.  Not so if it was cancelled, if connect()    *)
(* succeeded at once, or if it was reported before that was called.        *)
ConnectionQuiet ==
  scenario = "connection" /\ ~live /\ cancels = 0 /\ ~atOnce /\ ~early =>
    epoll \notin {"IN", "OUT"} /\ notifier["io"].at \in {"out", "post"}

(* ioctrcl.cpp:109-121: after un() the catcher neither touches its future  *)
(* nor notifies the engine, which may be gone.                             *)
CatcherQuiet == un = "idle" /\ stahp => catcher = "none"

(* Nothing comes late: of a file between operations, of a connecting       *)
(* socket or of CtrlC after its end.  A listening socket is not covered:   *)
(* listen() arms it before its generator does, and shutdown() notifies.    *)
QuietBetweenOperations == FileQuiet /\ ConnectionQuiet /\ CatcherQuiet

(* io.hpp:284-288: "Possession of such a ticket guarantees processing of   *)
(* IO operations": wioe() does not stop the IO thread before every         *)
(* resource is gone ...                                                    *)
WioeWaits == wioe # "waits" => Gone

(* ... and returns after that. *)
WioeReturns == Gone ~> (wioe = "returned" \/ crashed)

(* What the client waits for comes: the answer of a call, once the peer    *)
(* sends no more; eod(), once the writer is let go; the outcome of a       *)
(* connection that is settled; the acceptance of one that has come in; the *)
(* news of a signal, unless it calls un(); and the return of un().         *)
Waiting ==
  \/ call # NoCall /\ closed
  \/ ~open /\ eod = "none"
  \/ link \in {"up", "refused"} /\ phase # "none" /\ outcome = {}
  \/ pending > 0 /\ phase # "none" /\ live
  \/ heard /\ ~stahp /\ ~(future = "Completed" /\ notified)
  \/ un # "idle"

WaitsEnd == Waiting ~> (~Waiting \/ crashed \/ terminated)

(* io.cpp:65: of a regular file "That means that all r/w will succeed      *)
(* (and block)."  They do not: the second one is told to rearm epoll.      *)
RegularSucceeds == kind = "regular" => failed = {}
==============================================================================
