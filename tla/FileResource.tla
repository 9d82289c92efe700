---------------------------- MODULE FileResource ----------------------------
(***************************************************************************)
(* FileResource (io.cpp): _read() and _write() of a file, a socket or a    *)
(* pipe through epoll, one operation at a time.  A regular file is not     *)
(* taken by epoll (EPERM).  A "socket" is one that ConnectingSocket has    *)
(* made, which epoll knows and which does not block; an "accepted" one is  *)
(* made by accept() without O_NONBLOCK, and blocks the worker.             *)
(*                                                                         *)
(* The bytes that come in are numbered; what the resource's user writes is *)
(* a sequence of bytes too.  The kernel and the peer are external.         *)
(***************************************************************************)
EXTENDS IOYengine

CONSTANTS InSize,      (* how many bytes the peer sends, or the file has    *)
          BufferSize,  (* DEFAULT_BUFFER_SIZE                               *)
          Capacity,    (* what the kernel takes before the peer reads       *)
          Kinds        (* of resource                                       *)

ASSUME FileAssumption ==
  /\ InSize \in Nat /\ BufferSize \in Nat \ {0} /\ Capacity \in Nat \ {0}
  /\ Kinds \subseteq {"regular", "socket", "accepted", "pipe"}

VARIABLES kind, iopor,
          sent, closed,  (* the bytes sent; the peer sends no more          *)
          taken,         (* the bytes that ::read has returned              *)
          space,         (* what ::write can transfer                       *)
          wrote,         (* the bytes that ::write has transferred          *)
          op,            (* the operation: event it waits for, bytes to read*)
          data,          (* of the operation: read so far, still to write   *)
          result,        (* what the operation has returned                 *)
          failed,        (* the errors that operations have ended with      *)
          disturbed      (* read by the properties only: see Clean          *)

peerVars == <<kind, sent, closed, space>>
opVars == <<op, data, result, failed, disturbed>>
fileVars == <<iopor, peerVars, taken, wrote, opVars>>

Idle == [event |-> "none", bytes |-> 0]
NoResult == [status |-> "none", data |-> <<>>]
Operations == [event : {"IN"}, bytes : Nat] \cup [event : {"OUT"}, bytes : {0}]

Blocks == kind = "accepted"
Lesser(m, n) == IF m < n THEN m ELSE n

(* taek() *)
FileInit ==
  /\ kind \in Kinds /\ iopor = (kind = "socket")
  /\ sent = (IF kind = "regular" THEN InSize ELSE 0)
  /\ closed = (kind = "regular")
  /\ taken = 0 /\ space = Capacity /\ wrote = <<>>
  /\ op = Idle /\ data = <<>> /\ result = NoResult /\ failed = {}
  /\ disturbed = FALSE

------------------------------------------------------------------------------
(* The peer, and what the kernel makes of it.  A pipe that is closed hangs *)
(* up, a socket that will not send any more is readable.  What the peer of *)
(* a resource that is gone does is left out.                               *)
PeerSends ==
  /\ live /\ ~closed /\ sent < InSize /\ sent' = sent + 1
  /\ UNCHANGED <<ioVars, kind, iopor, closed, taken, space, wrote, opVars>>

PeerCloses ==
  /\ live /\ ~closed /\ closed' = TRUE
  /\ UNCHANGED <<ioVars, kind, iopor, sent, taken, space, wrote, opVars>>

PeerReads ==
  /\ live /\ space < Capacity /\ space' = space + 1
  /\ UNCHANGED <<ioVars, kind, iopor, sent, closed, taken, wrote, opVars>>

Readable == sent > taken \/ (closed /\ kind \in {"socket", "accepted"})

Ready ==
  IF epoll = "OUT" THEN {f \in {"OUT"} : space > 0}
  ELSE {f \in {"IN"} : Readable} \cup {f \in {"HUP"} : closed /\ kind = "pipe"}

FileEvent == EpollWait(Ready, Ready) /\ UNCHANGED fileVars

(* cancel(), by the client.                                                *)
FileCancel ==
  /\ live /\ ClientNotifies({"HUP"}) /\ disturbed' = TRUE
  /\ UNCHANGED <<iopor, peerVars, taken, wrote, op, data, result, failed>>

FileNotify == \E t \in {"io", "client"} : Notify(t) /\ UNCHANGED fileVars

------------------------------------------------------------------------------
(* Nothing is armed, on its way or left in engif.  An operation that finds *)
(* something when it begins, or is cancelled after that, is "disturbed".   *)
Clean ==
  /\ epoll \notin {"IN", "OUT"} /\ ~engif.completed
  /\ \A t \in DOMAIN notifier : notifier[t].at \in {"out", "post"}

(* The generator of an operation.                                          *)
Launch(o, d) ==
  /\ phase = "none" /\ live
  /\ phase' = "resume" /\ op' = o /\ data' = d /\ result' = NoResult
  /\ disturbed' = ~Clean
  /\ UNCHANGED <<epoll, engif, notifier, posted, lifeVars, iopor, peerVars, taken, wrote,
                 failed>>

Return(status, d) ==
  /\ Goes("returned")
  /\ result' = [status |-> status, data |-> d]
  /\ failed' = failed \cup ({status} \ {"ok"})
  /\ UNCHANGED <<op, disturbed>>

NothingToWrite == op.event = "OUT" /\ data = <<>>

WriteNothing ==
  /\ phase = "resume" /\ NothingToWrite
  /\ Return("ok", <<>>) /\ UNCHANGED data
  /\ UNCHANGED <<epoll, engif, iopor, peerVars, taken, wrote>>

(* lazyEpollReg(): a stream is registered and awaited; a regular file is   *)
(* marked as if it were, and its engif is completed at once.               *)
lazyEpollReg ==
  /\ phase = "resume" /\ ~NothingToWrite /\ ~iopor /\ iopor' = TRUE
  /\ IF kind = "regular"
       THEN /\ engif' = [completed |-> TRUE, r |-> {op.event}]
            /\ Goes("test") /\ UNCHANGED epoll
       ELSE Arm(op.event)
  /\ UNCHANGED <<peerVars, taken, wrote, opVars>>

AtTest == phase = "test" \/ (phase = "resume" /\ ~NothingToWrite /\ iopor)

TakeUp == AtTest /\ Running /\ UNCHANGED fileVars

(* epollRearm(): epoll does not know a regular file.                       *)
RearmsNothing == Goes("check") /\ UNCHANGED <<epoll, engif, opVars>>  (* faulty *)

epollRearm ==
  IF epoll = "unknown"
    THEN Return("rearm", <<>>) /\ data' = <<>> /\ UNCHANGED <<epoll, engif>>
    ELSE Arm(op.event) /\ UNCHANGED opVars

Await ==
  /\ AtTest /\ ~engif.completed /\ epollRearm
  /\ UNCHANGED <<iopor, peerVars, taken, wrote>>

(* The switch over the event, which is compared as a whole.                *)
Switch ==
  /\ phase = "take"
  /\ CASE engif.r = {op.event} -> Goes("loop") /\ UNCHANGED opVars
       [] engif.r = {"HUP"}    -> Return("cancelled", <<>>) /\ data' = <<>>
       [] OTHER                -> Return("unexpected", <<>>) /\ data' = <<>>
  /\ UNCHANGED <<epoll, engif, iopor, peerVars, taken, wrote>>

(* One ::read of the loop. *)
ReadSome ==
  LET n   == Lesser(BufferSize, sent - taken)
      all == data \o [i \in 1..n |-> taken + i]
  IN
  /\ phase = "loop" /\ op.event = "IN" /\ n > 0
  /\ taken' = taken + n
  /\ IF op.bytes > 0 /\ Len(all) >= op.bytes
       THEN Return("ok", all) /\ data' = <<>>
       ELSE data' = all /\ Goes("loop") /\ UNCHANGED <<op, result, failed, disturbed>>
  /\ UNCHANGED <<epoll, engif, iopor, peerVars, wrote>>

(* It returns nothing at the end, and before that EAGAIN, unless it blocks.*)
ReadNoneEnds ==  (* faulty: EAGAIN is taken for the end *)
  /\ phase = "loop" /\ op.event = "IN" /\ sent = taken
  /\ Return("ok", data) /\ data' = <<>>
  /\ UNCHANGED <<epoll, engif, iopor, peerVars, taken, wrote>>

ReadNone ==
  /\ phase = "loop" /\ op.event = "IN" /\ sent = taken /\ (closed \/ ~Blocks)
  /\ IF closed THEN Return("ok", data) /\ data' = <<>> /\ UNCHANGED <<epoll, engif>>
               ELSE epollRearm
  /\ UNCHANGED <<iopor, peerVars, taken, wrote>>

(* One ::write of the loop: a regular file takes all. *)
WriteSome ==
  LET n == IF kind = "regular" THEN Len(data) ELSE Lesser(space, Len(data)) IN
  /\ phase = "loop" /\ op.event = "OUT" /\ n > 0
  /\ wrote' = wrote \o SubSeq(data, 1, n)
  /\ space' = IF kind = "regular" THEN space ELSE space - n
  /\ data' = SubSeq(data, n + 1, Len(data))
  /\ IF data' = <<>> THEN Return("ok", <<>>)
                     ELSE Goes("loop") /\ UNCHANGED <<op, result, failed, disturbed>>
  /\ UNCHANGED <<epoll, engif, iopor, kind, sent, closed, taken>>

WriteNone ==
  /\ phase = "loop" /\ op.event = "OUT" /\ space = 0 /\ kind # "regular" /\ ~Blocks
  /\ epollRearm
  /\ UNCHANGED <<iopor, peerVars, taken, wrote>>

FileGenerator ==
  \/ WriteNothing \/ lazyEpollReg \/ TakeUp \/ Await \/ Switch
  \/ ReadSome \/ ReadNone \/ WriteSome \/ WriteNone

(* ~FileResource(): the client lets go of it between two operations.       *)
FileGone ==
  /\ live /\ phase = "none" /\ notifier["client"].at = "out"
  /\ Close
  /\ UNCHANGED <<engif, notifier, posted, phase, cancels, crashed, fileVars>>

FileStep == FileGenerator \/ (EngineStep /\ UNCHANGED fileVars)
FilePeer == PeerSends \/ PeerCloses \/ PeerReads
==============================================================================
