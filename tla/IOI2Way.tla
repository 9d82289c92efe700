------------------------------- MODULE IOI2Way -------------------------------
(***************************************************************************)
(* One direction of the two-way virtual resource (iompls.cpp): what the    *)
(* end W writes is appended to a buffer, from which the end R reads.  The  *)
(* two directions share nothing, so one of them is modelled: the end that  *)
(* writes, until it is destroyed, the end that reads, one read at a time,  *)
(* and the engine of the reader, as far as it resumes the read generator.  *)
(*                                                                         *)
(* Bytes are numbered in the order they are written.  notifi[R] is reset   *)
(* by the reader without the lock (line 47) while the writer may be using  *)
(* it (lines 15-16): the writer then copies what was there or follows a    *)
(* pointer that is gone, which ends the program.                           *)
(***************************************************************************)
EXTENDS Naturals, Sequences

CONSTANTS MaxBytes,  (* at most so many bytes are written: a bound for TLC  *)
          MaxReads,  (* at most so many reads are started: a bound for TLC  *)
          Chunks,    (* the sizes of single writes                          *)
          Requests   (* what reads ask for; 0: until the end                *)

ASSUME PipeAssumption ==
  /\ MaxBytes \in Nat /\ MaxReads \in Nat
  /\ Chunks \subseteq Nat \ {0} /\ Requests \subseteq Nat

Never == 0   (* no future *)

VARIABLES buff,       (* the bytes in the buffer                            *)
          written,    (* the number of bytes written so far                 *)
          exi,        (* the writing end exists                             *)
          notifi,     (* the future the writer is to complete, or Never     *)
          last,       (* the last future made; they are numbered            *)
          completed,  (* the futures that are completed                     *)
          telling,    (* the future the writer is about to complete ...     *)
          posting,    (* ... and the one it is about to notify the engine of*)
          posted,     (* engine: how often each future is in the work queue *)
          workers,    (* engine: the number of its threads                  *)
          reader,     (* where the read generator is: see ReaderState       *)
          want,       (* the bytes the read asks for                        *)
          reads,      (* the number of reads started                        *)
          got,        (* the bytes that reads have returned                 *)
          crashed

writerVars == <<written, exi, telling, posting>>
engineVars == <<completed, posted, workers>>
clientVars == <<want, reads>>
vars == <<buff, writerVars, notifi, last, engineVars, reader, clientVars, got, crashed>>

(* "idle": no read; "reset" and "move": in its resume(), before and after  *)
(* line 47; "check" and "add": in threado(), with the future it returned;  *)
(* "parked": in notifications; "gone": the reading end is destroyed.       *)
ReaderState == {"idle", "reset", "move", "check", "add", "parked", "gone"}

(* The futures a run can make: each but the last is completed on account   *)
(* of a write or of the end of transmission.                               *)
Ids == 1..(MaxBytes + 2)

Init ==
  /\ buff = <<>> /\ written = 0 /\ exi = TRUE
  /\ notifi = Never /\ last = Never
  /\ completed = {} /\ telling = Never /\ posting = Never
  /\ posted = [n \in Ids |-> 0]
  /\ workers \in {1, 2}
  /\ reader = "idle" /\ want = 0 /\ reads = 0 /\ got = <<>>
  /\ crashed = FALSE

------------------------------------------------------------------------------
(* The writing end.  It holds the lock until it has notified the engine.   *)
LockFree == telling = Never /\ posting = Never

(* The next n bytes. *)
NextBytes(n) == [i \in 1..n |-> written + i]

(* The lambda of _write(): append, then notify<W>(), if a read waits. *)
Write(n) ==
  /\ exi /\ LockFree /\ written + n <= MaxBytes
  /\ buff' = buff \o NextBytes(n)
  /\ written' = written + n
  /\ telling' = notifi
  /\ UNCHANGED <<exi, posting, notifi, last, engineVars, reader, clientVars, got, crashed>>

(* Faulty: the reader is not told. *)
WriterGoneQuietly ==
  /\ exi /\ LockFree
  /\ exi' = FALSE
  /\ UNCHANGED <<buff, written, telling, posting, notifi, last, engineVars, reader,
                 clientVars, got, crashed>>

(* ~IOI() of the writing end: the end of transmission. *)
WriterGone ==
  /\ exi /\ LockFree
  /\ exi' = FALSE
  /\ telling' = notifi
  /\ UNCHANGED <<buff, written, posting, notifi, last, engineVars, reader, clientVars,
                 got, crashed>>

(* n->completed() ... *)
Complete ==
  /\ telling # Never
  /\ completed' = completed \cup {telling}
  /\ telling' = Never /\ posting' = telling
  /\ UNCHANGED <<buff, written, exi, notifi, last, posted, workers, reader, clientVars,
                 got, crashed>>

(* ... and notivia[W]->notify(n). *)
Post ==
  /\ posting # Never
  /\ posted' = [posted EXCEPT ![posting] = @ + 1]
  /\ posting' = Never
  /\ UNCHANGED <<buff, written, exi, telling, notifi, last, completed, workers, reader,
                 clientVars, got, crashed>>

------------------------------------------------------------------------------
(* The reading end. *)
ReaderMoves(s) == UNCHANGED <<writerVars, clientVars, workers>> /\ reader' = s

(* _read(bytes), submitted and popped by a worker. *)
Read(b) ==
  /\ reader = "idle" /\ reads < MaxReads
  /\ reads' = reads + 1 /\ want' = b
  /\ reader' = "reset"
  /\ UNCHANGED <<buff, writerVars, notifi, last, engineVars, got, crashed>>

(* Line 47, without the lock: it pulls the future from under the writer,   *)
(* which copies it in time or does not.                                    *)
Reset ==
  /\ reader = "reset"
  /\ ReaderMoves("move")
  /\ notifi' = Never
  /\ crashed' \in (IF telling # Never THEN BOOLEAN ELSE {FALSE})
  /\ UNCHANGED <<buff, last, completed, posted, got>>

(* The critical section takes all of the buffer.  `data` is a parameter by *)
(* value, so that what is taken is in the result or nowhere.               *)
Returns(data) ==
  /\ ReaderMoves("idle")
  /\ got' = got \o data
  /\ UNCHANGED <<notifi, last>>

Awaits ==
  /\ ReaderMoves("check")
  /\ last' = last + 1 /\ notifi' = last'
  /\ UNCHANGED got

Enough == (want > 0 /\ Len(buff) >= want) \/ ~exi

MoveCopies ==  (* faulty: the bytes stay in the buffer *)
  /\ reader = "move" /\ LockFree
  /\ IF Enough THEN Returns(buff) ELSE Awaits
  /\ UNCHANGED <<buff, completed, posted, crashed>>

MoveForgets ==  (* faulty: the writer is not given the future *)
  /\ reader = "move" /\ LockFree
  /\ buff' = <<>>
  /\ IF Enough
       THEN Returns(buff)
       ELSE ReaderMoves("check") /\ last' = last + 1 /\ UNCHANGED <<notifi, got>>
  /\ UNCHANGED <<completed, posted, crashed>>

Move ==
  /\ reader = "move" /\ LockFree
  /\ buff' = <<>>
  /\ IF Enough THEN Returns(buff) ELSE Awaits
  /\ UNCHANGED <<completed, posted, crashed>>

(* ~IOI() of the reading end; a read in progress keeps the end alive. *)
ReaderGone ==
  /\ reader = "idle" /\ LockFree
  /\ ReaderMoves("gone")
  /\ notifi' = Never
  /\ UNCHANGED <<buff, last, completed, posted, got, crashed>>

------------------------------------------------------------------------------
(* The engine of the reader: Check, Add, Drop of module Yengine, as far as *)
(* they concern the read generator.                                        *)
Check ==
  /\ reader = "check"
  /\ ReaderMoves(IF last \in completed THEN "reset" ELSE "add")
  /\ UNCHANGED <<buff, notifi, last, completed, posted, got, crashed>>

Add ==
  /\ reader = "add"
  /\ ReaderMoves("parked")
  /\ UNCHANGED <<buff, notifi, last, completed, posted, got, crashed>>

DropUnposted(n) ==  (* faulty: an empty queue is popped *)
  /\ workers > 1 \/ reader \in {"idle", "parked", "gone"}
  /\ posted' = [posted EXCEPT ![n] = @ - 1]
  /\ ReaderMoves(IF reader = "parked" /\ n = last THEN "reset" ELSE reader)
  /\ UNCHANGED <<buff, notifi, last, completed, got, crashed>>

(* A worker that is not busy with the reader processes a notification: it  *)
(* resumes the reader if that is what is parked under the future.          *)
Drop(n) ==
  /\ posted[n] > 0
  /\ workers > 1 \/ reader \in {"idle", "parked", "gone"}
  /\ posted' = [posted EXCEPT ![n] = @ - 1]
  /\ ReaderMoves(IF reader = "parked" /\ n = last THEN "reset" ELSE reader)
  /\ UNCHANGED <<buff, notifi, last, completed, got, crashed>>

ReaderStep == Reset \/ Move \/ Check \/ Add
Engine == \E n \in Ids : Drop(n)

Next ==
  /\ ~crashed
  /\ \/ \E n \in Chunks : Write(n)
     \/ \E b \in Requests : Read(b)
     \/ WriterGone \/ Complete \/ Post
     \/ ReaderGone \/ ReaderStep \/ Engine

Spec == Init /\ [][Next]_vars

(* The engine's threads are scheduled, and a notify that was begun ends. *)
FairSpec ==
  /\ Spec
  /\ WF_vars(~crashed /\ (Complete \/ Post))
  /\ WF_vars(~crashed /\ ReaderStep) /\ WF_vars(~crashed /\ Engine)

------------------------------------------------------------------------------
TypeOK ==
  /\ buff \in Seq(1..MaxBytes) /\ got \in Seq(1..MaxBytes)
  /\ written \in 0..MaxBytes /\ reads \in 0..MaxReads
  /\ want \in Requests \cup {0}
  /\ exi \in BOOLEAN /\ crashed \in BOOLEAN /\ workers \in {1, 2}
  /\ {notifi, last, telling, posting} \subseteq Ids \cup {Never}
  /\ completed \subseteq Ids
  /\ posted \in [Ids -> Nat]
  /\ reader \in ReaderState

(* No byte is read twice or out of order, whichever reads return it: what  *)
(* has been read and what is still in the buffer are in the order in which *)
(* it was written.                                                         *)
OnceInOrder ==
  LET seen == got \o buff IN
  \A i, j \in DOMAIN seen : i < j => seen[i] < seen[j]

(* A reader that is parked will be told of everything it has not seen: it  *)
(* is parked under the future the writer holds, and if there are bytes or  *)
(* the writer is gone the notification of that future is on its way.       *)
ParkedIsTold ==
  workers = 1 /\ reader = "parked" =>
    /\ notifi = last
    /\ buff # <<>> \/ ~exi => \/ last \in {telling, posting}
                              \/ posted[last] > 0

(* When the other end is gone every read ends. *)
EndIsReported ==
  (~exi /\ workers = 1 /\ reader \notin {"idle", "gone"})
     ~> (crashed \/ reader \in {"idle", "gone"})

(* iompls.hpp:11 "Everything written to one end can be read from the       *)
(* other": between two reads, what was written has been read or is still   *)
(* in the buffer.                                                          *)
NothingLost == reader = "idle" => Len(got) + Len(buff) = written
==============================================================================
