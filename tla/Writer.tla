------------------------------- MODULE Writer -------------------------------
(***************************************************************************)
(* IAIOResource::Writer (io.hpp, io.cpp): what is written accumulates in a *)
(* buffer, flush() puts a write of it behind the flush before, and letting *)
(* go of the writer flushes the rest and completes eod().                  *)
(*                                                                         *)
(* A flush is the generator lflush >> lambda (class F of module            *)
(* Generators): launching it runs the flushes before it first.  A client   *)
(* launches any of its flushes, or none, and none that is completed.       *)
(***************************************************************************)
EXTENDS FileResource

CONSTANTS MaxWritten, MaxFlushes  (* bounds for TLC *)

VARIABLES buffer,
          written,   (* the bytes given to the writer so far                *)
          flushes,   (* what each flush writes                              *)
          launched,  (* the last flush that is launched ...                 *)
          flushed,   (* ... and the last that is completed, ...             *)
          lflush,    (* ... and with what result                            *)
          open,      (* the writer has not been let go                      *)
          eod        (* the result of eod(), when there is one              *)

writerVars == <<buffer, written, flushes, launched, flushed, lflush, open, eod>>

WriterInit ==
  /\ buffer = <<>> /\ written = 0 /\ flushes = <<>> /\ launched = 0 /\ flushed = 0
  /\ lflush = "ok" /\ open = TRUE /\ eod = "none"

WriterWrite ==
  /\ open /\ written < MaxWritten
  /\ written' = written + 1
  /\ buffer' = Append(buffer, written')
  /\ UNCHANGED <<flushes, launched, flushed, lflush, open, eod, ioVars, fileVars>>

MakeFlush == flushes' = Append(flushes, buffer) /\ buffer' = <<>>

Flush ==
  /\ open /\ Len(flushes) < MaxFlushes /\ MakeFlush
  /\ UNCHANGED <<written, launched, flushed, lflush, open, eod, ioVars, fileVars>>

LaunchFlush(n) ==
  /\ n \in DOMAIN flushes /\ n > launched /\ launched' = n
  /\ UNCHANGED <<buffer, written, flushes, flushed, lflush, open, eod, ioVars, fileVars>>

WriterGoneUnflushed ==  (* faulty: what is in the buffer is not flushed *)
  /\ open /\ open' = FALSE /\ launched' = Len(flushes)
  /\ UNCHANGED <<buffer, written, flushes, flushed, lflush, eod, ioVars, fileVars>>

(* ~Writer() *)
WriterGone ==
  /\ open /\ open' = FALSE
  /\ MakeFlush /\ launched' = Len(flushes')
  /\ UNCHANGED <<written, flushed, lflush, eod, ioVars, fileVars>>

(* The lambda of a flush: after a failure nothing is written any more.     *)
FlushStarts ==
  /\ flushed < launched /\ lflush = "ok"
  /\ Launch([event |-> "OUT", bytes |-> 0], flushes[flushed + 1])
  /\ UNCHANGED writerVars

FlushFails ==
  /\ flushed < launched /\ lflush # "ok" /\ flushed' = flushed + 1
  /\ UNCHANGED <<buffer, written, flushes, launched, lflush, open, eod, ioVars, fileVars>>

FlushEnds ==
  /\ phase = "returned" /\ phase' = "none"
  /\ flushed' = flushed + 1 /\ lflush' = result.status
  /\ UNCHANGED <<buffer, written, flushes, launched, open, eod,
                 epoll, engif, notifier, posted, lifeVars, fileVars>>

(* The last flush is followed by the completion of eodnot.                 *)
EodCompleted ==
  /\ ~open /\ flushed = Len(flushes) /\ eod = "none" /\ eod' = lflush
  /\ UNCHANGED <<buffer, written, flushes, launched, flushed, lflush, open,
                 ioVars, fileVars>>

WriterClient == WriterWrite \/ Flush \/ WriterGone \/ \E n \in 1..MaxFlushes : LaunchFlush(n)
WriterEngine == FlushStarts \/ FlushFails \/ FlushEnds \/ EodCompleted
==============================================================================
