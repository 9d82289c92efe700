----------------------------- MODULE BufferedIO -----------------------------
(***************************************************************************)
(* What IAIOResource (io.hpp, io.cpp) puts on top of a resource's _read()  *)
(* and _write(): reads of exactly so many bytes, to the end or to a        *)
(* pattern, and peeks, over a buffer of what was read beyond the request.  *)
(* The client calls one at a time.                                         *)
(***************************************************************************)
EXTENDS FileResource, FiniteSetsExt

CONSTANTS Content,   (* the byte that comes in at each position             *)
          Pattern,   (* what a "until" reads to                             *)
          Requests,  (* what the client may ask for                         *)
          LastRequests, MaxCalls   (* what it may ask for in the end, and   *)
                                   (* how often it asks: bounds for TLC     *)

ASSUME BufferAssumption ==
  /\ Len(Content) = InSize /\ Len(Pattern) \in Nat \ {0} /\ MaxCalls \in Nat
  /\ Requests \subseteq [kind : {"upto", "peek", "write"}, size : Nat \ {0}]
                    \cup [kind : {"all", "until"}, size : {0}]

VARIABLES readbuff,
          call,   (* what the client has asked for and not been answered    *)
          reply,  (* the last answer: to what, how it went, which bytes     *)
          got,    (* the bytes that reads have returned                     *)
          calls, given  (* how many calls, and bytes to write, there were   *)

bufferVars == <<readbuff, call, reply, got, calls, given>>

NoCall == [kind |-> "none", size |-> 0]
NoReply == [to |-> NoCall, status |-> "none", data |-> <<>>]

BufferInit ==
  /\ readbuff = <<>> /\ got = <<>> /\ calls = 0 /\ given = 0
  /\ call = NoCall /\ reply = NoReply

UpTo(s, n) == SubSeq(s, 1, Lesser(n, Len(s)))
After(s, n) == SubSeq(s, n + 1, Len(s))

(* The positions of buff at which the pattern ends. *)
Ends(buff) ==
  {j \in Len(Pattern)..Len(buff) :
     \A k \in 1..Len(Pattern) : Content[buff[j - Len(Pattern) + k]] = Pattern[k]}

(* The answer to q: data, of which a read consumes all. *)
Answer(q, status, d) ==
  /\ call' = NoCall
  /\ reply' = [to |-> q, status |-> status, data |-> d]
  /\ got' = IF q.kind = "peek" THEN got ELSE got \o d

------------------------------------------------------------------------------
(* A call that the buffer can answer is answered in place. *)
Buffered(q) ==
  \/ q.kind \in {"upto", "peek"} /\ Len(readbuff) >= q.size
  \/ q.kind = "until" /\ Ends(readbuff) # {}

(* How many bytes of the buffer are the answer. *)
Size(q, buff) == IF q.kind = "until" THEN Min(Ends(buff)) ELSE q.size

CallBuffered(q) ==
  /\ Buffered(q) /\ phase = "none" /\ live
  /\ Answer(q, "ok", UpTo(readbuff, Size(q, readbuff)))
  /\ readbuff' = IF q.kind = "peek" THEN readbuff ELSE After(readbuff, Size(q, readbuff))
  /\ UNCHANGED <<ioVars, fileVars, given>>

(* Another reads from the resource what is missing, "all" everything, and  *)
(* "until" something.                                                      *)
Missing(q) ==
  CASE q.kind = "all"   -> 0
    [] q.kind = "until" -> 1
    [] OTHER            -> q.size - Len(readbuff)

CallRead(q) ==
  /\ q.kind # "write" /\ ~Buffered(q)
  /\ Launch([event |-> "IN", bytes |-> Missing(q)], <<>>)
  /\ call' = q /\ reply' = NoReply
  /\ UNCHANGED <<readbuff, got, given>>

CallWrite(q) ==
  /\ q.kind = "write" /\ kind # "pipe"
  /\ Launch([event |-> "OUT", bytes |-> 0], [i \in 1..q.size |-> given + i])
  /\ call' = q /\ reply' = NoReply /\ given' = given + q.size
  /\ UNCHANGED <<readbuff, got>>

Call(q) ==
  /\ call = NoCall /\ calls < MaxCalls /\ calls' = calls + 1
  /\ calls' = MaxCalls => q \in LastRequests
  /\ CallBuffered(q) \/ CallRead(q) \/ CallWrite(q)

------------------------------------------------------------------------------
(* The resource has returned: the lambdas that map its result.             *)
Settled == phase' = "none" /\ UNCHANGED <<epoll, engif, notifier, posted, lifeVars, fileVars>>

all == readbuff \o result.data

Failed ==
  /\ result.status # "ok" /\ Settled
  /\ Answer(call, result.status, <<>>)
  /\ UNCHANGED readbuff

Written ==
  /\ call.kind = "write" /\ result.status = "ok" /\ Settled
  /\ Answer(call, "ok", <<>>)
  /\ UNCHANGED readbuff

ReadAll ==
  /\ call.kind = "all" /\ result.status = "ok" /\ Settled
  /\ Answer(call, "ok", all)
  /\ readbuff' = <<>>

(* What exceeds the request stays in the buffer ... *)
ReadUpToDrops ==  (* faulty: it does not *)
  /\ call.kind = "upto" /\ result.status = "ok" /\ Settled
  /\ Answer(call, "ok", UpTo(all, call.size))
  /\ readbuff' = <<>>

ReadUpTo ==
  /\ call.kind = "upto" /\ result.status = "ok" /\ Settled
  /\ Answer(call, "ok", UpTo(all, call.size))
  /\ readbuff' = After(all, call.size)

(* ... and after a peek everything does. *)
Peeked ==
  /\ call.kind = "peek" /\ result.status = "ok" /\ Settled
  /\ Answer(call, "ok", UpTo(all, call.size))
  /\ readbuff' = all

(* read_(): nothing more to read; the pattern is there; or not yet.        *)
ReadUntilEnd ==
  /\ call.kind = "until" /\ result.status = "ok" /\ result.data = <<>> /\ Settled
  /\ Answer(call, "no pattern", <<>>)
  /\ UNCHANGED readbuff

ReadUntilMet ==
  /\ call.kind = "until" /\ result.data # <<>> /\ Ends(all) # {} /\ Settled
  /\ Answer(call, "ok", UpTo(all, Min(Ends(all))))
  /\ readbuff' = After(all, Min(Ends(all)))

ReadUntilMore ==
  /\ call.kind = "until" /\ result.data # <<>> /\ Ends(all) = {}
  /\ readbuff' = all
  /\ phase' = "resume" /\ op' = [event |-> "IN", bytes |-> 1] /\ data' = <<>>
  /\ result' = NoResult
  /\ UNCHANGED <<epoll, engif, notifier, posted, lifeVars, iopor, peerVars, taken, wrote,
                 failed, disturbed, call, reply, got>>

Mapped ==
  /\ phase = "returned" /\ call # NoCall /\ UNCHANGED <<calls, given>>
  /\ \/ Failed \/ Written \/ ReadAll \/ ReadUpTo \/ Peeked
     \/ ReadUntilEnd \/ ReadUntilMet \/ ReadUntilMore

==============================================================================
