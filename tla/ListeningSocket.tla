--------------------------- MODULE ListeningSocket --------------------------
(***************************************************************************)
(* AListeningSocket (iosock.hpp, Linux): the generator that listen()       *)
(* launches, which accepts until accept would block and awaits the next    *)
(* event, shutdown(), which completes the same future as the IO thread     *)
(* does, and the ticket, which close() releases.  The connections that     *)
(* come in and the errors of accept are external.                          *)
(***************************************************************************)
EXTENDS IOYengine

CONSTANTS MaxConnections, MaxErrors  (* bounds for TLC *)

VARIABLES pending,   (* the connections that are to be accepted             *)
          arrived,   (* how many have come in                               *)
          accepted,  (* those that are accepted and in use: FileResources   *)
          errors     (* how many errors there were                          *)

listenVars == <<pending, arrived, accepted, errors>>

ListenInit == pending = 0 /\ arrived = 0 /\ accepted = 0 /\ errors = 0

(* listen(): the socket is registered for EPOLLIN and the generator runs.  *)
Listen ==
  /\ phase = "none" /\ live
  /\ phase' = "resume" /\ epoll' = "IN"
  /\ UNCHANGED <<engif, notifier, posted, lifeVars, listenVars>>

ConnectionArrives ==
  /\ live /\ arrived < MaxConnections
  /\ arrived' = arrived + 1 /\ pending' = pending + 1
  /\ UNCHANGED <<ioVars, accepted, errors>>

(* A connection's FileResource and its ticket are let go. *)
ConnectionGone ==
  /\ accepted > 0 /\ accepted' = accepted - 1
  /\ Release(1)
  /\ UNCHANGED <<epoll, engif, notifier, posted, phase, cancels, live, crashed,
                 pending, arrived, errors>>

(* notify(IOCompletionInfo): any other event than EPOLLIN is an error.     *)
ListenEvent ==
  \/ /\ EpollWait({f \in {"IN"} : pending > 0}, {"Accept"})
     /\ UNCHANGED listenVars
  \/ /\ errors < MaxErrors /\ errors' = errors + 1
     /\ EpollWait({"ERR"}, {"Error"})
     /\ UNCHANGED <<pending, arrived, accepted>>

Shutdown == ClientNotifies({"Close"}) /\ UNCHANGED listenVars

ListenNotify == \E t \in {"io", "client"} : Notify(t) /\ UNCHANGED listenVars

------------------------------------------------------------------------------
(* The generator. *)
ListenTakesUp == phase = "resume" /\ Running /\ UNCHANGED listenVars

ListenAwaits ==
  /\ phase = "resume" /\ ~engif.completed /\ Arm("IN")
  /\ UNCHANGED listenVars

(* close(): the listener's ticket is released. *)
StahpTwice ==  (* faulty: close() and ~AListeningSocket() both count *)
  /\ live' = FALSE /\ epoll' = "unknown" /\ Release(2)
  /\ phase' = "returned"
  /\ UNCHANGED <<engif, notifier, posted, cancels, crashed>>

Stahp ==
  /\ Close /\ phase' = "returned"
  /\ UNCHANGED <<engif, notifier, posted, cancels, crashed>>

(* erracc() decides whether to go on. *)
ListenSwitch ==
  /\ phase = "take"
  /\ \/ engif.r = {"Accept"} /\ Goes("loop") /\ UNCHANGED <<epoll, engif>>
     \/ engif.r = {"Error"} /\ (Stahp \/ Arm("IN"))
     \/ engif.r = {"Close"} /\ Stahp
  /\ UNCHANGED listenVars

Accept ==
  /\ phase = "loop" /\ pending > 0
  /\ pending' = pending - 1 /\ accepted' = accepted + 1
  /\ Ticket
  /\ UNCHANGED <<epoll, engif, notifier, posted, phase, cancels, live, crashed,
                 arrived, errors>>

AcceptBlocks ==
  /\ phase = "loop" /\ pending = 0 /\ Arm("IN")
  /\ UNCHANGED listenVars

(* ECONNABORTED, or an error that erracc() decides on. *)
AcceptFails ==
  /\ phase = "loop" /\ errors < MaxErrors /\ errors' = errors + 1
  /\ \/ Goes("loop") /\ UNCHANGED <<epoll, engif>>
     \/ Stahp
  /\ UNCHANGED <<pending, arrived, accepted>>

ListenStep ==
  \/ ListenTakesUp \/ ListenAwaits \/ ListenSwitch
  \/ Accept \/ AcceptBlocks \/ AcceptFails
  \/ EngineStep /\ UNCHANGED listenVars
==============================================================================
