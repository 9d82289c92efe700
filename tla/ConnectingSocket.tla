-------------------------- MODULE ConnectingSocket --------------------------
(***************************************************************************)
(* ConnectingSocket (iosock.hpp, iosock.cpp, Linux): netConnectTo()        *)
(* registers the socket for EPOLLOUT and then calls connect: a socket that *)
(* connect was not called for yet hangs up.  connest() awaits redy (engif  *)
(* here) and makes a FileResource of the socket, or returns the error.     *)
(* connect and the peer are external.                                      *)
(***************************************************************************)
EXTENDS IOYengine

VARIABLES link,     (* "none", "fresh", "trying", "up" or "refused"         *)
          early,    (* the hang-up of the fresh socket was reported         *)
          atOnce,   (* connect() succeeded at once                          *)
          outcome,  (* what connest() has yielded, or {}                    *)
          stream    (* the FileResource that it has made is in use          *)

connectVars == <<link, early, atOnce, outcome, stream>>

ConnectInit ==
  link = "none" /\ early = FALSE /\ atOnce = FALSE /\ outcome = {} /\ stream = FALSE

Register ==
  /\ link = "none" /\ link' = "fresh" /\ epoll' = "OUT"
  /\ UNCHANGED <<early, atOnce, outcome, stream, engif, notifier, posted, phase, lifeVars>>

(* One candidate is connected to, or begun with; or none is, and the       *)
(* ConnectingSocket goes with its ticket.                                  *)
ConnectCandidates ==
  /\ link = "fresh"
  /\ \/ /\ link' = "up" /\ atOnce' = TRUE
        /\ engif' = [completed |-> TRUE, r |-> {"ok"}]
        /\ UNCHANGED <<outcome, epoll, lifeVars>>
     \/ /\ link' = "trying"
        /\ UNCHANGED <<atOnce, outcome, engif, epoll, lifeVars>>
     \/ /\ link' = "refused" /\ outcome' = {"exhausted"} /\ Close
        /\ UNCHANGED <<atOnce, engif, cancels, crashed>>
  /\ UNCHANGED <<early, stream, notifier, posted, phase>>

netConnectTo == Register \/ ConnectCandidates

LinkSettles ==
  /\ link = "trying" /\ link' \in {"up", "refused"}
  /\ UNCHANGED <<early, atOnce, outcome, stream, ioVars>>

(* notify(IOCompletionInfo): what redy becomes for a set of events. *)
RedyIfWritable(flags) ==  (* faulty: a failed connection is writable too *)
  IF "OUT" \in flags THEN {"ok"} ELSE {"cancelled"}

Redy(flags) ==
  IF "HUP" \in flags THEN {"cancelled"}
  ELSE IF "ERR" \in flags THEN {"failed"} ELSE {"ok"}

ConnectEvent ==
  /\ \/ link = "fresh" /\ EpollWait({"OUT", "HUP"}, Redy({"OUT", "HUP"}))
     \/ link = "up" /\ EpollWait({"OUT"}, Redy({"OUT"}))
     \/ link = "refused" /\ EpollWait({"OUT", "ERR"}, Redy({"OUT", "ERR"}))
     \/ link = "refused" /\ EpollWait({"OUT", "ERR", "HUP"}, Redy({"OUT", "ERR", "HUP"}))
  /\ early' = (early \/ link = "fresh")
  /\ UNCHANGED <<link, atOnce, outcome, stream>>

ConnectCancel == live /\ link \notin {"none", "fresh"} /\ ClientNotifies({"cancelled"}) /\ UNCHANGED connectVars

ConnectNotify == \E t \in {"io", "client"} : Notify(t) /\ UNCHANGED connectVars

(* connest(), launched: it returns redy at once. *)
connest ==
  /\ link \notin {"none", "fresh"} /\ outcome = {} /\ phase = "none" /\ live
  /\ phase' = "check"
  /\ UNCHANGED <<epoll, engif, notifier, posted, lifeVars, connectVars>>

(* Its lambdas: taek() gives the FileResource a ticket of its own. *)
Connected ==
  /\ phase = "resume" /\ phase' = "returned"
  /\ outcome' = engif.r
  /\ stream' = (outcome' = {"ok"})
  /\ IF stream' THEN Ticket ELSE UNCHANGED <<tickets, wioe>>
  /\ UNCHANGED <<epoll, engif, notifier, posted, cancels, live, crashed, link, early, atOnce>>

(* ~ConnectingSocket(): the descriptor stays, armed or not, if it was      *)
(* given to the FileResource.                                              *)
SocketGone ==
  /\ live /\ outcome # {} /\ WorkerFree /\ notifier["client"].at = "out"
  /\ live' = FALSE /\ Release(1)
  /\ epoll' = IF stream THEN epoll ELSE "unknown"
  /\ UNCHANGED <<engif, notifier, posted, phase, cancels, crashed, connectVars>>

(* The FileResource arms the descriptor for itself, or is let go. *)
StreamRearms ==
  /\ stream /\ epoll = "OUT" /\ epoll' = "idle"
  /\ UNCHANGED <<engif, notifier, posted, phase, lifeVars, connectVars>>

StreamGone ==
  /\ stream /\ stream' = FALSE /\ epoll' = "unknown" /\ Release(1)
  /\ UNCHANGED <<engif, notifier, posted, phase, cancels, live, crashed, link, early, atOnce, outcome>>

ConnectStep == Connected \/ (EngineStep /\ UNCHANGED connectVars)
ConnectClient == netConnectTo \/ connest \/ ConnectCancel \/ SocketGone \/ StreamRearms \/ StreamGone
==============================================================================
